-------------------------- MODULE MCGitNexusRefresh --------------------------
(***************************************************************************)
(* Two hooks and an operator, two commits.                                 *)
(***************************************************************************)
EXTENDS GitNexusRefresh, TLC

Symmetry == Permutations(Hook)

=============================================================================
