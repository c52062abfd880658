--------------------------- MODULE MCMemorySqlite ---------------------------
(***************************************************************************)
(* Two processes and one record: it is stored, replaced and ended; two     *)
(* authorities share a key, and one is still valid when it is retried.     *)
(***************************************************************************)
EXTENDS MemorySqlite, TLC

CONSTANTS p1, p2, memo, v1, v2, k1, k2, k3

Auth(key, kind, prior, version, expires) ==
    [key |-> key, kind |-> kind, target |-> memo, before |-> prior,
     version |-> version, issued |-> 0, expires |-> expires]

MCAuthorities ==
    { Auth(k1, "upsert", None, v1, 2), Auth(k1, "delete", v1, v1, 1),
      Auth(k2, "upsert", v1, v2, 1), Auth(k3, "invalidate", v1, v1, 1) }

Symmetry == Permutations(Process)

=============================================================================
