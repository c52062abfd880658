-------------------------- MODULE MCSessionHandoff --------------------------
(***************************************************************************)
(* Two calls at a time: a rollover that may write, another rollover of the *)
(* same checkpoint that may not, and a plain start that may write.         *)
(***************************************************************************)
EXTENDS SessionHandoff

CONSTANTS r1, r2, k1

MCRequest ==
    { [fresh |-> TRUE, write |-> TRUE, rollover |-> r1, checkpoint |-> k1],
      [fresh |-> TRUE, write |-> FALSE, rollover |-> r2, checkpoint |-> k1],
      [fresh |-> FALSE, write |-> TRUE, rollover |-> r1, checkpoint |-> k1] }

=============================================================================
