--------------------------- MODULE MCLedgerWrite ----------------------------
(* Two invocations at a time, retried and restarted without limit, and two *)
(* events, one of them bound to a lease that ends at time 1.               *)
EXTENDS LedgerWrite

CONSTANTS p1, p2, r1, r2

MCProcess == {p1, p2}
TwoRequests == {r1, r2}
Deadline2 == [r \in TwoRequests |-> IF r = r1 THEN 1 ELSE 2]

=============================================================================
