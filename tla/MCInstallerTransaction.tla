----------------------- MODULE MCInstallerTransaction -----------------------
(***************************************************************************)
(* Two versions of two artifacts: an update to v2 replaces one and retires *)
(* the other, going back to v1 creates it again, and either is also        *)
(* installed where there is nothing.                                       *)
(***************************************************************************)
EXTENDS InstallerTransaction

CONSTANTS a, b, v1, v2

MCPayload ==
    [v \in {v1, v2} |-> IF v = v1 THEN <<v1, v1>> ELSE <<v2, Absent>>]
MCWant == [p \in {a, b} |-> IF p = a THEN v2 ELSE v1]

=============================================================================
