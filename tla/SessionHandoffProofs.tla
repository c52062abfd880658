------------------------ MODULE SessionHandoffProofs -------------------------
(***************************************************************************)
(* Theorems about SessionHandoff, for any number of calls, requests and    *)
(* claims.  Two inductive invariants beside the type:                      *)
(*   ClaimInv, about the replay ledger: one call claims at a time, what a  *)
(*     call holds is in the ledger, durably once it goes on, and calls     *)
(*     that hold a claim differ in it from each other and from every       *)
(*     session there was;                                                  *)
(*   RunInv, about one call: what it knows of its process tree when it     *)
(*     goes on to the patch, and that it has a receipt only when done.     *)
(***************************************************************************)
EXTENDS SessionHandoff, SequenceTheorems, TLAPS

\* The cases of a step, for proofs by cases.
LEMMA HandoffSteps ==
    ASSUME [Next]_vars
    PROVE  \/ \E c \in Call, r \in Request : Validate(c, r)
           \/ \E c \in Call : Stage(c)
           \/ \E c \in Call : ReplaceLedger(c)
           \/ \E c \in Call : SyncLedger(c)
           \/ \E c \in Call : StopClaim(c)
           \/ \E c \in Call : Launch(c)
           \/ \E c \in Call : SeeExit(c)
           \/ \E c \in Call : Track(c)
           \/ \E c \in Call : Abort(c)
           \/ \E c \in Call : ReapLate(c)
           \/ \E c \in Call : Kill(c)
           \/ \E c \in Call : SeeTreeGone(c)
           \/ \E c \in Call : TerminationError(c)
           \/ \E c \in Call : Reaped(c)
           \/ \E c \in Call : Fail(c)
           \/ \E c \in Call : Complete(c)
           \/ \E c \in Call : Recheck(c)
           \/ \E c \in Call : Apply(c)
           \/ \E c \in Call : FailPatch(c)
           \/ \E c \in Call : Exit(c)
           \/ \E c \in Call : Spawn(c)
           \/ \E c \in Call : HandOver(c)
           \/ \E c \in Call : KidExit(c)
           \/ \E c \in Call : Crash(c)
           \/ PowerLoss \/ Edit \/ CommitOrRestore
           \/ UNCHANGED vars
BY DEF Next, Execute

-----------------------------------------------------------------------------
(* The ledger as a sequence.                                               *)

\* A request names a claim.
LEMMA RequestFacts ==
    ASSUME NEW r \in Request
    PROVE  /\ [rollover |-> r.rollover, checkpoint |-> r.checkpoint] \in Claim
           /\ r.fresh \in BOOLEAN /\ r.write \in BOOLEAN
BY HandoffAssumption DEF Claim

\* A claim is written behind those that are there.
LEMMA LedgerGrows ==
    ASSUME TypeOK, NEW c \in Call, ReplaceLedger(c)
    PROVE  /\ ledger' \in Seq(Claim) /\ Len(ledger') = Len(ledger) + 1
           /\ Len(ledger) \in Nat /\ synced \in 0 .. Len(ledger)
           /\ \A i \in 1 .. Len(ledger) : ledger'[i] = ledger[i]
           /\ ledger'[Len(ledger) + 1] = [rollover |-> req[c].rollover,
                                          checkpoint |-> req[c].checkpoint]
<1>1. req[c] \in Request
  BY DEF TypeOK, ReplaceLedger, Steps, Claiming
<1> QED BY <1>1, RequestFacts, AppendProperties, LenProperties
        DEF TypeOK, ReplaceLedger

\* A session is started after those that were.
LEMMA SessionsGrow ==
    ASSUME TypeOK, NEW c \in Call, Launch(c)
    PROVE  /\ Len(sessions') = Len(sessions) + 1 /\ Len(sessions) \in Nat
           /\ \A i \in 1 .. Len(sessions) : sessions'[i] = sessions[i]
           /\ sessions'[Len(sessions) + 1] = req[c]
<1>1. req[c] \in Request
  BY DEF TypeOK, Launch, Steps
<1> QED BY <1>1, AppendProperties, LenProperties DEF TypeOK, Launch

\* A power failure leaves at least what was synced.
LEMMA LedgerShrinks ==
    ASSUME TypeOK, PowerLoss
    PROVE  /\ ledger' \in Seq(Claim) /\ Len(ledger') = synced'
           /\ synced \in Nat /\ synced' \in Nat
           /\ synced =< synced' /\ synced' =< Len(ledger)
           /\ \A i \in 1 .. synced' : ledger'[i] = ledger[i]
<1>1. ledger \in Seq(Claim) /\ synced \in 0 .. Len(ledger)
  BY DEF TypeOK
<1>2. Len(ledger) \in Nat
  BY <1>1, LenProperties
<1>3. PICK n \in synced .. Len(ledger) :
         ledger' = SubSeq(ledger, 1, n) /\ synced' = n
  BY DEF PowerLoss
<1>4. n \in Nat /\ 1 \in Int /\ n \in Int
  BY <1>1, <1>2
<1>5. \A i \in 1 .. n : ledger[i] \in Claim
  BY <1>1, <1>2, <1>4, ElementOfSeq
<1>6. /\ SubSeq(ledger, 1, n) \in Seq(Claim)
      /\ Len(SubSeq(ledger, 1, n)) = IF 1 =< n THEN n - 1 + 1 ELSE 0
      /\ \A i \in 1 .. n - 1 + 1 : SubSeq(ledger, 1, n)[i] = ledger[1 + i - 1]
  BY SMTT(40), <1>4, <1>5, SubSeqProperties
<1> QED BY <1>1, <1>2, <1>3, <1>4, <1>6

\* Every step keeps the type.
LEMMA TypeStep ==
    ASSUME TypeOK, [Next]_vars
    PROVE  TypeOK'
<1> USE DEF TypeOK, Steps, Claiming, Running, claims, worktree, tree, Goto
<1>1. CASE \E c \in Call, r \in Request : Validate(c, r)
  BY <1>1 DEF Validate
<1>2. CASE \E c \in Call : Stage(c)
  BY <1>2 DEF Stage
<1>3. CASE \E c \in Call : ReplaceLedger(c)
  <2>1. PICK c \in Call : ReplaceLedger(c)
    BY <1>3
  <2>2. ledger' \in Seq(Claim) /\ synced' \in 0 .. Len(ledger')
    <3>1. synced' = synced
      BY <2>1 DEF ReplaceLedger
    <3>2. /\ ledger' \in Seq(Claim) /\ Len(ledger') = Len(ledger) + 1
          /\ Len(ledger) \in Nat /\ synced \in 0 .. Len(ledger)
      BY <2>1, LedgerGrows
    <3> QED BY <3>1, <3>2
  <2> QED BY <2>1, <2>2 DEF ReplaceLedger
<1>4. CASE \E c \in Call : SyncLedger(c)
  <2>1. synced' \in 0 .. Len(ledger')
    BY <1>4, LenProperties DEF SyncLedger
  <2> QED BY <1>4, <2>1 DEF SyncLedger
<1>5. CASE \E c \in Call : StopClaim(c)
  BY <1>5 DEF StopClaim, Return, Receipt, NoReceipt
<1>6. CASE \E c \in Call : Launch(c)
  <2>1. PICK c \in Call : Launch(c)
    BY <1>6
  <2>2. req[c] \in Request
    BY <2>1 DEF Launch
  <2>3. sessions' \in Seq(Request)
    BY <2>1, <2>2, AppendProperties DEF Launch
  <2> QED BY <2>1, <2>3 DEF Launch
<1>7. CASE \E c \in Call : SeeExit(c)
  BY <1>7 DEF SeeExit
<1>8. CASE \E c \in Call : Track(c)
  BY <1>8 DEF Track
<1>9. CASE \E c \in Call : Abort(c)
  BY <1>9 DEF Abort, Terminate, Seen
<1>10. CASE \E c \in Call : ReapLate(c)
  BY <1>10 DEF ReapLate, Terminate, Seen
<1>11. CASE \E c \in Call : Kill(c)
  BY <1>11 DEF Kill
<1>12. CASE \E c \in Call : SeeTreeGone(c)
  BY <1>12 DEF SeeTreeGone
<1>13. CASE \E c \in Call : TerminationError(c)
  BY <1>13 DEF TerminationError, Return, Receipt, NoReceipt
<1>14. CASE \E c \in Call : Reaped(c)
  BY <1>14 DEF Reaped, Over
<1>15. CASE \E c \in Call : Fail(c)
  BY <1>15 DEF Fail, Return, Over, Receipt, NoReceipt
<1>16. CASE \E c \in Call : Complete(c)
  BY <1>16 DEF Complete, Return, Receipt, NoReceipt
<1>17. CASE \E c \in Call : Recheck(c)
  BY <1>17 DEF Recheck
<1>18. CASE \E c \in Call : Apply(c)
  BY <1>18 DEF Apply, Return, Receipt, NoReceipt
<1>19. CASE \E c \in Call : FailPatch(c)
  <2>1. PICK c \in Call : FailPatch(c)
    BY <1>19
  <2>2. landed' \in [Call -> {"no", "partly", "yes"}] /\ dirty' \in BOOLEAN
    BY ZenonT(60), <2>1 DEF FailPatch
  <2>3. receipt' \in [Call -> Receipt]
    BY <2>1 DEF FailPatch, Return, Receipt
  <2> QED BY <2>1, <2>2, <2>3 DEF FailPatch, Return
<1>20. CASE \E c \in Call : Exit(c)
  BY <1>20 DEF Exit
<1>21. CASE \E c \in Call : Spawn(c)
  BY <1>21 DEF Spawn
<1>22. CASE \E c \in Call : HandOver(c)
  BY <1>22 DEF HandOver
<1>23. CASE \E c \in Call : KidExit(c)
  BY <1>23 DEF KidExit
<1>24. CASE \E c \in Call : Crash(c)
  <2>1. PICK c \in Call : Crash(c)
    BY <1>24
  <2>2. dirty' \in BOOLEAN
    BY <2>1, Zenon DEF Crash
  <2> QED BY <2>1, <2>2 DEF Crash, Killed
<1>25. CASE PowerLoss
  <2>1. ledger' \in Seq(Claim) /\ synced' \in 0 .. Len(ledger')
    BY <1>25, LedgerShrinks
  <2> QED BY <1>25, <2>1 DEF PowerLoss, Killed
<1>26. CASE Edit
  BY <1>26 DEF Edit
<1>27. CASE CommitOrRestore
  BY <1>27 DEF CommitOrRestore
<1>28. CASE UNCHANGED vars
  BY <1>28 DEF vars
<1> QED BY HandoffSteps, <1>1, <1>2, <1>3, <1>4, <1>5, <1>6, <1>7, <1>8, <1>9,
        <1>10, <1>11, <1>12, <1>13, <1>14, <1>15, <1>16, <1>17, <1>18, <1>19,
        <1>20, <1>21, <1>22, <1>23, <1>24, <1>25, <1>26, <1>27, <1>28

-----------------------------------------------------------------------------
(* The claims.                                                             *)

Names(i, r) == ledger[i].rollover = r.rollover /\ ledger[i].checkpoint = r.checkpoint
Written(r) == \E i \in 1 .. Len(ledger) : Names(i, r)
Recorded(r) == \E i \in 1 .. synced : Names(i, r)
Apart(q, r) == q.rollover # r.rollover /\ q.checkpoint # r.checkpoint

Holding == {"replaced", "claimed"}
Later == Running \cup {"ended", "rechecked"}

OneClaims ==
    \A c \in Call :
       /\ pc[c] \in Claiming \cup {"validated"} => req[c].fresh
       /\ pc[c] \in Claiming => \A d \in Call : pc[d] \in Claiming => d = c

StagedIsNew == \A c \in Call : pc[c] = "staged" => Unclaimed(req[c])

ReplacedIsWritten == \A c \in Call : pc[c] = "replaced" => Written(req[c])

ClaimsRecorded ==
    \A c \in Call :
       /\ pc[c] \in Later \cup {"claimed"} /\ req[c].fresh => Recorded(req[c])
       /\ receipt[c].claimed => pc[c] = "done" /\ Recorded(req[c])

SessionsRecorded ==
    \A i \in 1 .. Len(sessions) : sessions[i].fresh => Recorded(sessions[i])

HoldersApart ==
    \A c, d \in Call :
       /\ c # d /\ pc[c] \in Holding /\ pc[d] \in Holding
       /\ req[c].fresh /\ req[d].fresh
       => Apart(req[c], req[d])

HoldersNew ==
    \A c \in Call : \A i \in 1 .. Len(sessions) :
       pc[c] \in Holding /\ req[c].fresh /\ sessions[i].fresh
          => Apart(req[c], sessions[i])

ClaimInv ==
    /\ TypeOK /\ OneClaims /\ StagedIsNew /\ ReplacedIsWritten
    /\ ClaimsRecorded /\ SessionsRecorded
    /\ HoldersApart /\ HoldersNew /\ OneSessionPerRollover

\* What the claims see of a call in the other steps: it stays where it is,
\* goes on, or ends, with the receipt it had or one that states its claim.
Proceeds(c) ==
    \/ pc'[c] = pc[c] /\ req'[c] = req[c] /\ receipt'[c] = receipt[c]
    \/ /\ pc[c] \in Later /\ pc'[c] \in Later
       /\ req'[c] = req[c] /\ receipt'[c] = receipt[c]
    \/ /\ pc[c] \in Steps /\ pc'[c] = "done"
       /\ \/ receipt'[c] = receipt[c]
          \/ /\ req'[c] = req[c]
             /\ receipt'[c].claimed =>
                   req[c].fresh /\ pc[c] \in Later \cup {"claimed"}

\* Few steps concern the claims.
LEMMA ClaimSteps ==
    ASSUME TypeOK, [Next]_vars
    PROVE  \/ \E c \in Call, r \in Request : Validate(c, r)
           \/ \E c \in Call : Stage(c)
           \/ \E c \in Call : ReplaceLedger(c)
           \/ \E c \in Call : SyncLedger(c)
           \/ \E c \in Call : Launch(c)
           \/ PowerLoss
           \/ /\ UNCHANGED <<ledger, synced, sessions>>
              /\ \A c \in Call : Proceeds(c)
<1> DEFINE Other == /\ UNCHANGED <<ledger, synced, sessions>>
                    /\ \A c \in Call : Proceeds(c)
<1> USE DEF Proceeds, TypeOK, Later, Steps, Claiming, Running, claims,
        worktree, tree, Goto
<1>1. ASSUME NEW e \in Call, StopClaim(e) PROVE Other
  BY ZenonT(60), <1>1 DEF StopClaim, Return
<1>2. ASSUME NEW e \in Call, SeeExit(e) PROVE Other
  BY <1>2 DEF SeeExit
<1>3. ASSUME NEW e \in Call, Track(e) PROVE Other
  BY <1>3 DEF Track
<1>4. ASSUME NEW e \in Call, Abort(e) PROVE Other
  BY <1>4 DEF Abort, Terminate, Seen
<1>5. ASSUME NEW e \in Call, ReapLate(e) PROVE Other
  BY <1>5 DEF ReapLate, Terminate, Seen
<1>6. ASSUME NEW e \in Call, Kill(e) PROVE Other
  BY <1>6 DEF Kill
<1>7. ASSUME NEW e \in Call, SeeTreeGone(e) PROVE Other
  BY <1>7 DEF SeeTreeGone
<1>8. ASSUME NEW e \in Call, TerminationError(e) PROVE Other
  BY <1>8 DEF TerminationError, Return
<1>9. ASSUME NEW e \in Call, Reaped(e) PROVE Other
  BY <1>9 DEF Reaped, Over
<1>10. ASSUME NEW e \in Call, Fail(e) PROVE Other
  <2>1. PICK u \in BOOLEAN : Return(e, "failed", FALSE, u)
    BY <1>10 DEF Fail
  <2>2. pc[e] \in Steps \ (Claiming \cup {"validated"})
    BY <1>10 DEF Fail, Over
  <2>3. UNCHANGED <<ledger, synced, sessions, req>>
    BY <1>10 DEF Fail
  <2> QED BY ZenonT(60), <2>1, <2>2, <2>3 DEF Return
<1>11. ASSUME NEW e \in Call, Complete(e) PROVE Other
  BY ZenonT(60), <1>11 DEF Complete, Return
<1>12. ASSUME NEW e \in Call, Recheck(e) PROVE Other
  BY <1>12 DEF Recheck
<1>13. ASSUME NEW e \in Call, Apply(e) PROVE Other
  BY ZenonT(60), <1>13 DEF Apply, Return
<1>14. ASSUME NEW e \in Call, FailPatch(e) PROVE Other
  BY ZenonT(60), <1>14 DEF FailPatch, Return
<1>15. ASSUME NEW e \in Call, Exit(e) PROVE Other
  BY <1>15 DEF Exit
<1>16. ASSUME NEW e \in Call, Spawn(e) PROVE Other
  BY <1>16 DEF Spawn
<1>17. ASSUME NEW e \in Call, HandOver(e) PROVE Other
  BY <1>17 DEF HandOver
<1>18. ASSUME NEW e \in Call, KidExit(e) PROVE Other
  BY <1>18 DEF KidExit
<1>19. ASSUME NEW e \in Call, Crash(e) PROVE Other
  BY <1>19 DEF Crash, Killed
<1>20. ASSUME Edit PROVE Other
  BY <1>20 DEF Edit
<1>21. ASSUME CommitOrRestore PROVE Other
  BY <1>21 DEF CommitOrRestore
<1>22. ASSUME UNCHANGED vars PROVE Other
  BY <1>22 DEF vars
<1> QED BY HandoffSteps, <1>1, <1>2, <1>3, <1>4, <1>5, <1>6, <1>7, <1>8, <1>9,
        <1>10, <1>11, <1>12, <1>13, <1>14, <1>15, <1>16, <1>17, <1>18, <1>19,
        <1>20, <1>21, <1>22


\* What is recorded stays recorded.
LEMMA RecordedStays ==
    ASSUME TypeOK, [Next]_vars
    PROVE  \A r : Recorded(r) => Recorded(r)'
<1>0. Len(ledger) \in Nat /\ synced \in 0 .. Len(ledger)
  BY LenProperties DEF TypeOK
<1> USE DEF Recorded, Names
<1>1. CASE \E c \in Call : ReplaceLedger(c)
  <2>1. PICK c \in Call : ReplaceLedger(c)
    BY <1>1
  <2>2. \A i \in 1 .. Len(ledger) : ledger'[i] = ledger[i]
    BY <2>1, LedgerGrows
  <2>3. synced' = synced
    BY <2>1 DEF ReplaceLedger
  <2> QED BY <1>0, <2>2, <2>3
<1>2. CASE \E c \in Call : SyncLedger(c)
  <2>1. synced' = Len(ledger) /\ ledger' = ledger
    BY <1>2 DEF SyncLedger
  <2> QED BY <1>0, <2>1
<1>3. CASE PowerLoss
  <2>1. /\ synced \in Nat /\ synced' \in Nat /\ synced =< synced'
        /\ \A i \in 1 .. synced' : ledger'[i] = ledger[i]
    BY <1>3, LedgerShrinks
  <2> QED BY <2>1
<1>4. CASE UNCHANGED <<ledger, synced>>
  BY <1>4
<1> QED BY <1>1, <1>2, <1>3, <1>4, ClaimSteps
        DEF Validate, Stage, Launch, claims

\* One call at a time is in the critical section.
LEMMA OneClaimsStep ==
    ASSUME TypeOK, OneClaims, [Next]_vars
    PROVE  OneClaims'
<1> USE DEF TypeOK, OneClaims, Claiming, Steps, Goto
<1>1. CASE \E c \in Call, r \in Request : Validate(c, r)
  BY <1>1 DEF Validate
<1>2. CASE \E c \in Call : Stage(c)
  BY <1>2 DEF Stage
<1>3. CASE \E c \in Call : ReplaceLedger(c)
  BY <1>3 DEF ReplaceLedger
<1>4. CASE \E c \in Call : SyncLedger(c)
  BY <1>4 DEF SyncLedger
<1>5. CASE \E c \in Call : Launch(c)
  BY <1>5 DEF Launch
<1>6. CASE PowerLoss
  BY <1>6 DEF PowerLoss, Killed
<1>7. CASE \A c \in Call : Proceeds(c)
  <2>1. \A c \in Call : pc'[c] \in Claiming \cup {"validated"} =>
           pc'[c] = pc[c] /\ req'[c] = req[c]
    BY <1>7 DEF Proceeds, Later, Running
  <2> QED BY <2>1
<1> QED BY <1>1, <1>2, <1>3, <1>4, <1>5, <1>6, <1>7, ClaimSteps

\* A call that proceeds does not come to hold or stage a claim.
LEMMA ProceedsFacts ==
    ASSUME NEW c \in Call, Proceeds(c)
    PROVE  /\ pc'[c] \in Claiming \cup {"validated", "claimed"} =>
                 pc'[c] = pc[c] /\ req'[c] = req[c]
           /\ pc'[c] \in Later => /\ pc[c] \in Later
                                  /\ req'[c] = req[c]
BY DEF Proceeds, Later, Running, Claiming

\* Only the call that staged a claim writes the ledger.
LEMMA StagedStep ==
    ASSUME TypeOK, OneClaims, StagedIsNew, [Next]_vars
    PROVE  StagedIsNew'
<1> USE DEF TypeOK, StagedIsNew, Unclaimed, Goto, claims
<1>1. CASE \E c \in Call, r \in Request : Validate(c, r)
  BY <1>1 DEF Validate
<1>2. CASE \E c \in Call : Stage(c)
  BY <1>2 DEF Stage
<1>3. CASE \E c \in Call : ReplaceLedger(c)
  BY <1>3 DEF ReplaceLedger, OneClaims, Claiming
<1>4. CASE \E c \in Call : SyncLedger(c)
  BY <1>4 DEF SyncLedger
<1>5. CASE \E c \in Call : Launch(c)
  BY <1>5 DEF Launch
<1>6. CASE PowerLoss
  BY <1>6 DEF PowerLoss, Killed, Steps, Claiming
<1>7. CASE ledger' = ledger /\ \A c \in Call : Proceeds(c)
  BY <1>7, ProceedsFacts DEF Claiming
<1> QED BY <1>1, <1>2, <1>3, <1>4, <1>5, <1>6, <1>7, ClaimSteps

\* Its claim is the last one until it is synced.
LEMMA WrittenStep ==
    ASSUME TypeOK, OneClaims, ReplacedIsWritten, [Next]_vars
    PROVE  ReplacedIsWritten'
<1> USE DEF TypeOK, ReplacedIsWritten, Written, Names, Goto, claims
<1>1. CASE \E c \in Call, r \in Request : Validate(c, r)
  BY <1>1 DEF Validate
<1>2. CASE \E c \in Call : Stage(c)
  BY <1>2 DEF Stage
<1>3. CASE \E c \in Call : ReplaceLedger(c)
  <2>1. PICK c \in Call : ReplaceLedger(c)
    BY <1>3
  <2>2. \A d \in Call : pc'[d] = "replaced" => d = c
    BY <2>1 DEF ReplaceLedger, OneClaims, Claiming
  <2>3. /\ Len(ledger') = Len(ledger) + 1 /\ Len(ledger) \in Nat
        /\ ledger'[Len(ledger) + 1] = [rollover |-> req[c].rollover,
                                       checkpoint |-> req[c].checkpoint]
    BY <2>1, LedgerGrows
  <2>4. req' = req
    BY <2>1 DEF ReplaceLedger
  <2>5. Len(ledger) + 1 \in 1 .. Len(ledger')
    BY <2>3
  <2> QED BY SMTT(40), <2>2, <2>3, <2>4, <2>5
<1>4. CASE \E c \in Call : SyncLedger(c)
  BY <1>4 DEF SyncLedger
<1>5. CASE \E c \in Call : Launch(c)
  BY <1>5 DEF Launch
<1>6. CASE PowerLoss
  BY <1>6 DEF PowerLoss, Killed, Steps, Claiming
<1>7. CASE ledger' = ledger /\ \A c \in Call : Proceeds(c)
  <2>1. \A c \in Call : pc'[c] = "replaced" => pc[c] = "replaced" /\ req'[c] = req[c]
    BY <1>7, ProceedsFacts DEF Claiming
  <2>2. \A r : Written(r) => Written(r)'
    BY <1>7
  <2> HIDE DEF Written
  <2> QED BY <2>1, <2>2
<1> QED BY <1>1, <1>2, <1>3, <1>4, <1>5, <1>6, <1>7, ClaimSteps

\* A call goes on only when its claim is synced, and a receipt states it only
\* then.
LEMMA RecordedStep ==
    ASSUME TypeOK, OneClaims, ReplacedIsWritten, ClaimsRecorded, [Next]_vars
    PROVE  ClaimsRecorded'
<1>0. \A r : Recorded(r) => Recorded(r)'
  BY RecordedStays
<1> USE <1>0 DEF TypeOK, ClaimsRecorded, Goto
<1>1. CASE \E c \in Call, r \in Request : Validate(c, r)
  BY <1>1 DEF Validate, Later, Running, Steps
<1>2. CASE \E c \in Call : Stage(c)
  BY <1>2 DEF Stage, Later, Running
<1>3. CASE \E c \in Call : ReplaceLedger(c)
  BY <1>3 DEF ReplaceLedger, Later, Running
<1>4. CASE \E c \in Call : SyncLedger(c)
  <2>1. PICK c \in Call : SyncLedger(c)
    BY <1>4
  <2>2. Recorded(req[c])'
    BY <2>1 DEF SyncLedger, ReplacedIsWritten, Written, Recorded, Names
  <2> QED BY <2>1, <2>2 DEF SyncLedger
<1>5. CASE \E c \in Call : Launch(c)
  BY <1>5 DEF Launch, Later, Running
<1>6. CASE PowerLoss
  <2>1. receipt' = receipt
    BY <1>6 DEF PowerLoss, Killed
  <2>2. \A c \in Call : /\ pc'[c] \notin Later \cup {"claimed"}
                        /\ pc[c] = "done" => pc'[c] = "done" /\ req'[c] = req[c]
    BY <1>6 DEF PowerLoss, Killed, Later, Running, Steps, Claiming
  <2>3. ASSUME NEW c \in Call, receipt'[c].claimed
        PROVE  pc'[c] = "done" /\ Recorded(req[c])'
    <3>1. pc[c] = "done" /\ Recorded(req[c])
      BY <2>1, <2>3
    <3>2. pc'[c] = "done" /\ req'[c] = req[c]
      BY <2>2, <3>1
    <3> QED BY <1>0, <3>1, <3>2
  <2> QED BY <2>2, <2>3
<1>7. CASE \A c \in Call : Proceeds(c)
  BY <1>7 DEF Proceeds, Later, Running, Steps, Claiming
<1> QED BY <1>1, <1>2, <1>3, <1>4, <1>5, <1>6, <1>7, ClaimSteps

\* A session is that of a call whose claim is recorded.
LEMMA SessionsStep ==
    ASSUME TypeOK, ClaimsRecorded, SessionsRecorded, [Next]_vars
    PROVE  SessionsRecorded'
<1>0. \A r : Recorded(r) => Recorded(r)'
  BY RecordedStays
<1>1. CASE \E c \in Call : Launch(c)
  <2>1. PICK c \in Call : Launch(c)
    BY <1>1
  <2>2. /\ Len(sessions') = Len(sessions) + 1 /\ Len(sessions) \in Nat
        /\ \A i \in 1 .. Len(sessions) : sessions'[i] = sessions[i]
        /\ sessions'[Len(sessions) + 1] = req[c]
    BY <2>1, SessionsGrow
  <2>3. req[c].fresh => Recorded(req[c])
    BY <2>1 DEF Launch, ClaimsRecorded
  <2>4. ASSUME NEW i \in 1 .. Len(sessions'), sessions'[i].fresh
        PROVE  Recorded(sessions[i])'
    <3>1. CASE i \in 1 .. Len(sessions)
      BY <1>0, <2>2, <2>4, <3>1 DEF SessionsRecorded
    <3>2. CASE i = Len(sessions) + 1
      BY <1>0, <2>2, <2>3, <2>4, <3>2
    <3> QED BY <2>2, <2>4, <3>1, <3>2
  <2> QED BY <2>4 DEF SessionsRecorded
<1>2. CASE sessions' = sessions
  BY <1>0, <1>2 DEF SessionsRecorded
<1> QED BY <1>1, <1>2, ClaimSteps
        DEF Validate, Stage, ReplaceLedger, SyncLedger, PowerLoss, Killed
\* A claim that is not in the ledger differs from all that are.
LEMMA UnclaimedApart ==
    ASSUME TypeOK, NEW q, NEW r, Unclaimed(q), Written(r) \/ Recorded(r)
    PROVE  Apart(q, r) /\ Apart(r, q)
<1>1. Len(ledger) \in Nat /\ synced \in 0 .. Len(ledger)
  BY LenProperties DEF TypeOK
<1> QED BY <1>1 DEF Unclaimed, Written, Recorded, Names, Apart

\* A claim that enters the ledger differs from those that others hold.
LEMMA ApartStep ==
    ASSUME TypeOK, StagedIsNew, ReplacedIsWritten, ClaimsRecorded,
           HoldersApart, [Next]_vars
    PROVE  HoldersApart'
<1> USE DEF TypeOK, HoldersApart, Holding, Goto
<1>1. CASE \E c \in Call, r \in Request : Validate(c, r)
  <2>1. \A c \in Call : pc'[c] \in Holding /\ req'[c].fresh =>
           pc[c] \in Holding /\ req'[c] = req[c]
    BY <1>1 DEF Validate
  <2> QED BY <2>1
<1>2. CASE \E c \in Call : Stage(c)
  BY <1>2 DEF Stage
<1>3. CASE \E c \in Call : ReplaceLedger(c)
  <2>1. PICK c \in Call : ReplaceLedger(c)
    BY <1>3
  <2>2. Unclaimed(req[c]) /\ req' = req
    BY <2>1 DEF ReplaceLedger, StagedIsNew
  <2>3. \A d \in Call : pc'[d] \in Holding /\ d # c => pc[d] \in Holding
    BY <2>1 DEF ReplaceLedger
  <2>4. \A d \in Call : pc[d] \in Holding /\ req[d].fresh =>
           Apart(req[c], req[d]) /\ Apart(req[d], req[c])
    BY <2>2, UnclaimedApart DEF ReplacedIsWritten, ClaimsRecorded
  <2> QED BY <2>2, <2>3, <2>4
<1>4. CASE \E c \in Call : SyncLedger(c)
  BY <1>4 DEF SyncLedger
<1>5. CASE \E c \in Call : Launch(c)
  BY <1>5 DEF Launch
<1>6. CASE PowerLoss
  <2>1. \A c \in Call : pc'[c] \notin Holding
    BY <1>6 DEF PowerLoss, Killed, Steps, Claiming
  <2> QED BY <2>1
<1>7. CASE \A c \in Call : Proceeds(c)
  <2>1. \A c \in Call : pc'[c] \in Holding => pc[c] \in Holding /\ req'[c] = req[c]
    BY <1>7, ProceedsFacts DEF Claiming
  <2> QED BY <2>1
<1> QED BY <1>1, <1>2, <1>3, <1>4, <1>5, <1>6, <1>7, ClaimSteps

\* It differs from those of the sessions there were; a new session is that
\* of a holder.
LEMMA NewStep ==
    ASSUME TypeOK, StagedIsNew, SessionsRecorded, HoldersApart, HoldersNew,
           [Next]_vars
    PROVE  HoldersNew'
<1> USE DEF TypeOK, HoldersNew, Holding, Goto
<1>1. CASE \E c \in Call, r \in Request : Validate(c, r)
  <2>1. \A c \in Call : pc'[c] \in Holding /\ req'[c].fresh =>
           pc[c] \in Holding /\ req'[c] = req[c]
    BY <1>1 DEF Validate
  <2>2. sessions' = sessions
    BY <1>1 DEF Validate
  <2> QED BY <2>1, <2>2
<1>2. CASE \E c \in Call : Stage(c)
  BY <1>2 DEF Stage
<1>3. CASE \E c \in Call : ReplaceLedger(c)
  <2>1. PICK c \in Call : ReplaceLedger(c)
    BY <1>3
  <2>2. Unclaimed(req[c]) /\ req' = req /\ sessions' = sessions
    BY <2>1 DEF ReplaceLedger, StagedIsNew
  <2>3. \A d \in Call : pc'[d] \in Holding /\ d # c => pc[d] \in Holding
    BY <2>1 DEF ReplaceLedger
  <2>4. \A i \in 1 .. Len(sessions) : sessions[i].fresh =>
           Apart(req[c], sessions[i])
    BY <2>2, UnclaimedApart DEF SessionsRecorded
  <2> QED BY <2>2, <2>3, <2>4
<1>4. CASE \E c \in Call : SyncLedger(c)
  BY <1>4 DEF SyncLedger
<1>5. CASE \E c \in Call : Launch(c)
  <2>1. PICK c \in Call : Launch(c)
    BY <1>5
  <2>2. /\ Len(sessions') = Len(sessions) + 1 /\ Len(sessions) \in Nat
        /\ \A i \in 1 .. Len(sessions) : sessions'[i] = sessions[i]
        /\ sessions'[Len(sessions) + 1] = req[c]
    BY <2>1, SessionsGrow
  <2>3. req' = req /\ pc[c] = "claimed"
    BY <2>1 DEF Launch
  <2>4. \A d \in Call : pc'[d] \in Holding => d # c /\ pc[d] \in Holding
    BY <2>1 DEF Launch
  <2>5. ASSUME NEW d \in Call, NEW i \in 1 .. Len(sessions'),
               pc'[d] \in Holding, req'[d].fresh, sessions'[i].fresh
        PROVE  Apart(req'[d], sessions'[i])
    <3>1. CASE i \in 1 .. Len(sessions)
      BY <2>2, <2>3, <2>4, <2>5, <3>1
    <3>2. CASE i = Len(sessions) + 1
      BY <2>2, <2>3, <2>4, <2>5, <3>2 DEF HoldersApart
    <3> QED BY <2>2, <2>5, <3>1, <3>2
  <2> QED BY <2>5 DEF Apart
<1>6. CASE PowerLoss
  <2>1. \A c \in Call : pc'[c] \notin Holding
    BY <1>6 DEF PowerLoss, Killed, Steps, Claiming
  <2> QED BY <2>1
<1>7. CASE sessions' = sessions /\ \A c \in Call : Proceeds(c)
  <2>1. \A c \in Call : pc'[c] \in Holding => pc[c] \in Holding /\ req'[c] = req[c]
    BY <1>7, ProceedsFacts DEF Claiming
  <2> QED BY <1>7, <2>1
<1> QED BY <1>1, <1>2, <1>3, <1>4, <1>5, <1>6, <1>7, ClaimSteps

\* So a new session differs from all before it.
LEMMA OneSessionStep ==
    ASSUME TypeOK, HoldersNew, OneSessionPerRollover, [Next]_vars
    PROVE  OneSessionPerRollover'
<1>1. CASE \E c \in Call : Launch(c)
  <2>1. PICK c \in Call : Launch(c)
    BY <1>1
  <2>2. /\ Len(sessions') = Len(sessions) + 1 /\ Len(sessions) \in Nat
        /\ \A i \in 1 .. Len(sessions) : sessions'[i] = sessions[i]
        /\ sessions'[Len(sessions) + 1] = req[c]
    BY <2>1, SessionsGrow
  <2>3. \A i \in 1 .. Len(sessions) : req[c].fresh /\ sessions[i].fresh =>
           Apart(req[c], sessions[i])
    BY <2>1 DEF Launch, HoldersNew, Holding
  <2>4. ASSUME NEW i \in 1 .. Len(sessions'), NEW j \in 1 .. Len(sessions'),
               i # j, sessions'[i].fresh, sessions'[j].fresh
        PROVE  /\ sessions'[i].rollover # sessions'[j].rollover
               /\ sessions'[i].checkpoint # sessions'[j].checkpoint
    <3>1. CASE i \in 1 .. Len(sessions) /\ j \in 1 .. Len(sessions)
      BY <2>2, <2>4, <3>1 DEF OneSessionPerRollover
    <3>2. CASE i = Len(sessions) + 1 /\ j \in 1 .. Len(sessions)
      BY <2>2, <2>3, <2>4, <3>2 DEF Apart
    <3>3. CASE i \in 1 .. Len(sessions) /\ j = Len(sessions) + 1
      BY <2>2, <2>3, <2>4, <3>3 DEF Apart
    <3> QED BY <2>2, <2>4, <3>1, <3>2, <3>3
  <2> QED BY <2>4 DEF OneSessionPerRollover
<1>2. CASE sessions' = sessions
  BY <1>2 DEF OneSessionPerRollover
<1> QED BY <1>1, <1>2, ClaimSteps
        DEF Validate, Stage, ReplaceLedger, SyncLedger, PowerLoss, Killed

-----------------------------------------------------------------------------
(* The process tree and the receipt.                                       *)

\* What a call knows of its tree.
TreeKnown ==
    \A c \in Call :
       /\ pc[c] \in Claiming \cup {"new", "validated", "claimed"} =>
             child[c] = "none" /\ kid[c] = "none"
       /\ pc[c] \in {"ended", "rechecked"} =>
             child[c] = "ok" /\ cause[c] = "exit" /\ kid[c] # "doomed"
       /\ pc[c] = "rechecked" => req[c].write

\* A call that has a receipt, or has written, does nothing more.
DoneLast ==
    \A c \in Call :
       receipt[c].status # "none" \/ landed[c] # "no" => pc[c] = "done"

\* What a receipt says, but for the claim.
Fits(c, r) ==
    /\ (r.session <=> child[c] # "none")
    /\ r.status = "stopped" => ~ r.session /\ landed[c] = "no"
    /\ landed[c] # "no" => req[c].write /\ child[c] = "ok" /\ cause[c] = "exit"
    /\ r.status = "completed" => /\ child[c] = "ok" /\ ~ r.unsafe
                                 /\ landed[c] # "partly"
                                 /\ (r.wrote <=> landed[c] = "yes")

ReceiptFits ==
    \A c \in Call : receipt[c].status # "none" => Fits(c, receipt[c])

RunInv == TreeKnown /\ DoneLast /\ ReceiptFits /\ NoTrackedSurvivors

\* The tree is known to be gone before the patch is looked at.
LEMMA TreeStep ==
    ASSUME TypeOK, TreeKnown, [Next]_vars
    PROVE  TreeKnown'
<1> USE DEF TypeOK, Steps, Claiming, Running, claims, worktree, tree, Goto,
        TreeKnown
<1>1. CASE \E c \in Call, r \in Request : Validate(c, r)
  BY <1>1 DEF Validate
<1>2. CASE \E c \in Call : Stage(c)
  BY <1>2 DEF Stage
<1>3. CASE \E c \in Call : ReplaceLedger(c)
  BY <1>3 DEF ReplaceLedger
<1>4. CASE \E c \in Call : SyncLedger(c)
  BY <1>4 DEF SyncLedger
<1>5. CASE \E c \in Call : StopClaim(c)
  BY <1>5 DEF StopClaim, Return
<1>6. CASE \E c \in Call : Launch(c)
  BY <1>6 DEF Launch
<1>7. CASE \E c \in Call : SeeExit(c)
  BY <1>7 DEF SeeExit
<1>8. CASE \E c \in Call : Track(c)
  BY <1>8 DEF Track
<1>9. CASE \E c \in Call : Abort(c)
  BY <1>9 DEF Abort, Terminate, Seen
<1>10. CASE \E c \in Call : ReapLate(c)
  BY <1>10 DEF ReapLate, Terminate, Seen
<1>11. CASE \E c \in Call : Kill(c)
  BY <1>11 DEF Kill
<1>12. CASE \E c \in Call : SeeTreeGone(c)
  BY <1>12 DEF SeeTreeGone
<1>13. CASE \E c \in Call : TerminationError(c)
  BY <1>13 DEF TerminationError, Return
<1>14. CASE \E c \in Call : Reaped(c)
  BY <1>14 DEF Reaped, Over, Seen, TreeGone
<1>15. CASE \E c \in Call : Fail(c)
  BY <1>15 DEF Fail, Return, Over, Seen
<1>16. CASE \E c \in Call : Complete(c)
  BY <1>16 DEF Complete, Return
<1>17. CASE \E c \in Call : Recheck(c)
  BY <1>17 DEF Recheck
<1>18. CASE \E c \in Call : Apply(c)
  BY <1>18 DEF Apply, Return
<1>19. CASE \E c \in Call : FailPatch(c)
  BY <1>19 DEF FailPatch, Return
<1>20. CASE \E c \in Call : Exit(c)
  BY <1>20 DEF Exit
<1>21. CASE \E c \in Call : Spawn(c)
  BY <1>21 DEF Spawn
<1>22. CASE \E c \in Call : HandOver(c)
  BY <1>22 DEF HandOver
<1>23. CASE \E c \in Call : KidExit(c)
  BY <1>23 DEF KidExit
<1>24. CASE \E c \in Call : Crash(c)
  BY <1>24 DEF Crash, Killed
<1>25. CASE PowerLoss
  BY <1>25 DEF PowerLoss, Killed
<1>26. CASE Edit
  BY <1>26 DEF Edit
<1>27. CASE CommitOrRestore
  BY <1>27 DEF CommitOrRestore
<1>28. CASE UNCHANGED vars
  BY <1>28 DEF vars
<1> QED BY HandoffSteps, <1>1, <1>2, <1>3, <1>4, <1>5, <1>6, <1>7, <1>8, <1>9,
        <1>10, <1>11, <1>12, <1>13, <1>14, <1>15, <1>16, <1>17, <1>18, <1>19,
        <1>20, <1>21, <1>22, <1>23, <1>24, <1>25, <1>26, <1>27, <1>28

\* A receipt and the patch come last.
LEMMA DoneStep ==
    ASSUME TypeOK, DoneLast, [Next]_vars
    PROVE  DoneLast'
<1> USE DEF TypeOK, Steps, Claiming, Running, claims, worktree, tree, Goto,
        DoneLast
<1>1. CASE \E c \in Call, r \in Request : Validate(c, r)
  BY <1>1 DEF Validate
<1>2. CASE \E c \in Call : Stage(c)
  BY <1>2 DEF Stage
<1>3. CASE \E c \in Call : ReplaceLedger(c)
  BY <1>3 DEF ReplaceLedger
<1>4. CASE \E c \in Call : SyncLedger(c)
  BY <1>4 DEF SyncLedger
<1>5. CASE \E c \in Call : StopClaim(c)
  BY <1>5 DEF StopClaim, Return
<1>6. CASE \E c \in Call : Launch(c)
  BY <1>6 DEF Launch
<1>7. CASE \E c \in Call : SeeExit(c)
  BY <1>7 DEF SeeExit
<1>8. CASE \E c \in Call : Track(c)
  BY <1>8 DEF Track
<1>9. CASE \E c \in Call : Abort(c)
  BY <1>9 DEF Abort, Terminate, Seen
<1>10. CASE \E c \in Call : ReapLate(c)
  BY <1>10 DEF ReapLate, Terminate, Seen
<1>11. CASE \E c \in Call : Kill(c)
  BY <1>11 DEF Kill
<1>12. CASE \E c \in Call : SeeTreeGone(c)
  BY <1>12 DEF SeeTreeGone
<1>13. CASE \E c \in Call : TerminationError(c)
  BY <1>13 DEF TerminationError, Return
<1>14. CASE \E c \in Call : Reaped(c)
  BY <1>14 DEF Reaped, Over
<1>15. CASE \E c \in Call : Fail(c)
  BY <1>15 DEF Fail, Return, Over
<1>16. CASE \E c \in Call : Complete(c)
  BY <1>16 DEF Complete, Return
<1>17. CASE \E c \in Call : Recheck(c)
  BY <1>17 DEF Recheck
<1>18. CASE \E c \in Call : Apply(c)
  BY <1>18 DEF Apply, Return
<1>19. CASE \E c \in Call : FailPatch(c)
  BY <1>19 DEF FailPatch, Return
<1>20. CASE \E c \in Call : Exit(c)
  BY <1>20 DEF Exit
<1>21. CASE \E c \in Call : Spawn(c)
  BY <1>21 DEF Spawn
<1>22. CASE \E c \in Call : HandOver(c)
  BY <1>22 DEF HandOver
<1>23. CASE \E c \in Call : KidExit(c)
  BY <1>23 DEF KidExit
<1>24. CASE \E c \in Call : Crash(c)
  BY <1>24 DEF Crash, Killed
<1>25. CASE PowerLoss
  BY <1>25 DEF PowerLoss, Killed
<1>26. CASE Edit
  BY <1>26 DEF Edit
<1>27. CASE CommitOrRestore
  BY <1>27 DEF CommitOrRestore
<1>28. CASE UNCHANGED vars
  BY <1>28 DEF vars
<1> QED BY HandoffSteps, <1>1, <1>2, <1>3, <1>4, <1>5, <1>6, <1>7, <1>8, <1>9,
        <1>10, <1>11, <1>12, <1>13, <1>14, <1>15, <1>16, <1>17, <1>18, <1>19,
        <1>20, <1>21, <1>22, <1>23, <1>24, <1>25, <1>26, <1>27, <1>28

\* A receipt fits if what it says of the session and the patch is so.
LEMMA ReturnFits ==
    ASSUME TypeOK, ReceiptFits, NEW c \in Call,
           NEW status \in {"stopped", "failed", "completed"},
           NEW wrote \in BOOLEAN, NEW unsafe \in BOOLEAN,
           Return(c, status, wrote, unsafe),
           UNCHANGED <<req, child, cause>>,
           landed' \in [Call -> {"no", "partly", "yes"}],
           \A d \in Call : d # c => landed'[d] = landed[d],
           status = "stopped" => child[c] = "none" /\ landed'[c] = "no",
           landed'[c] # "no" => /\ req[c].write
                                /\ child[c] = "ok" /\ cause[c] = "exit",
           status = "completed" => /\ child[c] = "ok" /\ ~ unsafe
                                   /\ landed'[c] # "partly"
                                   /\ (wrote <=> landed'[c] = "yes")
    PROVE  ReceiptFits'
<1>1. \A d \in Call : d # c => receipt'[d] = receipt[d]
  BY DEF Return, TypeOK
<1>2. /\ receipt'[c].status = status
      /\ receipt'[c].session = (child[c] # "none")
      /\ receipt'[c].wrote = wrote /\ receipt'[c].unsafe = unsafe
  BY DEF Return, TypeOK
<1>3. ASSUME NEW d \in Call, d # c, receipt'[d].status # "none"
      PROVE  Fits(d, receipt[d])'
  BY <1>1, <1>3 DEF ReceiptFits, Fits
<1>4. Fits(c, receipt[c])'
  BY <1>2 DEF Fits
<1> QED BY <1>3, <1>4 DEF ReceiptFits

\* Every return writes a receipt that fits.
LEMMA ReturnsStep ==
    ASSUME TypeOK, TreeKnown, DoneLast, ReceiptFits, NEW c \in Call,
           \/ StopClaim(c) \/ TerminationError(c) \/ Fail(c)
           \/ Complete(c) \/ Apply(c) \/ FailPatch(c)
    PROVE  ReceiptFits'
<1>0. landed \in [Call -> {"no", "partly", "yes"}]
  BY DEF TypeOK
<1>1. CASE StopClaim(c)
  <2>1. Return(c, "stopped", FALSE, FALSE) /\ UNCHANGED <<req, child, cause>>
    BY <1>1 DEF StopClaim
  <2>2. /\ child[c] = "none" /\ landed[c] = "no" /\ landed' = landed
    BY <1>1 DEF StopClaim, TypeOK, TreeKnown, DoneLast, Claiming, Running, Over
  <2> QED BY <1>0, <2>1, <2>2, ReturnFits
<1>2. CASE TerminationError(c)
  <2>1. Return(c, "failed", FALSE, TRUE) /\ UNCHANGED <<req, child, cause>>
    BY <1>2 DEF TerminationError
  <2>2. /\ landed[c] = "no" /\ landed' = landed
    BY <1>2 DEF TerminationError, TypeOK, TreeKnown, DoneLast, Claiming, Running, Over
  <2> QED BY <1>0, <2>1, <2>2, ReturnFits
<1>3. CASE Fail(c)
  <2>1. /\ \E u \in BOOLEAN : Return(c, "failed", FALSE, u)
        /\ UNCHANGED <<req, child, cause>>
    BY <1>3 DEF Fail
  <2>2. /\ landed[c] = "no" /\ landed' = landed
    BY <1>3 DEF Fail, TypeOK, TreeKnown, DoneLast, Claiming, Running, Over
  <2> QED BY <1>0, <2>1, <2>2, ReturnFits
<1>4. CASE Complete(c)
  <2>1. Return(c, "completed", FALSE, FALSE) /\ UNCHANGED <<req, child, cause>>
    BY <1>4 DEF Complete
  <2>2. /\ child[c] = "ok" /\ landed[c] = "no" /\ landed' = landed
    BY <1>4 DEF Complete, TypeOK, TreeKnown, DoneLast, Claiming, Running, Over
  <2> QED BY <1>0, <2>1, <2>2, ReturnFits
<1>5. CASE Apply(c)
  <2>1. Return(c, "completed", TRUE, FALSE) /\ UNCHANGED <<req, child, cause>>
    BY <1>5 DEF Apply
  <2>2. /\ req[c].write /\ child[c] = "ok" /\ cause[c] = "exit"
        /\ landed' = [landed EXCEPT ![c] = "yes"]
    BY <1>5 DEF Apply, TypeOK, TreeKnown, DoneLast, Claiming, Running, Over
  <2> QED BY <1>0, <2>1, <2>2, ReturnFits
<1>6. CASE FailPatch(c)
  <2>1. Return(c, "failed", FALSE, FALSE) /\ UNCHANGED <<req, child, cause>>
    BY <1>6 DEF FailPatch
  <2>2. /\ req[c].write /\ child[c] = "ok" /\ cause[c] = "exit"
        /\ landed' \in {landed, [landed EXCEPT ![c] = "partly"],
                        [landed EXCEPT ![c] = "yes"]}
    BY SMTT(40), <1>6
    DEF FailPatch, TypeOK, TreeKnown, DoneLast, Claiming, Running, Over
  <2> QED BY <1>0, <2>1, <2>2, ReturnFits
<1> QED BY <1>1, <1>2, <1>3, <1>4, <1>5, <1>6

\* A receipt says what there is when the call returns.
LEMMA FitsStep ==
    ASSUME TypeOK, TreeKnown, DoneLast, ReceiptFits, [Next]_vars
    PROVE  ReceiptFits'
<1>0. CASE \E c \in Call : \/ StopClaim(c) \/ TerminationError(c) \/ Fail(c)
                          \/ Complete(c) \/ Apply(c) \/ FailPatch(c)
  BY <1>0, ReturnsStep
<1> USE DEF TypeOK, Steps, Claiming, Running, claims, worktree, tree, Goto,
        DoneLast, ReceiptFits, Fits
<1>1. CASE \E c \in Call, r \in Request : Validate(c, r)
  BY <1>1 DEF Validate
<1>2. CASE \E c \in Call : Stage(c)
  BY <1>2 DEF Stage
<1>3. CASE \E c \in Call : ReplaceLedger(c)
  BY <1>3 DEF ReplaceLedger
<1>4. CASE \E c \in Call : SyncLedger(c)
  BY <1>4 DEF SyncLedger
<1>5. CASE \E c \in Call : Launch(c)
  BY <1>5 DEF Launch
<1>6. CASE \E c \in Call : SeeExit(c)
  BY <1>6 DEF SeeExit
<1>7. CASE \E c \in Call : Track(c)
  BY <1>7 DEF Track
<1>8. CASE \E c \in Call : Abort(c)
  BY <1>8 DEF Abort, Terminate, Seen
<1>9. CASE \E c \in Call : ReapLate(c)
  BY <1>9 DEF ReapLate, Terminate, Seen
<1>10. CASE \E c \in Call : Kill(c)
  BY <1>10 DEF Kill
<1>11. CASE \E c \in Call : SeeTreeGone(c)
  BY <1>11 DEF SeeTreeGone
<1>12. CASE \E c \in Call : Reaped(c)
  BY <1>12 DEF Reaped, Over
<1>13. CASE \E c \in Call : Recheck(c)
  BY <1>13 DEF Recheck
<1>14. CASE \E c \in Call : Exit(c)
  BY <1>14 DEF Exit
<1>15. CASE \E c \in Call : Spawn(c)
  BY <1>15 DEF Spawn
<1>16. CASE \E c \in Call : HandOver(c)
  BY <1>16 DEF HandOver
<1>17. CASE \E c \in Call : KidExit(c)
  BY <1>17 DEF KidExit
<1>18. CASE \E c \in Call : Crash(c)
  BY <1>18 DEF Crash, Killed
<1>19. CASE PowerLoss
  BY <1>19 DEF PowerLoss, Killed
<1>20. CASE Edit
  BY <1>20 DEF Edit
<1>21. CASE CommitOrRestore
  BY <1>21 DEF CommitOrRestore
<1>22. CASE UNCHANGED vars
  BY <1>22 DEF vars
<1> QED BY HandoffSteps, <1>0, <1>1, <1>2, <1>3, <1>4, <1>5, <1>6, <1>7, <1>8, <1>9,
        <1>10, <1>11, <1>12, <1>13, <1>14, <1>15, <1>16, <1>17, <1>18, <1>19,
        <1>20, <1>21, <1>22

\* A call returns when its tree is gone, or warns.
LEMMA SurvivorsStep ==
    ASSUME TypeOK, TreeKnown, DoneLast, NoTrackedSurvivors, [Next]_vars
    PROVE  NoTrackedSurvivors'
<1> USE DEF TypeOK, Steps, Claiming, Running, claims, worktree, tree, Goto,
        DoneLast, NoTrackedSurvivors
<1>1. CASE \E c \in Call, r \in Request : Validate(c, r)
  BY <1>1 DEF Validate
<1>2. CASE \E c \in Call : Stage(c)
  BY <1>2 DEF Stage
<1>3. CASE \E c \in Call : ReplaceLedger(c)
  BY <1>3 DEF ReplaceLedger
<1>4. CASE \E c \in Call : SyncLedger(c)
  BY <1>4 DEF SyncLedger
<1>5. CASE \E c \in Call : StopClaim(c)
  BY <1>5 DEF StopClaim, Return, TreeKnown
<1>6. CASE \E c \in Call : Launch(c)
  BY <1>6 DEF Launch
<1>7. CASE \E c \in Call : SeeExit(c)
  BY <1>7 DEF SeeExit
<1>8. CASE \E c \in Call : Track(c)
  BY <1>8 DEF Track
<1>9. CASE \E c \in Call : Abort(c)
  BY <1>9 DEF Abort, Terminate, Seen
<1>10. CASE \E c \in Call : ReapLate(c)
  BY <1>10 DEF ReapLate, Terminate, Seen
<1>11. CASE \E c \in Call : Kill(c)
  BY <1>11 DEF Kill
<1>12. CASE \E c \in Call : SeeTreeGone(c)
  BY <1>12 DEF SeeTreeGone
<1>13. CASE \E c \in Call : TerminationError(c)
  BY <1>13 DEF TerminationError, Return
<1>14. CASE \E c \in Call : Reaped(c)
  BY <1>14 DEF Reaped, Over
<1>15. CASE \E c \in Call : Fail(c)
  BY <1>15 DEF Fail, Return, Over, TreeKnown, Seen, TreeGone
<1>16. CASE \E c \in Call : Complete(c)
  BY <1>16 DEF Complete, Return, TreeKnown
<1>17. CASE \E c \in Call : Recheck(c)
  BY <1>17 DEF Recheck
<1>18. CASE \E c \in Call : Apply(c)
  BY <1>18 DEF Apply, Return, TreeKnown
<1>19. CASE \E c \in Call : FailPatch(c)
  BY <1>19 DEF FailPatch, Return, TreeKnown
<1>20. CASE \E c \in Call : Exit(c)
  BY <1>20 DEF Exit
<1>21. CASE \E c \in Call : Spawn(c)
  BY <1>21 DEF Spawn
<1>22. CASE \E c \in Call : HandOver(c)
  BY <1>22 DEF HandOver
<1>23. CASE \E c \in Call : KidExit(c)
  BY <1>23 DEF KidExit
<1>24. CASE \E c \in Call : Crash(c)
  BY <1>24 DEF Crash, Killed
<1>25. CASE PowerLoss
  BY <1>25 DEF PowerLoss, Killed
<1>26. CASE Edit
  BY <1>26 DEF Edit
<1>27. CASE CommitOrRestore
  BY <1>27 DEF CommitOrRestore
<1>28. CASE UNCHANGED vars
  BY <1>28 DEF vars
<1> QED BY HandoffSteps, <1>1, <1>2, <1>3, <1>4, <1>5, <1>6, <1>7, <1>8, <1>9,
        <1>10, <1>11, <1>12, <1>13, <1>14, <1>15, <1>16, <1>17, <1>18, <1>19,
        <1>20, <1>21, <1>22, <1>23, <1>24, <1>25, <1>26, <1>27, <1>28

-----------------------------------------------------------------------------
(* The theorems.                                                           *)

LEMMA HandoffInit == Init => ClaimInv /\ RunInv
<1> SUFFICES ASSUME Init PROVE ClaimInv /\ RunInv
  OBVIOUS
<1>0. Len(ledger) = 0 /\ Len(sessions) = 0
  BY EmptySeq DEF Init
<1>1. TypeOK
  <2>1. ledger \in Seq(Claim) /\ sessions \in Seq(Request) /\ synced \in 0 .. Len(ledger)
    BY <1>0, EmptySeq DEF Init
  <2>2. receipt \in [Call -> Receipt]
    BY DEF Init, Receipt, NoReceipt
  <2> QED BY <2>1, <2>2 DEF Init, TypeOK, Steps, Claiming, Running
<1>2. OneClaims /\ StagedIsNew /\ ReplacedIsWritten
  BY DEF Init, OneClaims, StagedIsNew, ReplacedIsWritten, Claiming
<1>3. ClaimsRecorded
  BY DEF Init, ClaimsRecorded, Later, Running, NoReceipt
<1>4. SessionsRecorded /\ HoldersApart /\ HoldersNew /\ OneSessionPerRollover
  <2>1. 1 .. Len(sessions) = {}
    BY <1>0
  <2>2. \A c \in Call : pc[c] \notin Holding
    BY DEF Init, Holding
  <2>3. SessionsRecorded /\ OneSessionPerRollover
    BY <2>1 DEF SessionsRecorded, OneSessionPerRollover
  <2>4. HoldersNew
    BY <2>1 DEF HoldersNew
  <2>5. HoldersApart
    BY <2>2 DEF HoldersApart
  <2> QED BY <2>3, <2>4, <2>5
<1>5. TreeKnown /\ DoneLast /\ ReceiptFits /\ NoTrackedSurvivors
  BY DEF Init, TreeKnown, DoneLast, ReceiptFits, NoTrackedSurvivors, NoReceipt
<1> QED BY <1>1, <1>2, <1>3, <1>4, <1>5 DEF ClaimInv, RunInv

LEMMA HandoffStep ==
    ClaimInv /\ RunInv /\ [Next]_vars => (ClaimInv /\ RunInv)'
<1> SUFFICES ASSUME ClaimInv, RunInv, [Next]_vars PROVE (ClaimInv /\ RunInv)'
  OBVIOUS
<1> USE DEF ClaimInv, RunInv
<1>1. TypeOK' /\ OneClaims' /\ StagedIsNew' /\ ReplacedIsWritten'
  BY TypeStep, OneClaimsStep, StagedStep, WrittenStep
<1>2. ClaimsRecorded' /\ SessionsRecorded'
  BY RecordedStep, SessionsStep
<1>3. HoldersApart' /\ HoldersNew' /\ OneSessionPerRollover'
  BY ApartStep, NewStep, OneSessionStep
<1>4. TreeKnown' /\ DoneLast' /\ ReceiptFits' /\ NoTrackedSurvivors'
  BY TreeStep, DoneStep, FitsStep, SurvivorsStep
<1> QED BY <1>1, <1>2, <1>3, <1>4

LEMMA HandoffInvariants == Spec => [](ClaimInv /\ RunInv)
BY HandoffInit, HandoffStep, PTL DEF Spec

\* Types.
THEOREM HandoffTypeCorrect == Spec => []TypeOK
<1>1. ClaimInv /\ RunInv => TypeOK
  BY DEF ClaimInv
<1> QED BY HandoffInvariants, <1>1, PTL

\* However many executors there are, and whatever kills them, no rollover and
\* no checkpoint is run twice.
THEOREM RolloversRunOnce == Spec => []OneSessionPerRollover
<1>1. ClaimInv /\ RunInv => OneSessionPerRollover
  BY DEF ClaimInv
<1> QED BY HandoffInvariants, <1>1, PTL

\* Every receipt says what happened.
THEOREM ReceiptsAlwaysTruthful == Spec => []ReceiptsTruthful
<1>1. ClaimInv /\ RunInv => ReceiptsTruthful
  <2> SUFFICES ASSUME ClaimInv, RunInv, NEW c \in Call,
                      receipt[c].status # "none"
               PROVE  /\ Fits(c, receipt[c])
                      /\ receipt[c].claimed => Recorded(req[c])
    BY DEF ReceiptsTruthful, Fits, Recorded, Names
  <2> QED BY DEF ClaimInv, RunInv, ReceiptFits, ClaimsRecorded
<1> QED BY HandoffInvariants, <1>1, PTL

\* No call returns with a live child or a descendant it was about to end,
\* without a warning.
THEOREM NoSurvivors == Spec => []NoTrackedSurvivors
<1>1. ClaimInv /\ RunInv => NoTrackedSurvivors
  BY DEF RunInv
<1> QED BY HandoffInvariants, <1>1, PTL

-----------------------------------------------------------------------------
(* Every call ends.                                                        *)

\* How many steps of its own a call is from its end at most.
StepsLeft == [new |-> 11, validated |-> 10, staged |-> 9, replaced |-> 8,
              claimed |-> 7, running |-> 6, termed |-> 5, reaping |-> 4,
              retermed |-> 3, ended |-> 2, rechecked |-> 1, done |-> 0]

\* Each step of the executor brings its call closer to the end; the session,
\* its descendants, the signals sent to them and other calls never set it back.
Approaches ==
    \A c \in Call :
       \/ pc'[c] = pc[c] /\ ~ Execute(c)
       \/ StepsLeft[pc'[c]] < StepsLeft[pc[c]]

LEMMA ExecuteApproaches ==
    ASSUME TypeOK, NEW c \in Call, Execute(c)
    PROVE  /\ \A d \in Call \ {c} : pc'[d] = pc[d]
           /\ StepsLeft[pc'[c]] < StepsLeft[pc[c]]
<1>1. \A d \in Call \ {c} : pc'[d] = pc[d]
  BY DEF TypeOK, Execute, Stage, ReplaceLedger, SyncLedger, StopClaim, Launch,
         SeeExit, Abort, SeeTreeGone, ReapLate, TerminationError, Reaped, Fail,
         Complete, Recheck, Apply, FailPatch, Return, Terminate, Goto
<1>2. \/ pc[c] = "validated" /\ pc'[c] \in {"staged", "done"}
      \/ pc[c] = "staged" /\ pc'[c] \in {"replaced", "done"}
      \/ pc[c] = "replaced" /\ pc'[c] \in {"claimed", "done"}
      \/ pc[c] = "claimed" /\ pc'[c] \in {"running", "done"}
      \/ pc[c] = "running" /\ pc'[c] \in {"reaping", "termed"}
      \/ pc[c] = "termed" /\ pc'[c] \in {"reaping", "done"}
      \/ pc[c] = "reaping" /\ pc'[c] \in {"retermed", "ended", "done"}
      \/ pc[c] = "retermed" /\ pc'[c] \in {"ended", "done"}
      \/ pc[c] = "ended" /\ pc'[c] \in {"rechecked", "done"}
      \/ pc[c] = "rechecked" /\ pc'[c] = "done"
  BY DEF TypeOK, Execute, Stage, ReplaceLedger, SyncLedger, StopClaim, Launch,
         SeeExit, Abort, SeeTreeGone, ReapLate, TerminationError, Reaped, Fail,
         Complete, Recheck, Apply, FailPatch, Return, Terminate, Goto, Over,
         Claiming, Running
<1> QED BY <1>1, <1>2 DEF StepsLeft

LEMMA ApproachesStep ==
    ASSUME TypeOK, [Next]_vars PROVE [Approaches]_vars
<1> SUFFICES ASSUME NEW c \in Call
             PROVE  \/ pc'[c] = pc[c] /\ ~ Execute(c)
                    \/ StepsLeft[pc'[c]] < StepsLeft[pc[c]]
  BY DEF Approaches
<1>1. CASE Execute(c)
  BY <1>1, ExecuteApproaches
<1>2. CASE ~ Execute(c)
  <2>1. CASE \E d \in Call : Execute(d)
    BY <1>2, <2>1, ExecuteApproaches
  <2>2. CASE \E d \in Call, r \in Request : Validate(d, r)
    <3>1. PICK d \in Call, r \in Request : Validate(d, r)
      BY <2>2
    <3>2. CASE c = d
      BY <3>1, <3>2 DEF TypeOK, Validate, Goto, StepsLeft
    <3>3. CASE c # d
      BY <1>2, <3>1, <3>3 DEF TypeOK, Validate, Goto
    <3> QED BY <3>2, <3>3
  <2>3. CASE (\E d \in Call : Crash(d)) \/ PowerLoss
    <3>1. pc'[c] = pc[c] \/ (pc[c] \in Steps /\ pc'[c] = "done")
      BY <2>3 DEF TypeOK, Crash, PowerLoss, Killed
    <3> QED BY <1>2, <3>1 DEF StepsLeft, Steps, Claiming, Running
  <2>4. CASE UNCHANGED pc
    BY <1>2, <2>4
  <2> QED BY <2>1, <2>2, <2>3, <2>4
          DEF Next, Kill, Track, Exit, Spawn, HandOver, KidExit, Edit,
              CommitOrRestore, vars
<1> QED BY <1>1, <1>2

\* What the end of every call rests on: no path through execute_handoff and
\* _run_codex repeats itself, whatever the session and its descendants do and
\* however they take the signals.  That an executor can always take its next
\* step is left to the run.
THEOREM HandoffsApproachTheEnd == Spec => [][Approaches]_vars
BY ApproachesStep, HandoffTypeCorrect, PTL DEF Spec

=============================================================================
