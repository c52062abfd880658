------------------------------ MODULE LoopCore ------------------------------
(***************************************************************************)
(* The reducer of the loop ledger: what one event does to the state        *)
(* (loop_core._apply_event), the rules every new event must satisfy, and    *)
(* the audit of the resulting view (loop_yaml.validate_ledger).  There are *)
(* no variables here: a ledger state is a record, an event is a record,     *)
(*   Accepts(s, e)          the durable rules, the ones replay applies too, *)
(*   LiveRules(s, e, g, n)  what a live write adds: trusted time n and      *)
(*                          whether the control plane granted the action,   *)
(*   Effect(s, e)           the state after the event.                      *)
(* Hash chain, event ids and idempotency keys are the subject of            *)
(* LedgerWrite; here an event names its sequence number only.  Free text    *)
(* (reasons, artifact names, digests) is reduced to the set of facts that   *)
(* the event's evidence, blocker and human_gate fields establish.           *)
(***************************************************************************)
EXTENDS Integers, FiniteSets

CONSTANTS
    Task,         \* task ids of the manifest
    Agent,        \* actors and principals
    Nobody,       \* stands for an absent owner or principal
    Gate,         \* names of human gates
    NoGate,       \* the task requires no gate
    Deps,         \* task -> the tasks it depends on
    NeedsReview,  \* tasks whose manifest entry requires a review
    GateOf,       \* task -> required gate or NoGate
    Start,        \* task -> initial_status
    Role          \* agent -> principal type

Status == {"planned", "ready", "in_progress", "blocked",
           "reviewing", "done", "accepted", "cancelled"}
ClaimStatus == {"none", "active", "released", "expired", "revoked"}
GateStatus == {"absent", "not_required", "pending", "satisfied", "blocked"}
RoleName == {"user", "platform", "coordinator", "worker"}

\* What evidence, blocker and human_gate of a payload can establish.
\* "verified" is verification passed, "unverified" a run that did not pass.
Fact == {"artifact", "verified", "unverified", "reviewed", "review_waived",
         "acceptance", "gate_clear", "blocker", "blocker_resolved", "reopen"}

\* The checks of manifest_definitions (a dependency cycle only makes tasks
\* that can never become ready, so acyclicity is not assumed).
ManifestAssumption ==
    /\ Deps \in [Task -> SUBSET Task]
    /\ NeedsReview \subseteq Task
    /\ NoGate \notin Gate
    /\ GateOf \in [Task -> Gate \cup {NoGate}]
    /\ Start \in [Task -> {"planned", "ready", "cancelled"}]
    /\ \A t \in Task : Start[t] = "ready" => Deps[t] = {}
    /\ Nobody \notin Agent
    /\ Role \in [Agent -> RoleName]

ASSUME ManifestAssumption

-----------------------------------------------------------------------------
(* States and events.                                                      *)

\* The fencing token (generation, nonce) is its generation: nonces are fresh,
\* and one generation of a task is acquired at most once.
Claim == [status : ClaimStatus, owner : Agent \cup {Nobody}, gen : Nat,
          lease : Nat, head : Nat]

NoClaim == [status |-> "none", owner |-> Nobody, gen |-> 0, lease |-> 0,
            head |-> 0]

LedgerState == [status : [Task -> Status],
                evidence : [Task -> SUBSET Fact],
                claims : [Task -> Claim],
                gates : [Gate -> GateStatus],
                objective : {"active", "complete"},
                head : Nat,          \* source_revision.head_sha
                revision : Nat,
                updatedAt : Nat]     \* occurred_at of the last event

\* The state replay_ledger starts from.
ManifestState(head) ==
    [status |-> Start,
     evidence |-> [t \in Task |-> {}],
     claims |-> [t \in Task |-> NoClaim],
     gates |-> [g \in Gate |-> "absent"],
     objective |-> "active",
     head |-> head,
     revision |-> 0,
     updatedAt |-> 0]

\* "by" is the principal of the bound authorization, Nobody if there is none.
TransitionEvent ==
    [type : {"task_transition"}, seq : Nat, at : Nat, actor : Agent,
     by : Agent \cup {Nobody}, task : Task, token : Nat, target : Status,
     facts : SUBSET Fact]
AcquireEvent ==
    [type : {"claim_acquired"}, seq : Nat, at : Nat, actor : Agent,
     by : Agent \cup {Nobody}, task : Task, token : Nat, claimedAt : Nat,
     lease : Nat]
CloseEvent ==
    [type : {"claim_released", "claim_expired", "claim_revoked"}, seq : Nat,
     at : Nat, actor : Agent, by : Agent \cup {Nobody}, task : Task,
     token : Nat]
GateEvent ==
    [type : {"gate_updated"}, seq : Nat, at : Nat, actor : Agent,
     by : Agent \cup {Nobody}, gate : Gate, to : GateStatus \ {"absent"}]
ReboundEvent ==
    [type : {"source_rebound"}, seq : Nat, at : Nat, actor : Agent,
     by : Agent \cup {Nobody}, from : Nat, target : Nat,
     rebind : SUBSET Task, lapsed : SUBSET Task]
CompleteEvent ==
    [type : {"objective_completed"}, seq : Nat, at : Nat, actor : Agent,
     by : Agent \cup {Nobody}]
Event == TransitionEvent \cup AcquireEvent \cup CloseEvent \cup GateEvent
           \cup ReboundEvent \cup CompleteEvent

Active(s) == {t \in Task : s.claims[t].status = "active"}
LapsedAt(s, time) == {t \in Active(s) : s.claims[t].lease =< time}

DepsMet(s, t) == \A d \in Deps[t] : s.status[d] \in {"done", "accepted"}

-----------------------------------------------------------------------------
(* Authority.                                                              *)

\* The principal must have an allowed type; acceptance, revocation, gates
\* and completion also require it to be the actor.
Authorised(e, roles, self) ==
    /\ e.by # Nobody
    /\ Role[e.by] \in roles
    /\ self => e.by = e.actor

\* Events that need live authority from the control plane.
Protected(e) ==
    \/ e.type \in {"source_rebound", "claim_revoked", "objective_completed"}
    \/ e.type = "gate_updated" /\ e.to \in {"not_required", "satisfied"}
    \/ /\ e.type = "task_transition"
       /\ e.target = "accepted" \/ (e.target = "done" /\ "reviewed" \in e.facts)

\* The control plane grants exactly the protected action, and nothing to an
\* unprotected event.
LiveAuthority(e, granted) == granted <=> Protected(e)

-----------------------------------------------------------------------------
(* The rules of each event type.                                           *)

\* Checked before the event's type is looked at.  (Definitions named Faulty...
\* carry a planted bug; they are not part of the model, they exist to show
\* that a property notices the bug.)
InSequence(s, e) ==
    /\ s.objective # "complete"
    /\ e.seq = s.revision + 1
    /\ e.at >= s.updatedAt

LegalTransitions ==
    [planned     |-> {"ready", "blocked", "cancelled"},
     ready       |-> {"in_progress", "blocked", "cancelled"},
     in_progress |-> {"ready", "reviewing", "blocked"},
     blocked     |-> {"planned", "ready", "cancelled"},
     reviewing   |-> {"in_progress", "done", "blocked"},
     done        |-> {"accepted", "ready"},
     accepted    |-> {},
     cancelled   |-> {}]

\* A required gate is read from the gate state and any assertion of the
\* payload is overwritten; without one the payload has to assert it.
GateCleared(s, t, facts) ==
    IF GateOf[t] = NoGate THEN "gate_clear" \in facts
                          ELSE s.gates[GateOf[t]] = "satisfied"

\* What the target status demands of the evidence (validate_transition).
Evidenced(s, t, target, facts) ==
    /\ target = "ready" => DepsMet(s, t)
    /\ target = "in_progress" => t \in Active(s)
    /\ target = "reviewing" =>
         "artifact" \in facts /\ facts \cap {"verified", "unverified"} # {}
    /\ target = "blocked" => "blocker" \in facts
    /\ target = "done" =>
         /\ "verified" \in facts
         /\ facts \cap {"reviewed", "review_waived"} # {}
         /\ t \in NeedsReview => "reviewed" \in facts
         /\ GateCleared(s, t, facts)
    /\ target = "accepted" => "acceptance" \in facts /\ t \notin Active(s)
    /\ s.status[t] = "blocked" /\ target # "cancelled" =>
         "blocker_resolved" \in facts
    /\ s.status[t] = "done" /\ target = "ready" => "reopen" \in facts

FaultyFenced(s, e) ==
    LET c == s.claims[e.task] IN
    IF c.status = "active"
      THEN e.at < c.lease
      ELSE s.status[e.task] \notin {"in_progress", "reviewing"}

\* Who may move the task: the owner of the active claim, with the current
\* token, before the lease ends; work in flight cannot move without a claim.
Fenced(s, e) ==
    LET c == s.claims[e.task] IN
    IF c.status = "active"
      THEN e.actor = c.owner /\ e.token = c.gen /\ e.at < c.lease
      ELSE s.status[e.task] \notin {"in_progress", "reviewing"}

TransitionRules(s, e) ==
    /\ Fenced(s, e)
    /\ e.target \in LegalTransitions[s.status[e.task]]
    /\ Evidenced(s, e.task, e.target, e.facts)
    /\ e.target = "done" /\ "reviewed" \in e.facts =>
         Authorised(e, {"user", "platform"}, FALSE)
    /\ e.target = "accepted" => Authorised(e, {"user", "platform"}, TRUE)

FaultyAcquireRules(s, e) ==
    /\ s.status[e.task] = "ready"
    /\ e.token >= 1
    /\ e.lease > e.claimedAt
    /\ e.lease > e.at
    /\ e.task \notin Active(s)

AcquireRules(s, e) ==
    /\ s.status[e.task] = "ready"
    /\ e.token >= 1
    /\ e.lease > e.claimedAt
    /\ e.lease > e.at
    /\ e.task \notin Active(s)
    /\ e.token > s.claims[e.task].gen

FaultyCloseRules(s, e) ==
    LET c == s.claims[e.task] IN
    /\ c.status = "active"
    /\ e.token = c.gen
    /\ e.type = "claim_released" =>
         /\ e.actor = c.owner
         /\ s.status[e.task] \notin {"in_progress", "reviewing"}
    /\ e.type = "claim_revoked" =>
         Authorised(e, {"user", "coordinator"}, TRUE)

\* Expiry and revocation carry blocker evidence; a release needs none.
CloseRules(s, e) ==
    LET c == s.claims[e.task] IN
    /\ c.status = "active"
    /\ e.token = c.gen
    /\ e.type = "claim_released" =>
         /\ e.actor = c.owner
         /\ s.status[e.task] \notin {"in_progress", "reviewing"}
    /\ e.type = "claim_expired" => e.at >= c.lease
    /\ e.type = "claim_revoked" =>
         Authorised(e, {"user", "coordinator"}, TRUE)

\* Every active claim is either rebound or, if its lease has ended by the
\* event's time, disposed of (with its current token); nothing is left out.
ReboundRules(s, e) ==
    /\ e.from = s.head
    /\ e.target # s.head
    /\ Authorised(e, {"user", "platform"}, FALSE)
    /\ e.lapsed = LapsedAt(s, e.at)
    /\ e.rebind = Active(s) \ e.lapsed

GateRules(s, e) ==
    Protected(e) => Authorised(e, {"user", "platform"}, TRUE)

FaultyCompleteRules(s, e) ==
    /\ \A t \in Task : s.status[t] \in {"done", "accepted", "cancelled"}
    /\ Authorised(e, {"user", "platform"}, TRUE)

\* Gates are not consulted: the payload's human_gate is part of what the
\* principal signs.
CompleteRules(s, e) ==
    /\ \A t \in Task : s.status[t] \in {"done", "accepted", "cancelled"}
    /\ Active(s) = {}
    /\ Authorised(e, {"user", "platform"}, TRUE)

-----------------------------------------------------------------------------
(* Effects.                                                                *)

AuditedFact == {"verified", "reviewed", "review_waived", "acceptance"}

\* Evidence is replaced whole when the payload carries an evidence object.
Transitioned(s, e) ==
    [s EXCEPT
       !.status[e.task] = e.target,
       !.evidence[e.task] =
          IF e.facts \subseteq {"blocker", "gate_clear"} THEN @
                                                        ELSE e.facts \cap AuditedFact]

Acquired(s, e) ==
    [s EXCEPT !.claims[e.task] =
       [status |-> "active", owner |-> e.actor, gen |-> e.token,
        lease |-> e.lease, head |-> s.head]]

ClosedAs == [claim_released |-> "released", claim_expired |-> "expired",
             claim_revoked |-> "revoked"]

FaultyClosed(s, e) ==
    [s EXCEPT !.claims[e.task].status = ClosedAs[e.type]]

\* Expiry and revocation block the task whatever its status, done included.
Closed(s, e) ==
    [s EXCEPT
       !.claims[e.task] = [@ EXCEPT !.status = ClosedAs[e.type]],
       !.status[e.task] = IF e.type = "claim_released" THEN @ ELSE "blocked"]

FaultyRebound(s, e) ==
    [s EXCEPT !.head = e.target,
              !.claims = [t \in Task |->
                 IF t \in e.lapsed THEN [@[t] EXCEPT !.status = "expired"]
                                   ELSE @[t]]]

\* The new head reaches every recorded claim, closed ones too.
Rebound(s, e) ==
    LET finished == {t \in Task : s.status[t] \in {"done", "accepted", "cancelled"}} IN
    [s EXCEPT
       !.head = e.target,
       !.claims = [t \in Task |->
          LET c == s.claims[t] IN
          IF c.status = "none" THEN c
          ELSE [c EXCEPT !.head = e.target,
                         !.status = IF t \notin e.lapsed THEN @
                                    ELSE IF t \in finished THEN "released"
                                    ELSE "expired"]],
       !.status = [t \in Task |->
          IF t \in e.lapsed \ finished THEN "blocked" ELSE s.status[t]]]

FaultyGateUpdated(s, e) ==
    [s EXCEPT !.gates[e.gate] = IF @ = "satisfied" THEN @ ELSE e.to]

\* An approval may be taken back.
GateUpdated(s, e) == [s EXCEPT !.gates[e.gate] = e.to]

Effect(s, e) ==
    LET r == CASE e.type = "task_transition" -> Transitioned(s, e)
               [] e.type = "claim_acquired" -> Acquired(s, e)
               [] e.type \in DOMAIN ClosedAs -> Closed(s, e)
               [] e.type = "gate_updated" -> GateUpdated(s, e)
               [] e.type = "source_rebound" -> Rebound(s, e)
               [] e.type = "objective_completed" -> [s EXCEPT !.objective = "complete"]
    IN [r EXCEPT !.revision = s.revision + 1, !.updatedAt = e.at]

-----------------------------------------------------------------------------
(* The audit of a materialized ledger, and what makes an event acceptable. *)

FaultyAuditTask(s, t) ==
    /\ s.status[t] \in {"done", "accepted"} =>
         /\ "verified" \in s.evidence[t]
         /\ s.evidence[t] \cap {"reviewed", "review_waived"} # {}
    /\ s.status[t] = "accepted" => "acceptance" \in s.evidence[t]
    /\ s.status[t] = "in_progress" => t \in Active(s)

AuditTask(s, t) ==
    /\ s.status[t] \in {"done", "accepted"} =>
         /\ "verified" \in s.evidence[t]
         /\ s.evidence[t] \cap {"reviewed", "review_waived"} # {}
    /\ s.status[t] = "accepted" => "acceptance" \in s.evidence[t]
    /\ s.status[t] = "in_progress" => t \in Active(s)
    /\ s.status[t] \in {"planned", "accepted", "cancelled"} => t \notin Active(s)

AuditClaim(s, t) ==
    LET c == s.claims[t] IN
    /\ c.status # "none" => c.gen >= 1 /\ c.head = s.head
    /\ c.status = "active" => c.lease > s.updatedAt

Audit(s) == \A t \in Task : AuditTask(s, t) /\ AuditClaim(s, t)

\* The rules a replay of the history applies (enforce_live_authority off).
Accepts(s, e) ==
    /\ InSequence(s, e)
    /\ \/ e.type = "task_transition" /\ TransitionRules(s, e)
       \/ e.type = "claim_acquired" /\ AcquireRules(s, e)
       \/ e.type \in DOMAIN ClosedAs /\ CloseRules(s, e)
       \/ e.type = "gate_updated" /\ GateRules(s, e)
       \/ e.type = "source_rebound" /\ ReboundRules(s, e)
       \/ e.type = "objective_completed" /\ CompleteRules(s, e)

FaultyLiveRules(s, e, granted, now) ==
    /\ LiveAuthority(e, granted)
    /\ e.type = "task_transition" /\ e.task \in Active(s) => e.at =< now
    /\ e.type = "claim_acquired" =>
         e.claimedAt =< e.at /\ e.at =< now /\ now < e.lease
    /\ e.type = "claim_expired" => e.at =< now
    /\ e.type = "source_rebound" =>
         e.at =< now /\ LapsedAt(s, now) = LapsedAt(s, e.at)

\* What a live write checks on top, against trusted time now.  Releases,
\* revocations, gate updates, completion and transitions of unclaimed tasks
\* are not compared with the clock.
LiveRules(s, e, granted, now) ==
    /\ LiveAuthority(e, granted)
    /\ e.type = "task_transition" /\ e.task \in Active(s) =>
         e.at =< now /\ now < s.claims[e.task].lease
    /\ e.type = "claim_acquired" =>
         e.claimedAt =< e.at /\ e.at =< now /\ now < e.lease
    /\ e.type = "claim_expired" => e.at =< now
    /\ e.type = "source_rebound" =>
         e.at =< now /\ LapsedAt(s, now) = LapsedAt(s, e.at)

Commits(s, e, granted, now) ==
    /\ Accepts(s, e)
    /\ LiveRules(s, e, granted, now)
    /\ Audit(Effect(s, e))

=============================================================================
