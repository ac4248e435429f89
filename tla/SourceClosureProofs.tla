------------------------ MODULE SourceClosureProofs ------------------------
(***************************************************************************)
(* Closing a source issue, for every set of jobs and reactors, every       *)
(* attempt budget, lease length and route table: nothing is sent to Linear *)
(* twice, and a closed work item was really closed.                        *)
(*                                                                         *)
(* The effect row alone does not make it so: a superseded claimant still   *)
(* has its task and still sends.  What is inductive is that at most one    *)
(* task of the fleet is inside a close at any time (OneCloser), that none  *)
(* is while the intent may be taken for a new close (ResendableIsUnsent),  *)
(* and what each phase of a close knows of the provider (PhasesAreHonest). *)
(***************************************************************************)
EXTENDS SourceClosure, JobLedgerProofs

\* The phases of a close from its preflight on, however late they are left.
Inside == {"read", "comment", "update", "refused", "unsure", "receipt"}
Closing(r, j) == pc[r][j] \in Inside

OneCloser ==
    \A r1, r2 \in Reactors, j1, j2 \in Jobs :
        Closing(r1, j1) /\ Closing(r2, j2) => r1 = r2 /\ j1 = j2

Unsent == sent["comment"] = 0 /\ sent["update"] = 0

\* An intent that a claim may take for a new close is nobody's close.
ResendableIsUnsent ==
    effect[CloseEffect].status \in {"ABSENT", "FAILED"} =>
        Unsent /\ \A r \in Reactors, j \in Jobs : ~Closing(r, j)

Applied == issue.state = "completed" /\ issue.marker

PhasesAreHonest ==
    \A r \in Reactors, j \in Jobs :
        /\ pc[r][j] \in {"read", "comment", "refused"} => Unsent
        /\ pc[r][j] = "update" => sent["update"] = 0 /\ issue.marker
        /\ pc[r][j] \in {"receipt", "reconciled"} => Applied

\* Linear knows only what was sent.
MarkerWasSent ==
    /\ \A m \in Mutations : wire[m] <= sent[m]
    /\ issue.marker => sent["comment"] > 0

CloseInv ==
    /\ OneCloser /\ ResendableIsUnsent /\ PhasesAreHonest /\ MarkerWasSent
    /\ NeverSentTwice /\ ClosedMeansApplied

-----------------------------------------------------------------------------
(* The composition and the ledger.                                         *)

\* A step of the activity is a step of the ledger or leaves its rows alone.
LEMMA ClosureStepsLedger == [ClosureNext]_allVars => [Next]_vars
<1> SUFFICES ASSUME [ClosureNext]_allVars PROVE [Next]_vars
  OBVIOUS
<1>1. ASSUME NEW r \in Reactors, ClaimClosure(r) PROVE ClaimStep(r)
  BY <1>1 DEF ClaimClosure, ClaimStep
<1>2. ASSUME NEW r \in Reactors, NEW c \in tasks[r], RenewClosure(r, c) \/ HandlerStep(r, c)
      PROVE  HolderStep(r, c) \/ UNCHANGED vars
  <2>1. CASE RenewClosure(r, c)
    BY <2>1 DEF RenewClosure, HolderStep
  <2>2. CASE RetryClosure(r, c) \/ DeadLetterClosure(r, c) \/ ClosureRefused(r, c)
    BY <2>2 DEF RetryClosure, DeadLetterClosure, ClosureRefused, HolderStep
  <2>3. CASE PrepareClose(r, c)
    BY <2>3, CloseEffectAssumption DEF PrepareClose, HolderStep
  <2>4. CASE RecordFailure(r, c, "refused", "FAILED") \/ RecordFailure(r, c, "unsure", "AMBIGUOUS")
    BY <2>4, CloseEffectAssumption DEF RecordFailure, HolderStep
  <2>5. CASE Finalize(r, c)
    <3>1. ObserveEffect(r, c, CloseEffect, {}) /\ CloseEffect \in Effects /\ {} \in SUBSET Jobs
      BY <2>5, CloseEffectAssumption DEF Finalize
    <3> QED BY <3>1 DEF HolderStep
  <2>6. CASE \/ PrepareReconcile(r, c) \/ PrepareFails(r, c) \/ ReadIssue(r, c)
             \/ (\E m \in Mutations : SendMutation(r, c, m) \/ MutationSucceeds(r, c, m))
             \/ Reconcile(r, c) \/ RecordFailureLost(r, c) \/ FinalizeFails(r, c)
    BY <2>6 DEF PrepareReconcile, PrepareFails, ReadIssue, SendMutation, MutationSucceeds,
                Reconcile, RecordFailureLost, FinalizeFails
  <2> QED BY <1>2, <2>1, <2>2, <2>3, <2>4, <2>5, <2>6 DEF HandlerStep
<1> QED BY <1>1, <1>2 DEF ClosureNext, Next, ClosureAborts, Deliver, HumanActs, RevokeAuthority,
        allVars

\* The activity uses the ledger only as the ledger allows, so the fences,
\* budgets and citations of the ledger hold of it too.
THEOREM ClosureUsesLedger == ClosureSpec => Spec
<1>1. ClosureInit => Init
  BY DEF ClosureInit
<1> QED BY <1>1, ClosureStepsLedger, PTL DEF ClosureSpec, Spec

-----------------------------------------------------------------------------
(* Types.                                                                  *)
Issue == [state : {"active", "completed"}, marker : BOOLEAN, revised : BOOLEAN]

\* What Goto does to the phases.
LEMMA GotoStep ==
    ASSUME ClosureTypeOK, NEW r \in Reactors, NEW c \in tasks[r], NEW phase \in Phase,
           Goto(r, c, phase)
    PROVE  /\ c.job \in Jobs /\ pc' \in [Reactors -> [Jobs -> Phase]]
           /\ pc'[r][c.job] = phase
           /\ \A q \in Reactors, k \in Jobs :
                  q # r \/ k # c.job => pc'[q][k] = pc[q][k]
<1>1. c.job \in Jobs
  BY DEF ClosureTypeOK, TypeOK, Claim
<1> QED BY <1>1 DEF Goto, ClosureTypeOK

LEMMA ClosureTypeStep == ClosureTypeOK /\ [ClosureNext]_allVars => ClosureTypeOK'
<1> SUFFICES ASSUME ClosureTypeOK, [ClosureNext]_allVars PROVE ClosureTypeOK'
  OBVIOUS
<1>0. TypeOK'
  BY TypeStep, ClosureStepsLedger DEF ClosureTypeOK
<1>1. CASE UNCHANGED closureVars
  BY <1>0, <1>1 DEF closureVars, ClosureTypeOK
<1>2. ASSUME NEW r \in Reactors, Execute(r) \/ Abandon(r) PROVE ClosureTypeOK'
  <2>1. pc' \in [Reactors -> [Jobs -> Phase]]
    BY <1>2 DEF Execute, Abandon, ClosureTypeOK, Phase
  <2> QED BY <1>0, <1>2, <2>1 DEF Execute, Abandon, ClosureTypeOK
<1>3. ASSUME NEW r \in Reactors, NEW c \in tasks[r], NEW phase \in Phase, Goto(r, c, phase),
             work' \in {work, "CLOSED", "ESCALATED"}, UNCHANGED authorized,
             wire' \in [Mutations -> Nat], sent' \in [Mutations -> Nat], issue' \in Issue
      PROVE  ClosureTypeOK'
  <2>1. pc' \in [Reactors -> [Jobs -> Phase]]
    BY <1>3, GotoStep
  <2> QED BY <1>0, <1>3, <2>1 DEF ClosureTypeOK, Issue
<1>4. ASSUME NEW m \in Mutations
      PROVE  /\ [sent EXCEPT ![m] = @ + 1] \in [Mutations -> Nat]
             /\ [wire EXCEPT ![m] = @ + 1] \in [Mutations -> Nat]
             /\ wire[m] > 0 => [wire EXCEPT ![m] = @ - 1] \in [Mutations -> Nat]
             /\ [issue EXCEPT !.marker = TRUE] \in Issue
             /\ [issue EXCEPT !.state = "completed"] \in Issue
             /\ [issue EXCEPT !.revised = TRUE] \in Issue
  <2>1. /\ sent[m] + 1 \in Nat /\ wire[m] + 1 \in Nat
        /\ wire[m] > 0 => wire[m] - 1 \in Nat
    BY DEF ClosureTypeOK
  <2>2. /\ [sent EXCEPT ![m] = @ + 1] \in [Mutations -> Nat]
        /\ [wire EXCEPT ![m] = @ + 1] \in [Mutations -> Nat]
        /\ wire[m] > 0 => [wire EXCEPT ![m] = @ - 1] \in [Mutations -> Nat]
    BY <2>1 DEF ClosureTypeOK
  <2> QED BY <2>2 DEF ClosureTypeOK, Issue
<1>5. ASSUME NEW r \in Reactors, NEW c \in tasks[r], HandlerStep(r, c) PROVE ClosureTypeOK'
  <2>0. /\ wire \in [Mutations -> Nat] /\ sent \in [Mutations -> Nat] /\ issue \in Issue
        /\ ReadOutcome \in Phase
    BY DEF ClosureTypeOK, Issue, ReadOutcome, Phase
  <2>1. CASE \/ PrepareClose(r, c) \/ PrepareReconcile(r, c) \/ PrepareFails(r, c)
             \/ ReadIssue(r, c)
    BY <1>3, <2>0, <2>1 DEF PrepareClose, PrepareReconcile, PrepareFails, ReadIssue, Phase
  <2>2. ASSUME NEW m \in Mutations, SendMutation(r, c, m) PROVE ClosureTypeOK'
    BY <1>3, <1>4, <2>0, <2>2 DEF SendMutation, Phase
  <2>3. ASSUME NEW m \in Mutations, MutationSucceeds(r, c, m) PROVE ClosureTypeOK'
    BY <1>3, <1>4, <2>0, <2>3 DEF MutationSucceeds, Phase
  <2>4. CASE \/ Reconcile(r, c) \/ RecordFailure(r, c, "refused", "FAILED")
             \/ RecordFailure(r, c, "unsure", "AMBIGUOUS") \/ RecordFailureLost(r, c)
    BY <1>3, <2>0, <2>4 DEF Reconcile, RecordFailure, RecordFailureLost, Phase
  <2>5. CASE Finalize(r, c) \/ FinalizeFails(r, c) \/ RetryClosure(r, c) \/ DeadLetterClosure(r, c)
    BY <1>3, <2>0, <2>5 DEF Finalize, FinalizeFails, RetryClosure, DeadLetterClosure, Phase
  <2>6. CASE ClosureRefused(r, c)
    BY <1>2, <2>6 DEF ClosureRefused
  <2> QED BY <1>5, <2>1, <2>2, <2>3, <2>4, <2>5, <2>6 DEF HandlerStep
<1>6. ASSUME NEW m \in Mutations, Deliver(m) PROVE ClosureTypeOK'
  <2>1. wire' \in [Mutations -> Nat] /\ issue' \in Issue
    BY <1>4, <1>6 DEF Deliver, ClosureTypeOK, Issue
  <2> QED BY <1>0, <1>6, <2>1 DEF Deliver, ClosureTypeOK, Issue
<1>7. CASE HumanActs \/ RevokeAuthority
  <2>1. issue' \in Issue
    BY <1>4, <1>7 DEF HumanActs, RevokeAuthority, ClosureTypeOK, Issue, Mutations
  <2> QED BY <1>0, <1>7, <2>1 DEF HumanActs, RevokeAuthority, ClosureTypeOK, Issue
<1> QED BY <1>1, <1>2, <1>5, <1>6, <1>7 DEF ClosureNext, ClaimClosure, ClosureAborts,
        RenewClosure, allVars

-----------------------------------------------------------------------------
(* What the ledger's statements do to the one intent and to ended jobs.    *)

HasEnded(s) == \E j \in Jobs : status[j] = s

\* Every step of the ledger that settles no job keeps the ended ones, and
\* leaves the intent alone unless it releases it to ambiguity.
SettlesNothing ==
    /\ HasEnded("COMPLETED")' <=> HasEnded("COMPLETED")
    /\ HasEnded("DEAD")' <=> HasEnded("DEAD")

KeepsIntent ==
    \/ effect'[CloseEffect].status = effect[CloseEffect].status
    \/ effect[CloseEffect].status = "IN_FLIGHT" /\ effect'[CloseEffect].status = "AMBIGUOUS"

LEMMA TimeIsQuiet ==
    ASSUME TypeOK, NEW j \in Jobs, TimeStep(j)
    PROVE  SettlesNothing /\ KeepsIntent
<1>1. \A k \in Jobs, s \in {"COMPLETED", "DEAD"} : status'[k] = s <=> status[k] = s
  BY DEF TimeStep, EnqueueJob, BecomeDue, LeaseTick, TypeOK
<1>2. effect' = effect
  BY DEF TimeStep, EnqueueJob, BecomeDue, LeaseTick
<1> QED BY <1>1, <1>2 DEF SettlesNothing, HasEnded, KeepsIntent

LEMMA ClaimIsQuiet ==
    ASSUME TypeOK, NEW r \in Reactors, ClaimStep(r)
    PROVE  SettlesNothing /\ KeepsIntent
<1>1. PICK S \in SUBSET Jobs, count \in [Jobs -> Nat], d \in BOOLEAN :
          Refence(r, S, count, d) /\ (\A j \in S : Due(j))
  BY ClaimStepIsRefence
<1>2. \A k \in Jobs, s \in {"COMPLETED", "DEAD"} : status'[k] = s <=> status[k] = s
  BY <1>1 DEF Refence, Due, Expired, TypeOK
<1>3. KeepsIntent
  <2>1. CloseEffect \in Effects
    BY CloseEffectAssumption
  <2> QED BY <1>1, <2>1 DEF Refence, ReleasedEffects, KeepsIntent, Unowned
<1> QED BY <1>2, <1>3 DEF SettlesNothing, HasEnded

\* A settling statement ends its own job and no other.
LEMMA SettleEnds ==
    ASSUME TypeOK, NEW r \in Reactors, NEW c \in tasks[r], NEW s \in {"COMPLETED", "DEAD", "RETRY"},
           Settle(r, c, s, {})
    PROVE  \A t \in {"COMPLETED", "DEAD"} : HasEnded(t)' <=> (t = s \/ HasEnded(t))
<1>1. c.job \in Jobs /\ status[c.job] = "RUNNING"
  BY DEF TypeOK, Claim, Settle, LiveClaim
<1>2. \A k \in Jobs : status'[k] = IF k = c.job THEN s ELSE status[k]
  BY DEF Settle
<1> QED BY <1>1, <1>2 DEF HasEnded

-----------------------------------------------------------------------------
(* The inductive step.                                                     *)

\* A task that leaves a close, or was never in one, disturbs nobody.
Retreats ==
    \A r \in Reactors, j \in Jobs :
        \/ pc'[r][j] = pc[r][j]
        \/ pc'[r][j] \in {"idle", "start", "error", "reconcile"}
        \/ Closing(r, j) /\ pc'[r][j] = "unsure"

LEMMA RetreatStep ==
    ASSUME CloseInv, Retreats, KeepsIntent, SettlesNothing,
           UNCHANGED <<work, wire, sent, issue>>
    PROVE  CloseInv'
<1>1. \A r \in Reactors, j \in Jobs : Closing(r, j)' => Closing(r, j)
  BY DEF Retreats, Closing, Inside
<1>2. OneCloser'
  BY <1>1 DEF CloseInv, OneCloser
<1>3. ResendableIsUnsent'
  BY <1>1 DEF CloseInv, ResendableIsUnsent, KeepsIntent, Unsent
<1>4. PhasesAreHonest'
  BY DEF CloseInv, PhasesAreHonest, Retreats, Unsent, Applied
<1>5. MarkerWasSent' /\ NeverSentTwice'
  BY DEF CloseInv, MarkerWasSent, NeverSentTwice
<1>6. ClosedMeansApplied'
  <2>1. /\ HasEnded("COMPLETED")' <=> HasEnded("COMPLETED")
        /\ HasEnded("DEAD")' <=> HasEnded("DEAD")
        /\ effect'[CloseEffect].status = "OBSERVED" <=> effect[CloseEffect].status = "OBSERVED"
    BY DEF SettlesNothing, KeepsIntent
  <2> QED BY <2>1 DEF CloseInv, ClosedMeansApplied, HasEnded
<1> QED BY <1>2, <1>3, <1>4, <1>5, <1>6 DEF CloseInv

\* Dropping every task of a reactor, or starting new ones, is a retreat.
LEMMA PollIsRetreat ==
    ASSUME ClosureTypeOK, NEW r \in Reactors, Execute(r) \/ Abandon(r)
    PROVE  Retreats /\ UNCHANGED <<work, wire, sent, issue>>
BY DEF Execute, Abandon, Retreats, ClosureTypeOK

\* The preflight of a close.
LEMMA PrepareStep ==
    ASSUME ClosureTypeOK, CloseInv, NEW r \in Reactors, NEW c \in tasks[r], PrepareClose(r, c)
    PROVE  CloseInv'
<1>1. /\ c.job \in Jobs /\ pc'[r][c.job] = "read"
      /\ \A q \in Reactors, k \in Jobs : q # r \/ k # c.job => pc'[q][k] = pc[q][k]
  BY GotoStep DEF PrepareClose, Phase
<1>2. Unsent /\ \A q \in Reactors, k \in Jobs : ~Closing(q, k)
  BY DEF PrepareClose, CloseInv, ResendableIsUnsent
<1>3. /\ effect[CloseEffect].status \in {"ABSENT", "FAILED"}
      /\ effect'[CloseEffect].status = "IN_FLIGHT"
      /\ UNCHANGED <<status, work, wire, sent, issue>>
  BY CloseEffectAssumption DEF PrepareClose, BeginEffect, ClosureTypeOK, TypeOK, jobVars
<1>4. OneCloser'
  BY <1>1, <1>2 DEF OneCloser, Closing
<1>5. ResendableIsUnsent'
  BY <1>3 DEF ResendableIsUnsent
<1>6. PhasesAreHonest'
  BY <1>1, <1>2, <1>3 DEF CloseInv, PhasesAreHonest, Unsent, Applied
<1>7. MarkerWasSent' /\ NeverSentTwice' /\ ClosedMeansApplied'
  BY <1>3 DEF CloseInv, MarkerWasSent, NeverSentTwice, ClosedMeansApplied
<1> QED BY <1>4, <1>5, <1>6, <1>7 DEF CloseInv

\* The read: nothing was sent by this close, so no marker can be there.
LEMMA ReadStep ==
    ASSUME ClosureTypeOK, CloseInv, NEW r \in Reactors, NEW c \in tasks[r], ReadIssue(r, c)
    PROVE  CloseInv'
<1>0. c.job \in Jobs /\ pc[r][c.job] = "read"
  BY DEF ReadIssue, At, ClosureTypeOK, TypeOK, Claim
<1>1. Unsent
  BY <1>0 DEF CloseInv, PhasesAreHonest
<1>2. ~issue.marker
  BY <1>1 DEF CloseInv, MarkerWasSent, Unsent
<1>3. ReadOutcome \in {"refused", "comment"}
  BY <1>2 DEF ReadOutcome
<1>4. PICK phase \in {"refused", "comment"} : Goto(r, c, phase)
  BY <1>3 DEF ReadIssue
<1>5. /\ pc'[r][c.job] = phase
      /\ \A q \in Reactors, k \in Jobs : q # r \/ k # c.job => pc'[q][k] = pc[q][k]
  BY <1>4, GotoStep DEF Phase
<1>6. UNCHANGED <<status, effect, work, wire, sent, issue>>
  BY DEF ReadIssue, vars
<1>7. \A q \in Reactors, k \in Jobs : Closing(q, k)' <=> Closing(q, k)
  BY <1>0, <1>5 DEF Closing, Inside
<1>8. OneCloser' /\ ResendableIsUnsent'
  BY <1>6, <1>7 DEF CloseInv, OneCloser, ResendableIsUnsent, Unsent
<1>9. PhasesAreHonest'
  BY <1>0, <1>1, <1>5, <1>6 DEF CloseInv, PhasesAreHonest, Unsent, Applied
<1>10. MarkerWasSent' /\ NeverSentTwice' /\ ClosedMeansApplied'
  BY <1>6 DEF CloseInv, MarkerWasSent, NeverSentTwice, ClosedMeansApplied
<1> QED BY <1>8, <1>9, <1>10 DEF CloseInv

\* A mutation leaves the process, answered or not.
LEMMA MutationStep ==
    ASSUME ClosureTypeOK, CloseInv, NEW r \in Reactors, NEW c \in tasks[r], NEW m \in Mutations,
           SendMutation(r, c, m) \/ MutationSucceeds(r, c, m)
    PROVE  CloseInv'
<1>0. c.job \in Jobs /\ pc[r][c.job] = m /\ m \in {"comment", "update"} /\ Closing(r, c.job)
  BY DEF SendMutation, MutationSucceeds, At, ClosureTypeOK, TypeOK, Claim, Mutations, Closing,
         Inside
<1>1. \A q \in Reactors, k \in Jobs : Closing(q, k) => q = r /\ k = c.job
  BY <1>0 DEF CloseInv, OneCloser
<1>2. sent[m] = 0 /\ (m = "comment" => Unsent) /\ (m = "update" => issue.marker)
  BY <1>0 DEF CloseInv, PhasesAreHonest, Unsent
<1>3. PICK phase \in {"unsure", "update", "receipt"} :
          /\ Goto(r, c, phase)
          /\ phase = "update" => m = "comment" /\ issue'.marker
          /\ phase = "receipt" => m = "update" /\ issue'.state = "completed"
  BY <1>0 DEF SendMutation, MutationSucceeds, ClosureTypeOK, Mutations
<1>4. /\ pc'[r][c.job] = phase
      /\ \A q \in Reactors, k \in Jobs : q # r \/ k # c.job => pc'[q][k] = pc[q][k]
  BY <1>3, GotoStep DEF Phase
<1>5. /\ UNCHANGED <<status, effect, work>> /\ sent' = [sent EXCEPT ![m] = @ + 1]
      /\ wire' \in {wire, [wire EXCEPT ![m] = @ + 1]}
      /\ issue.marker => issue'.marker
      /\ issue.state = "completed" => issue'.state = "completed"
      /\ issue'.marker => issue.marker \/ m = "comment"
  BY DEF SendMutation, MutationSucceeds, vars, ClosureTypeOK, Mutations
<1>6. sent'[m] = 1 /\ \A n \in Mutations \ {m} : sent'[n] = sent[n]
  BY <1>2, <1>5 DEF ClosureTypeOK
<1>7. \A q \in Reactors, k \in Jobs : Closing(q, k)' <=> Closing(q, k)
  BY <1>0, <1>3, <1>4 DEF Closing, Inside
<1>8. OneCloser' /\ ResendableIsUnsent'
  BY <1>0, <1>5, <1>7 DEF CloseInv, OneCloser, ResendableIsUnsent
<1>9. PhasesAreHonest'
  <2> SUFFICES ASSUME NEW q \in Reactors, NEW k \in Jobs
               PROVE  /\ pc'[q][k] \in {"read", "comment", "refused"} => Unsent'
                      /\ pc'[q][k] = "update" => sent'["update"] = 0 /\ issue'.marker
                      /\ pc'[q][k] \in {"receipt", "reconciled"} => Applied'
    BY DEF PhasesAreHonest
  <2>1. CASE q = r /\ k = c.job
    BY <1>2, <1>3, <1>4, <1>5, <1>6, <2>1 DEF Unsent, Applied, Mutations
  <2>2. CASE q # r \/ k # c.job
    <3>1. pc'[q][k] = pc[q][k] /\ ~Closing(q, k)
      BY <1>1, <1>4, <2>2
    <3> QED BY <1>5, <3>1 DEF Closing, Inside, CloseInv, PhasesAreHonest, Applied
  <2> QED BY <2>1, <2>2
<1>10. MarkerWasSent'
  <2>1. \A n \in Mutations : wire'[n] <= sent'[n]
    BY <1>5 DEF CloseInv, MarkerWasSent, ClosureTypeOK
  <2>2. issue'.marker => sent'["comment"] > 0
    BY <1>0, <1>5, <1>6 DEF CloseInv, MarkerWasSent, Mutations
  <2> QED BY <2>1, <2>2 DEF MarkerWasSent
<1>11. NeverSentTwice'
  BY <1>6 DEF CloseInv, NeverSentTwice
<1>12. ClosedMeansApplied'
  BY <1>5 DEF CloseInv, ClosedMeansApplied
<1> QED BY <1>8, <1>9, <1>10, <1>11, <1>12 DEF CloseInv

\* The provider refused before anything was sent: the intent is FAILED.
LEMMA RefusedStep ==
    ASSUME ClosureTypeOK, CloseInv, NEW r \in Reactors, NEW c \in tasks[r],
           RecordFailure(r, c, "refused", "FAILED")
    PROVE  CloseInv'
<1>0. c.job \in Jobs /\ pc[r][c.job] = "refused" /\ Closing(r, c.job)
  BY DEF RecordFailure, At, ClosureTypeOK, TypeOK, Claim, Closing, Inside
<1>1. /\ pc'[r][c.job] = "error"
      /\ \A q \in Reactors, k \in Jobs : q # r \/ k # c.job => pc'[q][k] = pc[q][k]
  BY GotoStep DEF RecordFailure, Phase
<1>2. Unsent
  BY <1>0 DEF CloseInv, PhasesAreHonest
<1>3. \A q \in Reactors, k \in Jobs : ~Closing(q, k)'
  BY <1>0, <1>1 DEF CloseInv, OneCloser, Closing, Inside
<1>4. /\ effect[CloseEffect].status = "IN_FLIGHT" /\ effect'[CloseEffect].status = "FAILED"
      /\ UNCHANGED <<status, work, wire, sent, issue>>
  BY CloseEffectAssumption DEF RecordFailure, ReleaseEffect, OwnsEffect, Unowned, ClosureTypeOK,
                               TypeOK, jobVars
<1>5. OneCloser' /\ ResendableIsUnsent'
  BY <1>2, <1>3, <1>4 DEF OneCloser, ResendableIsUnsent, Unsent
<1>6. PhasesAreHonest'
  BY <1>1, <1>4 DEF CloseInv, PhasesAreHonest, Unsent, Applied
<1>7. MarkerWasSent' /\ NeverSentTwice' /\ ClosedMeansApplied'
  BY <1>4 DEF CloseInv, MarkerWasSent, NeverSentTwice, ClosedMeansApplied
<1> QED BY <1>5, <1>6, <1>7 DEF CloseInv

\* The receipt, the closed work item and the completed job.
LEMMA FinalizeStep ==
    ASSUME ClosureTypeOK, CloseInv, NEW r \in Reactors, NEW c \in tasks[r], Finalize(r, c)
    PROVE  CloseInv'
<1>0. c.job \in Jobs /\ pc[r][c.job] \in {"receipt", "reconciled"} /\ work = "CLOSING_SOURCE"
  BY DEF Finalize, At, Bound, ClosureTypeOK, TypeOK, Claim
<1>1. /\ pc'[r][c.job] = "idle"
      /\ \A q \in Reactors, k \in Jobs : q # r \/ k # c.job => pc'[q][k] = pc[q][k]
  BY GotoStep DEF Finalize, Phase
<1>2. Applied
  BY <1>0 DEF CloseInv, PhasesAreHonest
<1>3. /\ effect'[CloseEffect].status = "OBSERVED" /\ work' = "CLOSED"
      /\ UNCHANGED <<wire, sent, issue>>
  BY CloseEffectAssumption DEF Finalize, ObserveEffect, Unowned, ClosureTypeOK, TypeOK
<1>4. HasEnded("COMPLETED")' /\ (HasEnded("DEAD")' <=> HasEnded("DEAD"))
  <2>1. Settle(r, c, "COMPLETED", {}) /\ TypeOK
    BY DEF Finalize, ObserveEffect, ClosureTypeOK
  <2> QED BY <2>1, SettleEnds
<1>5. \A q \in Reactors, k \in Jobs : Closing(q, k)' => Closing(q, k)
  BY <1>1 DEF Closing, Inside
<1>6. OneCloser' /\ ResendableIsUnsent'
  BY <1>3, <1>5 DEF CloseInv, OneCloser, ResendableIsUnsent
<1>7. PhasesAreHonest'
  BY <1>1, <1>3 DEF CloseInv, PhasesAreHonest, Unsent, Applied
<1>8. MarkerWasSent' /\ NeverSentTwice'
  BY <1>3 DEF CloseInv, MarkerWasSent, NeverSentTwice
<1>9. ClosedMeansApplied'
  BY <1>0, <1>2, <1>3, <1>4 DEF CloseInv, ClosedMeansApplied, Applied, HasEnded
<1> QED BY <1>6, <1>7, <1>8, <1>9 DEF CloseInv

\* The exhausted job and its escalated work item.
LEMMA DeadLetterStep ==
    ASSUME ClosureTypeOK, CloseInv, NEW r \in Reactors, NEW c \in tasks[r],
           DeadLetterClosure(r, c)
    PROVE  CloseInv'
<1>1. /\ pc'[r][c.job] = "idle"
      /\ \A q \in Reactors, k \in Jobs : q # r \/ k # c.job => pc'[q][k] = pc[q][k]
  BY GotoStep DEF DeadLetterClosure, Phase
<1>2. /\ work = "CLOSING_SOURCE" /\ work' = "ESCALATED"
      /\ UNCHANGED <<effect, wire, sent, issue>>
  BY DEF DeadLetterClosure, DeadLetter
<1>3. HasEnded("DEAD")' /\ (HasEnded("COMPLETED")' <=> HasEnded("COMPLETED"))
  <2>1. Settle(r, c, "DEAD", {}) /\ TypeOK
    BY DEF DeadLetterClosure, DeadLetter, ClosureTypeOK
  <2> QED BY <2>1, SettleEnds
<1>4. \A q \in Reactors, k \in Jobs : Closing(q, k)' => Closing(q, k)
  BY <1>1 DEF Closing, Inside
<1>5. OneCloser' /\ ResendableIsUnsent'
  BY <1>2, <1>4 DEF CloseInv, OneCloser, ResendableIsUnsent, Unsent
<1>6. PhasesAreHonest'
  BY <1>1, <1>2 DEF CloseInv, PhasesAreHonest, Unsent, Applied
<1>7. MarkerWasSent' /\ NeverSentTwice'
  BY <1>2 DEF CloseInv, MarkerWasSent, NeverSentTwice
<1>8. ClosedMeansApplied'
  BY <1>2, <1>3 DEF CloseInv, ClosedMeansApplied, HasEnded
<1> QED BY <1>5, <1>6, <1>7, <1>8 DEF CloseInv

\* Reconciliation finds the completed issue with our marker.
LEMMA ReconcileStep ==
    ASSUME ClosureTypeOK, CloseInv, NEW r \in Reactors, NEW c \in tasks[r], Reconcile(r, c)
    PROVE  CloseInv'
<1>1. UNCHANGED <<status, effect, work, wire, sent, issue>>
  BY DEF Reconcile, vars
<1>2. CASE Goto(r, c, "error")
  <2>1. Retreats
    BY <1>2, GotoStep DEF Retreats, Phase
  <2> QED BY <1>1, <2>1, RetreatStep DEF KeepsIntent, SettlesNothing, HasEnded
<1>3. CASE Applied /\ Goto(r, c, "reconciled")
  <2>1. /\ pc'[r][c.job] = "reconciled"
        /\ \A q \in Reactors, k \in Jobs : q # r \/ k # c.job => pc'[q][k] = pc[q][k]
    BY <1>3, GotoStep DEF Phase
  <2>2. \A q \in Reactors, k \in Jobs : Closing(q, k)' => Closing(q, k)
    BY <2>1 DEF Closing, Inside
  <2>3. OneCloser' /\ ResendableIsUnsent'
    BY <1>1, <2>2 DEF CloseInv, OneCloser, ResendableIsUnsent, Unsent
  <2>4. PhasesAreHonest'
    BY <1>1, <1>3, <2>1 DEF CloseInv, PhasesAreHonest, Unsent, Applied
  <2>5. MarkerWasSent' /\ NeverSentTwice' /\ ClosedMeansApplied'
    BY <1>1 DEF CloseInv, MarkerWasSent, NeverSentTwice, ClosedMeansApplied
  <2> QED BY <2>3, <2>4, <2>5 DEF CloseInv
<1> QED BY <1>2, <1>3 DEF Reconcile, Applied

\* Linear and people: what is applied stays applied.
LEMMA ProviderStep ==
    ASSUME ClosureTypeOK, CloseInv, HumanActs \/ \E m \in Mutations : Deliver(m)
    PROVE  CloseInv'
<1>1. /\ UNCHANGED <<status, effect, work, pc, sent>>
      /\ issue.marker => issue'.marker
      /\ issue.state = "completed" => issue'.state = "completed"
  BY DEF HumanActs, Deliver, vars, ClosureTypeOK
<1>2. MarkerWasSent'
  <2>1. CASE HumanActs
    <3>1. wire' = wire /\ issue'.marker = issue.marker
      BY <2>1 DEF HumanActs, ClosureTypeOK
    <3> QED BY <1>1, <3>1 DEF CloseInv, MarkerWasSent
  <2>2. ASSUME NEW m \in Mutations, Deliver(m) PROVE MarkerWasSent'
    <3>0. /\ wire \in [Mutations -> Nat] /\ sent \in [Mutations -> Nat]
          /\ \A n \in Mutations : wire[n] <= sent[n]
      BY DEF ClosureTypeOK, CloseInv, MarkerWasSent
    <3>1. wire[m] > 0 /\ wire' = [wire EXCEPT ![m] = wire[m] - 1]
      BY <2>2 DEF Deliver
    <3>2. issue'.marker => issue.marker \/ m = "comment"
      BY <2>2 DEF Deliver, ClosureTypeOK
    <3>3. \A n \in Mutations : wire'[n] <= wire[n] /\ wire'[n] \in Nat
      BY <3>0, <3>1
    <3>4. \A n \in Mutations : wire'[n] <= sent'[n]
      BY <1>1, <3>0, <3>3
    <3>5. issue'.marker => sent'["comment"] > 0
      BY <1>1, <3>0, <3>1, <3>2 DEF CloseInv, MarkerWasSent
    <3> QED BY <3>4, <3>5 DEF MarkerWasSent
  <2> QED BY <2>1, <2>2
<1>3. OneCloser' /\ ResendableIsUnsent' /\ NeverSentTwice'
  BY <1>1 DEF CloseInv, OneCloser, ResendableIsUnsent, NeverSentTwice, Unsent, Closing
<1>4. PhasesAreHonest' /\ ClosedMeansApplied'
  BY <1>1 DEF CloseInv, PhasesAreHonest, ClosedMeansApplied, Unsent, Applied
<1> QED BY <1>2, <1>3, <1>4 DEF CloseInv

LEMMA CloseStep == ClosureTypeOK /\ CloseInv /\ [ClosureNext]_allVars => CloseInv'
<1> SUFFICES ASSUME ClosureTypeOK, CloseInv, [ClosureNext]_allVars PROVE CloseInv'
  OBVIOUS
<1>0. TypeOK
  BY DEF ClosureTypeOK
<1>1. CASE UNCHANGED <<vars, pc, work, wire, sent, issue>>
  BY <1>1, RetreatStep DEF vars, Retreats, KeepsIntent, SettlesNothing, HasEnded
<1>2. ASSUME NEW j \in Jobs, TimeStep(j), UNCHANGED closureVars PROVE CloseInv'
  BY <1>0, <1>2, TimeIsQuiet, RetreatStep DEF closureVars, Retreats
<1>3. ASSUME NEW r \in Reactors, ClaimClosure(r) PROVE CloseInv'
  <2>1. ClaimStep(r) /\ Execute(r)
    BY <1>3 DEF ClaimClosure, ClaimStep
  <2> QED BY <1>0, <2>1, ClaimIsQuiet, PollIsRetreat, RetreatStep
<1>4. ASSUME NEW r \in Reactors, ClosureAborts(r) PROVE CloseInv'
  <2>1. UNCHANGED <<status, effect>> /\ Abandon(r)
    BY <1>4 DEF ClosureAborts, PollAborts, jobVars
  <2> QED BY <2>1, PollIsRetreat, RetreatStep DEF KeepsIntent, SettlesNothing, HasEnded
<1>5. ASSUME NEW r \in Reactors, NEW c \in tasks[r], RenewClosure(r, c) PROVE CloseInv'
  <2>1. UNCHANGED <<status, effect, pc, work, wire, sent, issue>>
    BY <1>5 DEF RenewClosure, RenewJobLease, closureVars
  <2> QED BY <2>1, RetreatStep DEF Retreats, KeepsIntent, SettlesNothing, HasEnded
<1>6. ASSUME NEW r \in Reactors, NEW c \in tasks[r], HandlerStep(r, c) PROVE CloseInv'
  <2>1. CASE ClosureRefused(r, c)
    <3>1. UNCHANGED <<status, effect>> /\ Abandon(r)
      BY <2>1 DEF ClosureRefused, ClaimRefused, jobVars
    <3> QED BY <3>1, PollIsRetreat, RetreatStep DEF KeepsIntent, SettlesNothing, HasEnded
  <2>2. CASE \/ PrepareReconcile(r, c) \/ PrepareFails(r, c) \/ RecordFailureLost(r, c)
             \/ FinalizeFails(r, c)
    <3>1. UNCHANGED <<status, effect, work, wire, sent, issue>>
      BY <2>2 DEF PrepareReconcile, PrepareFails, RecordFailureLost, FinalizeFails, vars
    <3>2. Retreats
      <4>1. CASE Goto(r, c, "error") \/ Goto(r, c, "reconcile")
        BY <4>1, GotoStep DEF Retreats, Phase
      <4>2. CASE At(r, c, "receipt") /\ Goto(r, c, "unsure")
        BY <4>2, GotoStep DEF Retreats, Phase, At, Closing, Inside
      <4> QED BY <2>2, <4>1, <4>2 DEF PrepareReconcile, PrepareFails, RecordFailureLost,
                                      FinalizeFails
    <3> QED BY <3>1, <3>2, RetreatStep DEF KeepsIntent, SettlesNothing, HasEnded
  <2>3. CASE RecordFailure(r, c, "unsure", "AMBIGUOUS")
    <3>1. KeepsIntent /\ UNCHANGED <<status, work, wire, sent, issue>>
      BY <1>0, <2>3, CloseEffectAssumption DEF RecordFailure, ReleaseEffect, OwnsEffect, Unowned,
                                          TypeOK, jobVars, KeepsIntent
    <3>2. Retreats
      BY <2>3, GotoStep DEF RecordFailure, Retreats, Phase
    <3> QED BY <3>1, <3>2, RetreatStep DEF SettlesNothing, HasEnded
  <2>4. CASE RetryClosure(r, c)
    <3>1. Settle(r, c, "RETRY", {}) /\ UNCHANGED <<effect, work, wire, sent, issue>>
      BY <2>4 DEF RetryClosure, FailJob
    <3>2. SettlesNothing
      BY <1>0, <3>1, SettleEnds DEF SettlesNothing
    <3>3. Retreats
      BY <2>4, GotoStep DEF RetryClosure, Retreats, Phase
    <3> QED BY <3>1, <3>2, <3>3, RetreatStep DEF KeepsIntent
  <2> QED BY <1>6, <2>1, <2>2, <2>3, <2>4, PrepareStep, ReadStep, MutationStep, ReconcileStep,
             RefusedStep, FinalizeStep, DeadLetterStep DEF HandlerStep
<1>7. CASE HumanActs \/ \E m \in Mutations : Deliver(m)
  BY <1>7, ProviderStep
<1>8. CASE RevokeAuthority
  BY <1>1, <1>8 DEF RevokeAuthority
<1> QED BY <1>1, <1>2, <1>3, <1>4, <1>5, <1>6, <1>7, <1>8 DEF ClosureNext, allVars, closureVars

LEMMA ClosureInitially == ClosureInit => ClosureTypeOK /\ CloseInv
<1> SUFFICES ASSUME ClosureInit PROVE ClosureTypeOK /\ CloseInv
  OBVIOUS
<1>1. ClosureTypeOK
  <2>1. TypeOK
    BY InitType DEF ClosureInit
  <2> QED BY <2>1 DEF ClosureInit, ClosureTypeOK, Phase
<1>2. /\ \A r \in Reactors, j \in Jobs : pc[r][j] = "idle"
      /\ sent["comment"] = 0 /\ sent["update"] = 0 /\ \A m \in Mutations : wire[m] = 0 /\ sent[m] = 0
      /\ ~issue.marker /\ work = "CLOSING_SOURCE"
  BY DEF ClosureInit, Mutations
<1>3. effect[CloseEffect].status = "ABSENT" /\ \A j \in Jobs : status[j] = "ABSENT"
  BY CloseEffectAssumption DEF ClosureInit, Init, Unowned
<1>4. OneCloser /\ ResendableIsUnsent /\ PhasesAreHonest
  BY <1>2 DEF OneCloser, ResendableIsUnsent, PhasesAreHonest, Closing, Inside, Unsent
<1>5. MarkerWasSent /\ NeverSentTwice /\ ClosedMeansApplied
  BY <1>2, <1>3 DEF MarkerWasSent, NeverSentTwice, ClosedMeansApplied
<1> QED BY <1>1, <1>4, <1>5 DEF CloseInv

-----------------------------------------------------------------------------
\* The inductive invariant of the activity.
THEOREM ClosureInvariant == ClosureSpec => [](ClosureTypeOK /\ CloseInv)
BY ClosureInitially, ClosureTypeStep, CloseStep, PTL DEF ClosureSpec

\* Whatever stalls, crashes, takeovers and lost answers happen, neither
\* mutation is ever sent to Linear twice.
THEOREM MutationsAreSentOnce == ClosureSpec => []NeverSentTwice
<1>1. CloseInv => NeverSentTwice
  BY DEF CloseInv
<1> QED BY <1>1, ClosureInvariant, PTL

\* An intent that may be sent again has nothing at the provider yet.
THEOREM ResendingIsSafe == ClosureSpec => []ResendableMeansUnsent
<1>1. ClosureTypeOK /\ CloseInv => ResendableMeansUnsent
  BY DEF ClosureTypeOK, CloseInv, ResendableIsUnsent, MarkerWasSent, ResendableMeansUnsent,
         Unsent, Mutations
<1> QED BY <1>1, ClosureInvariant, PTL

\* The closed work item, the observed intent, the completed job and the
\* completed, marked issue go together.
THEOREM ClosedIsReallyClosed == ClosureSpec => []ClosedMeansApplied
<1>1. CloseInv => ClosedMeansApplied
  BY DEF CloseInv
<1> QED BY <1>1, ClosureInvariant, PTL
=============================================================================
