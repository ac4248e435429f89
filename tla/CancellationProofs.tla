------------------------- MODULE CancellationProofs -------------------------
(***************************************************************************)
(* Cancelling a work item, for every set of reactors and of cancellation   *)
(* calls, every attempt budget, lease length and batch size: someone is    *)
(* always accountable, dead work is owned, and CANCELLED is final and      *)
(* true.                                                                   *)
(*                                                                         *)
(* The properties of the rows are not inductive alone, because a task      *)
(* commits what it read from Runmill several steps ago.  What is inductive *)
(* with them is that the remembered read still holds (TasksAreTrue): a     *)
(* terminal phase is never left, and an observer runs only once the        *)
(* request was observed.                                                   *)
(***************************************************************************)
EXTENDS Cancellation, JobLedgerProofs, FiniteSetTheorems

\* What a task remembers of the run is still so, it has read something when
\* it commits, and an observing task follows an observed request.
TrueTask(r, j) ==
    /\ task[r][j].seen \in TerminalPhase => remote = task[r][j].seen
    /\ task[r][j].at \in {"commit", "observed"} => task[r][j].seen # "none"
    /\ task[r][j].at \in {"observe", "observed"} => EffectStatusNow = "OBSERVED"

TasksAreTrue == \A r \in Reactors, j \in Jobs : TrueTask(r, j)

\* DeadWorkIsOwned, with its bound on the active escalations as uniqueness.
DeadJobsCite ==
    /\ \A j \in Jobs : status[j] = "DEAD" <=> cites[j] # NoJob
    /\ \A j \in Jobs : cites[j] # NoJob => escalation[cites[j]] # "ABSENT"

OneActiveEscalation ==
    /\ \A j, k \in Jobs : escalation[j] = "OPEN" /\ escalation[k] = "OPEN" => j = k
    /\ (\E j \in Jobs : escalation[j] = "OPEN") \/ conflict => work.state = "ESCALATED"

\* The invariant that is inductive, with CancelTypeOK.
CancelInv ==
    /\ TasksAreTrue /\ DeadJobsCite /\ OneActiveEscalation
    /\ AnchorIsLive /\ CancelledIsFinal /\ ProjectionIsTrue

USE CancellationAssumption

-----------------------------------------------------------------------------
(* The composition and the ledger.                                         *)

\* A reactor loses its tasks: what a dead letter whose versions moved does
\* beyond the statements of the ledger.
DropTasks(r) == tasks' = [tasks EXCEPT ![r] = {}] /\ UNCHANGED <<jobVars, effect>>

\* A step of the composition is a step of the ledger, or loses tasks.
LEMMA CancelStepsLedger ==
    [CancelNext]_allVars => [Next]_vars \/ \E r \in Reactors : DropTasks(r)
<1> SUFFICES ASSUME [CancelNext]_allVars PROVE [Next]_vars \/ \E r \in Reactors : DropTasks(r)
  OBVIOUS
<1>1. CASE UNCHANGED vars
  BY <1>1
<1>2. ASSUME NEW j \in Jobs, Time(j) \/ CancelWorkItem(j) PROVE Next
  BY <1>2 DEF Time, CancelWorkItem, Next, TimeStep
<1>3. CASE EnqueueDelivery
  BY <1>3 DEF EnqueueDelivery, Next, TimeStep
<1>4. CASE RemoteAdvances
  BY <1>1, <1>4 DEF RemoteAdvances
<1>5. ASSUME NEW r \in Reactors, ClaimJobs(r) \/ Aborts(r) PROVE Next
  BY <1>5 DEF ClaimJobs, Aborts, Next, ClaimStep
<1>6. ASSUME NEW r \in Reactors, NEW c \in tasks[r], Renew(r, c) PROVE Next
  BY <1>6 DEF Renew, Next, HolderStep
<1>7. ASSUME NEW r \in Reactors, NEW c \in tasks[r], HandlerStep(r, c)
      PROVE  [Next]_vars \/ DropTasks(r)
  <2>1. CASE DeadLetterConflicts(r, c)
    BY <2>1 DEF DeadLetterConflicts, DropTasks
  <2>2. ASSUME HolderStep(r, c) PROVE Next
    BY <2>2 DEF Next
  <2>3. ASSUME NEW N \in SUBSET Jobs,
               CompleteJob(r, c, N) \/ ObserveEffect(r, c, CancelEffect, N)
        PROVE  HolderStep(r, c)
    BY <2>3 DEF HolderStep
  <2>4. CASE DeliveryCompletes(r, c) \/ CommitRequested(r, c) \/ CommitCancelled(r, c)
             \/ CommitConflict(r, c)
    <3>1. {} \in SUBSET Jobs /\ {ObserverJob} \in SUBSET Jobs
      OBVIOUS
    <3> QED BY <2>2, <2>3, <2>4, <3>1 DEF DeliveryCompletes, CommitRequested, CommitCancelled,
                                          CommitConflict, CompleteCancellation
  <2>5. CASE GapEscalates(r, c) \/ RetryJob(r, c) \/ DeadLetterJob(r, c) \/ Refused(r, c)
             \/ PrepareEffect(r, c) \/ RecordFailure(r, c, "refused", "FAILED")
             \/ RecordFailure(r, c, "unsure", "AMBIGUOUS")
    BY <2>2, <2>5 DEF GapEscalates, RetryJob, DeadLetterJob, Refused, PrepareEffect,
                      RecordFailure, HolderStep
  <2>6. CASE UNCHANGED vars
    BY <2>6
  <2> QED BY <1>7, <2>1, <2>4, <2>5, <2>6
          DEF HandlerStep, DeliveryFails, PrepareObservation, PrepareFails, ReadBefore,
              RequestCancel, ResendCancel, ReadAfter, RecordFailureLost, ReceiptRejected,
              CommitFails, Observe, ObserveProgress, ReadFences
<1> QED BY <1>1, <1>2, <1>3, <1>4, <1>5, <1>6, <1>7 DEF CancelNext, allVars

\* The ledger's own invariant survives the composition.
LEMMA LedgerInvariantStep == IInv /\ [CancelNext]_allVars => IInv'
<1> SUFFICES ASSUME IInv, [CancelNext]_allVars PROVE IInv'
  OBVIOUS
<1>1. CASE [Next]_vars
  BY <1>1, InvStep
<1>2. ASSUME NEW r \in Reactors, DropTasks(r) PROVE IInv'
  <2>1. /\ UNCHANGED <<status, attempts, fence, owner, lease, due, effect>>
        /\ tasks' \in [Reactors -> SUBSET Claim]
        /\ \A q \in Reactors : tasks'[q] \subseteq tasks[q]
    BY <1>2 DEF DropTasks, jobVars, IInv, TypeOK
  <2>2. TypeOK' /\ InFlightCitesExactClaim'
    BY <2>1 DEF IInv, TypeOK, InFlightCitesExactClaim
  <2>3. FencesArePast' /\ ClaimsAreUnique' /\ AttemptsArePast' /\ AttemptBudget'
    BY <2>1 DEF IInv, FencesArePast, ClaimsAreUnique, AttemptsArePast, AttemptBudget
  <2> QED BY <2>2, <2>3 DEF IInv
<1> QED BY <1>1, <1>2, CancelStepsLedger

\* Fences, attempts and the exact-claim foreign key hold here too, with the
\* cancellation's statements in place of the generic ones.
THEOREM CancellationKeepsLedger == CancelSpec => []IInv
<1>1. CancelInit => IInv
  BY InitInv DEF CancelInit
<1> QED BY <1>1, LedgerInvariantStep, PTL DEF CancelSpec

-----------------------------------------------------------------------------
(* Types.                                                                  *)

\* What a task can be set to.
LEMMA TaskTypes ==
    ASSUME NEW phase \in Phase
    PROVE  /\ TaskAt(phase) \in Task
           /\ \A s \in RemotePhase : [TaskAt(phase) EXCEPT !.seen = s] \in Task
           /\ \A n \in Nat : [TaskAt(phase) EXCEPT !.read = n] \in Task
BY DEF TaskAt, Task

\* A handler moves one task.
LEMMA GotoMoves ==
    ASSUME CancelTypeOK, NEW r \in Reactors, NEW c \in tasks[r], NEW phase \in Phase,
           Goto(r, c, phase)
    PROVE  /\ task' \in [Reactors -> [Jobs -> Task]]
           /\ task'[r][c.job] = TaskAt(phase)
           /\ \A q \in Reactors, k \in Jobs : q # r \/ k # c.job => task'[q][k] = task[q][k]
<1>1. TaskAt(phase) \in Task /\ task' = [task EXCEPT ![r][c.job] = TaskAt(phase)]
  BY TaskTypes DEF Goto
<1>2. c.job \in Jobs
  BY DEF CancelTypeOK, TypeOK, Claim
<1> QED BY <1>1, <1>2 DEF CancelTypeOK

LEMMA LookMoves ==
    ASSUME CancelTypeOK, NEW r \in Reactors, NEW c \in tasks[r], NEW phase \in Phase,
           LookAt(r, c, phase)
    PROVE  /\ task' \in [Reactors -> [Jobs -> Task]]
           /\ task'[r][c.job] = [TaskAt(phase) EXCEPT !.seen = remote]
           /\ \A q \in Reactors, k \in Jobs : q # r \/ k # c.job => task'[q][k] = task[q][k]
<1> DEFINE t == [TaskAt(phase) EXCEPT !.seen = remote]
<1>1. t \in Task
  BY TaskTypes DEF CancelTypeOK
<1>2. task' = [task EXCEPT ![r][c.job] = t]
  BY DEF LookAt
<1> HIDE DEF t
<1>3. /\ task' \in [Reactors -> [Jobs -> Task]]
      /\ task'[r][c.job] = t
      /\ \A q \in Reactors, k \in Jobs : q # r \/ k # c.job => task'[q][k] = task[q][k]
  <2>1. c.job \in Jobs
    BY DEF CancelTypeOK, TypeOK, Claim
  <2> QED BY <1>1, <1>2, <2>1 DEF CancelTypeOK
<1> QED BY <1>3 DEF t

\* A reactor's tasks are dropped, or start afresh with a claim.
LEMMA AbandonMoves ==
    ASSUME CancelTypeOK, NEW r \in Reactors, Abandon(r)
    PROVE  /\ task' \in [Reactors -> [Jobs -> Task]]
           /\ \A q \in Reactors, k \in Jobs :
                  task'[q][k] = task[q][k] \/ task'[q][k] = TaskAt("idle")
<1>1. TaskAt("idle") \in Task
  BY TaskTypes DEF Phase
<1> QED BY <1>1 DEF Abandon, CancelTypeOK

LEMMA ClaimMoves ==
    ASSUME CancelTypeOK, NEW r \in Reactors, ClaimJobs(r)
    PROVE  /\ task' \in [Reactors -> [Jobs -> Task]]
           /\ \A q \in Reactors, k \in Jobs :
                  \/ task'[q][k] = task[q][k]
                  \/ \E phase \in {"error", "start", "idle"} : task'[q][k] = TaskAt(phase)
<1> DEFINE new(j) == CASE \E c \in tasks'[r] : c.job = j /\ c.doomed -> "error"
                       [] \E c \in tasks'[r] : c.job = j /\ ~c.doomed -> "start"
                       [] OTHER -> "idle"
<1>1. \A j \in Jobs : new(j) \in {"error", "start", "idle"}
  OBVIOUS
<1>2. task' = [task EXCEPT ![r] = [j \in Jobs |-> TaskAt(new(j))]]
  BY DEF ClaimJobs
<1> HIDE DEF new
<1>3. \A j \in Jobs : TaskAt(new(j)) \in Task
  BY <1>1, TaskTypes DEF Phase
<1> QED BY <1>1, <1>2, <1>3 DEF CancelTypeOK

LEMMA ReadFencesMoves ==
    ASSUME CancelTypeOK, NEW r \in Reactors, NEW c \in tasks[r], ReadFences(r, c)
    PROVE  /\ task' \in [Reactors -> [Jobs -> Task]]
           /\ \A q \in Reactors, k \in Jobs :
                  \/ task'[q][k] = task[q][k]
                  \/ task'[q][k].at = "fence" /\ task'[q][k].seen = "none"
<1> DEFINE t == [TaskAt("fence") EXCEPT !.read = work.version]
<1>1. t \in Task /\ t.at = "fence" /\ t.seen = "none"
  BY DEF CancelTypeOK, TaskAt, Task, Phase
<1>2. task' = [task EXCEPT ![r][c.job] = t]
  BY DEF ReadFences
<1>3. c.job \in Jobs
  BY DEF CancelTypeOK, TypeOK, Claim
<1> HIDE DEF t
<1> QED BY <1>1, <1>2, <1>3 DEF CancelTypeOK

\* A dead letter is owned by the active escalation, or opens one.
LEMMA OwnerIsJob ==
    ASSUME CancelTypeOK, NEW j \in Jobs
    PROVE  /\ OwnerOf(j) \in Jobs
           /\ \/ OwnerOf(j) = j /\ \A k \in Jobs : escalation[k] # "OPEN"
              \/ escalation[OwnerOf(j)] = "OPEN"
<1>1. CASE OpenEscalations = {}
  BY <1>1 DEF OwnerOf, OpenEscalations
<1>2. CASE OpenEscalations # {}
  <2>1. (CHOOSE k \in OpenEscalations : TRUE) \in OpenEscalations
    BY <1>2
  <2> QED BY <1>2, <2>1 DEF OwnerOf, OpenEscalations
<1> QED BY <1>1, <1>2

\* What an escalating transaction leaves behind, o owning the dead job.
EscalatesTo(o, j) ==
    /\ \/ o = j /\ \A k \in Jobs : escalation[k] # "OPEN"
       \/ escalation[o] = "OPEN"
    /\ escalation' \in [Jobs -> {"ABSENT", "OPEN", "CANCELLED"}]
    /\ escalation'[o] = "OPEN"
    /\ \A k \in Jobs \ {o} : escalation'[k] = escalation[k]
    /\ cites' \in [Jobs -> Jobs \cup {NoJob}]
    /\ cites'[j] = o
    /\ \A k \in Jobs \ {j} : cites'[k] = cites[k]
    /\ anchor' = [kind |-> "ESCALATION", ref |-> o]
    /\ work' = Moved("ESCALATED")
    /\ flow' \in [delivery : {"NONE", "ACTIVE", "WAITING"},
                  cancellation : {"ABSENT", "ACTIVE", "WAITING", "CANCELLED"}]
    /\ UNCHANGED <<conflict, run, tail, remote, expected>>

LEMMA EscalateRows ==
    ASSUME CancelTypeOK, NEW r \in Reactors, NEW c \in tasks[r], Escalate(r, c)
    PROVE  \E o \in Jobs : EscalatesTo(o, c.job)
<1>1. c.job \in Jobs
  BY DEF CancelTypeOK, TypeOK, Claim
<1> DEFINE o == OwnerOf(c.job)
<1>2. /\ o \in Jobs
      /\ \/ o = c.job /\ \A k \in Jobs : escalation[k] # "OPEN"
         \/ escalation[o] = "OPEN"
  BY <1>1, OwnerIsJob
<1>3. /\ escalation' = [escalation EXCEPT ![o] = "OPEN"]
      /\ cites' = [cites EXCEPT ![c.job] = o]
      /\ anchor' = [kind |-> "ESCALATION", ref |-> o]
      /\ work' = Moved("ESCALATED")
      /\ UNCHANGED <<conflict, run, tail, remote, expected>>
  BY DEF Escalate
<1>4. flow' \in [delivery : {"NONE", "ACTIVE", "WAITING"},
                 cancellation : {"ABSENT", "ACTIVE", "WAITING", "CANCELLED"}]
  BY DEF Escalate, CancelTypeOK
<1> HIDE DEF o
<1>5. /\ escalation' \in [Jobs -> {"ABSENT", "OPEN", "CANCELLED"}]
      /\ escalation'[o] = "OPEN"
      /\ \A k \in Jobs \ {o} : escalation'[k] = escalation[k]
  BY <1>2, <1>3 DEF CancelTypeOK
<1>6. /\ cites' \in [Jobs -> Jobs \cup {NoJob}]
      /\ cites'[c.job] = o
      /\ \A k \in Jobs \ {c.job} : cites'[k] = cites[k]
  BY <1>1, <1>2, <1>3 DEF CancelTypeOK
<1> QED BY <1>2, <1>3, <1>4, <1>5, <1>6 DEF EscalatesTo

\* Steps that leave the work item's rows alone.
LEMMA QuietTypes ==
    ASSUME CancelTypeOK, TypeOK', UNCHANGED <<ledgerVars, expected>>,
           remote' \in RemotePhase, task' \in [Reactors -> [Jobs -> Task]]
    PROVE  CancelTypeOK'
BY DEF CancelTypeOK, ledgerVars

\* Handler steps that move only the task and Runmill.
TaskOnly(r, c) ==
    \/ DeliveryCompletes(r, c) \/ DeliveryFails(r, c) \/ RetryJob(r, c)
    \/ PrepareObservation(r, c) \/ PrepareEffect(r, c) \/ PrepareFails(r, c)
    \/ ReadBefore(r, c) \/ RequestCancel(r, c) \/ ResendCancel(r, c) \/ ReadAfter(r, c)
    \/ RecordFailure(r, c, "refused", "FAILED")
    \/ RecordFailure(r, c, "unsure", "AMBIGUOUS")
    \/ RecordFailureLost(r, c) \/ ReceiptRejected(r, c) \/ CommitFails(r, c)
    \/ Observe(r, c)

LEMMA HandlerMoves ==
    ASSUME CancelTypeOK, NEW r \in Reactors, NEW c \in tasks[r], TaskOnly(r, c)
    PROVE  /\ UNCHANGED <<ledgerVars, expected>>
           /\ remote' \in RemotePhase
           /\ remote \in TerminalPhase => remote' = remote
           /\ \/ \E phase \in Phase \ {"commit", "observe", "observed"} : Goto(r, c, phase)
              \/ EffectStatusNow = "OBSERVED" /\ Goto(r, c, "observe") /\ UNCHANGED vars
              \/ LookAt(r, c, "commit") /\ UNCHANGED <<vars, remote>>
              \/ At(r, c, "observe") /\ LookAt(r, c, "observed") /\ UNCHANGED <<vars, remote>>
<1>1. /\ UNCHANGED <<ledgerVars, expected>>
      /\ remote' = remote \/ remote' \in {remote, Cancelling}
  BY DEF TaskOnly, DeliveryCompletes, DeliveryFails, RetryJob, PrepareObservation,
         PrepareEffect, PrepareFails, ReadBefore, RequestCancel, ResendCancel, ReadAfter, RecordFailure,
         RecordFailureLost, ReceiptRejected, CommitFails, Observe
<1>2. remote' \in RemotePhase /\ (remote \in TerminalPhase => remote' = remote)
  BY <1>1 DEF Cancelling, CancelTypeOK, RemotePhase, TerminalPhase
<1>3. CASE DeliveryCompletes(r, c) \/ DeliveryFails(r, c) \/ RetryJob(r, c)
           \/ PrepareEffect(r, c) \/ PrepareFails(r, c)
           \/ ReadBefore(r, c) \/ RequestCancel(r, c) \/ ResendCancel(r, c)
           \/ RecordFailure(r, c, "refused", "FAILED")
           \/ RecordFailure(r, c, "unsure", "AMBIGUOUS")
           \/ RecordFailureLost(r, c) \/ ReceiptRejected(r, c) \/ CommitFails(r, c)
  <2>1. \E phase \in {"idle", "error", "read", "request", "refused", "answered", "resend",
                      "unsure", "rejected"} : Goto(r, c, phase)
    BY <1>3 DEF DeliveryCompletes, DeliveryFails, RetryJob, PrepareEffect,
         PrepareFails, ReadBefore, RequestCancel, ResendCancel, RecordFailure,
         RecordFailureLost, ReceiptRejected, CommitFails
  <2> QED BY <1>1, <1>2, <2>1 DEF Phase
<1>4. CASE PrepareObservation(r, c)
  BY <1>1, <1>2, <1>4 DEF PrepareObservation
<1>5. CASE ReadAfter(r, c) \/ Observe(r, c)
  <2>1. \/ Goto(r, c, "unsure") \/ Goto(r, c, "error")
        \/ LookAt(r, c, "commit") /\ UNCHANGED <<vars, remote>>
        \/ At(r, c, "observe") /\ LookAt(r, c, "observed") /\ UNCHANGED <<vars, remote>>
    BY <1>5 DEF ReadAfter, Observe
  <2> QED BY <1>1, <1>2, <2>1 DEF Phase
<1> QED BY <1>3, <1>4, <1>5 DEF TaskOnly

\* Every step keeps the types.
LEMMA CancelTypeStep == IInv /\ CancelTypeOK /\ [CancelNext]_allVars => CancelTypeOK'
<1> SUFFICES ASSUME IInv, CancelTypeOK, [CancelNext]_allVars PROVE CancelTypeOK'
  OBVIOUS
<1>0. TypeOK'
  BY LedgerInvariantStep DEF IInv
<1>1. work.version \in Nat /\ work.version + 1 \in Nat
  BY DEF CancelTypeOK
<1>2. ASSUME UNCHANGED cancelVars PROVE CancelTypeOK'
  BY <1>0, <1>2, QuietTypes DEF cancelVars, CancelTypeOK
<1>3. CASE RemoteAdvances
  <2>1. remote' \in RemotePhase
    BY <1>3 DEF RemoteAdvances, RemotePhase, TerminalPhase
  <2>2. UNCHANGED <<ledgerVars, expected, task>>
    BY <1>3 DEF RemoteAdvances
  <2> QED BY <1>0, <2>1, <2>2, QuietTypes DEF CancelTypeOK
<1>4. ASSUME NEW j \in Jobs, CancelWorkItem(j) PROVE CancelTypeOK'
  <2>1. work' \in [state : {"RUNNING", "CANCEL_REQUESTED", "ESCALATED", "CANCELLED"},
                   version : Nat]
    BY <1>1, <1>4 DEF CancelWorkItem, Moved
  <2>2. flow' \in [delivery : {"NONE", "ACTIVE", "WAITING"},
                   cancellation : {"ABSENT", "ACTIVE", "WAITING", "CANCELLED"}]
    BY <1>4 DEF CancelWorkItem, CancelTypeOK
  <2>3. escalation' \in [Jobs -> {"ABSENT", "OPEN", "CANCELLED"}]
    BY <1>4 DEF CancelWorkItem, CancelTypeOK
  <2>4. expected' \in [Jobs -> Nat]
    BY <1>1, <1>4 DEF CancelWorkItem, CancelTypeOK
  <2>5. anchor' \in [kind : {"RUN", "WORKFLOW", "ESCALATION", "CONFLICT", "CANCELLATION"},
                     ref : Jobs \cup {NoJob}]
    BY <1>4 DEF CancelWorkItem
  <2>6. UNCHANGED <<cites, conflict, run, tail, remote, task>>
    BY <1>4 DEF CancelWorkItem
  <2> QED BY <1>0, <2>1, <2>2, <2>3, <2>4, <2>5, <2>6 DEF CancelTypeOK
<1>5. ASSUME NEW r \in Reactors, Abandon(r) PROVE CancelTypeOK'
  BY <1>0, <1>5, AbandonMoves, QuietTypes DEF Abandon, CancelTypeOK
<1>6. ASSUME NEW r \in Reactors, ClaimJobs(r) PROVE CancelTypeOK'
  BY <1>0, <1>6, ClaimMoves, QuietTypes DEF ClaimJobs, CancelTypeOK
<1>7. ASSUME NEW r \in Reactors, NEW c \in tasks[r], HandlerStep(r, c) PROVE CancelTypeOK'
  <2>0. c.job \in Jobs
    BY DEF CancelTypeOK, TypeOK, Claim
  <2>1. CASE TaskOnly(r, c)
    <3>1. UNCHANGED <<ledgerVars, expected>> /\ remote' \in RemotePhase
      BY <2>1, HandlerMoves
    <3>2. task' \in [Reactors -> [Jobs -> Task]]
      <4>1. \/ \E phase \in Phase : Goto(r, c, phase)
            \/ \E phase \in Phase : LookAt(r, c, phase)
        BY <2>1, HandlerMoves DEF Phase
      <4>2. ASSUME NEW phase \in Phase, Goto(r, c, phase) PROVE task' \in [Reactors -> [Jobs -> Task]]
        BY <4>2, GotoMoves
      <4>3. ASSUME NEW phase \in Phase, LookAt(r, c, phase) PROVE task' \in [Reactors -> [Jobs -> Task]]
        BY <4>3, LookMoves
      <4> QED BY <4>1, <4>2, <4>3
    <3> QED BY <1>0, <3>1, <3>2, QuietTypes
  <2>2. CASE ReadFences(r, c)
    BY <1>0, <2>2, ReadFencesMoves, QuietTypes DEF ReadFences, CancelTypeOK
  <2>3. CASE Escalate(r, c)
    <3>1. task' \in [Reactors -> [Jobs -> Task]]
      BY <2>3, GotoMoves DEF Escalate, Phase
    <3>2. PICK o \in Jobs : EscalatesTo(o, c.job)
      BY <2>3, EscalateRows
    <3>3. work' \in [state : {"RUNNING", "CANCEL_REQUESTED", "ESCALATED", "CANCELLED"},
                     version : Nat]
      BY <1>1, <3>2 DEF EscalatesTo, Moved
    <3> QED BY <1>0, <3>1, <3>2, <3>3 DEF EscalatesTo, CancelTypeOK
  <2>4. CASE ObserveProgress(r, c)
    <3>1. task' \in [Reactors -> [Jobs -> Task]]
      BY <2>4, GotoMoves DEF ObserveProgress, Phase
    <3>2. tail' \in RemotePhase \cup {"none"}
      BY <2>0, <2>4 DEF ObserveProgress, InsertObservation, Seen, CancelTypeOK, Task
    <3>3. UNCHANGED <<work, flow, anchor, escalation, cites, conflict, run, remote, expected>>
      BY <2>4 DEF ObserveProgress, InsertObservation
    <3> QED BY <1>0, <3>1, <3>2, <3>3 DEF CancelTypeOK
  <2>5. CASE CommitRequested(r, c) \/ CommitCancelled(r, c) \/ CommitConflict(r, c)
    <3>1. task' \in [Reactors -> [Jobs -> Task]]
      BY <2>5, GotoMoves DEF CommitRequested, CommitCancelled, CommitConflict, Phase
    <3>2. Seen(r, c) \in RemotePhase \cup {"none"}
      BY <2>0 DEF Seen, CancelTypeOK, Task
    <3>3. tail' \in RemotePhase \cup {"none"} /\ run' \in {"LIVE", "CANCELLED", "FINISHED"}
          /\ conflict' \in BOOLEAN
      BY <2>5, <3>2 DEF CommitRequested, CommitCancelled, CommitConflict,
                        InsertObservation, RaiseConflict, CancelTypeOK,
                        RemotePhase
    <3>4. work' \in [state : {"RUNNING", "CANCEL_REQUESTED", "ESCALATED", "CANCELLED"},
                     version : Nat]
      BY <1>1, <2>5 DEF CommitRequested, CommitCancelled, CommitConflict,
                        InsertObservation, RaiseConflict, Moved
    <3>5. flow' \in [delivery : {"NONE", "ACTIVE", "WAITING"},
                     cancellation : {"ABSENT", "ACTIVE", "WAITING", "CANCELLED"}]
      BY <2>5 DEF CommitRequested, CommitCancelled, CommitConflict,
                  InsertObservation, RaiseConflict, CancelTypeOK
    <3>6. anchor' \in [kind : {"RUN", "WORKFLOW", "ESCALATION", "CONFLICT", "CANCELLATION"},
                       ref : Jobs \cup {NoJob}]
      BY <2>0, <2>5 DEF CommitRequested, CommitCancelled, CommitConflict,
                        InsertObservation, RaiseConflict
    <3>7. expected' \in [Jobs -> Nat]
      BY <1>1, <2>5 DEF CommitRequested, CommitCancelled, CommitConflict,
                        InsertObservation, RaiseConflict, CancelTypeOK
    <3>8. UNCHANGED <<escalation, cites, remote>>
      BY <2>5 DEF CommitRequested, CommitCancelled, CommitConflict,
                  InsertObservation, RaiseConflict
    <3> QED BY <1>0, <3>1, <3>3, <3>4, <3>5, <3>6, <3>7, <3>8 DEF CancelTypeOK
  <2> QED BY <1>5, <1>7, <2>1, <2>2, <2>3, <2>4, <2>5
          DEF HandlerStep, TaskOnly, GapEscalates, DeadLetterJob, DeadLetterConflicts, Refused
<1> QED BY <1>2, <1>3, <1>4, <1>5, <1>6, <1>7
        DEF CancelNext, allVars, Time, EnqueueDelivery, Aborts, Renew

-----------------------------------------------------------------------------
(* The invariant, per kind of step.                                        *)

\* A step of the ledger that settles no cancellation job, kills nothing,
\* starts nothing on a cancelled item and leaves an observed request so.
QuietLedger ==
    /\ \A j \in Jobs :
           /\ work.state = "CANCELLED" /\ status'[j] \in Unsettled => status[j] \in Unsettled
           /\ j # DeliveryJob /\ status[j] \in Unsettled => status'[j] \in Unsettled
           /\ status'[j] = "DEAD" <=> status[j] = "DEAD"
    /\ effect'[CancelEffect].status = "OBSERVED" <=> EffectStatusNow = "OBSERVED"

TerminalStays == remote \in TerminalPhase => remote' = remote

\* Tasks stay true if only fresh ones are moved.
LEMMA TasksStep ==
    ASSUME TasksAreTrue, TerminalStays,
           EffectStatusNow = "OBSERVED" => EffectStatusNow' = "OBSERVED",
           \A r \in Reactors, j \in Jobs : task'[r][j] = task[r][j] \/ TrueTask(r, j)'
    PROVE  TasksAreTrue'
<1> SUFFICES ASSUME NEW r \in Reactors, NEW j \in Jobs, task'[r][j] = task[r][j]
             PROVE  TrueTask(r, j)'
  BY DEF TasksAreTrue
<1>1. TrueTask(r, j)
  BY DEF TasksAreTrue
<1> QED BY <1>1 DEF TrueTask, TerminalStays

\* A phase that neither commits nor observes is true of anything.
LEMMA IdleIsTrue ==
    ASSUME NEW r \in Reactors, NEW j \in Jobs,
           NEW phase \in Phase \ {"commit", "observe", "observed"},
           task'[r][j] = TaskAt(phase)
    PROVE  TrueTask(r, j)'
<1>1. task'[r][j].at = phase /\ task'[r][j].seen = "none"
  BY DEF TaskAt
<1>2. "none" \notin TerminalPhase
  BY DEF TerminalPhase
<1> QED BY <1>1, <1>2 DEF TrueTask

\* A quiet step keeps the invariant.
LEMMA QuietStep ==
    ASSUME CancelTypeOK, CancelInv, QuietLedger, TerminalStays, TasksAreTrue',
           UNCHANGED <<ledgerVars, expected>>
    PROVE  CancelInv'
<1>1. UNCHANGED <<work, flow, anchor, escalation, cites, conflict, run, tail, expected>>
  BY DEF ledgerVars
<1>2. DeadJobsCite' /\ OneActiveEscalation'
  BY <1>1 DEF CancelInv, DeadJobsCite, OneActiveEscalation, QuietLedger
<1>3. AnchorIsLive'
  BY <1>1 DEF CancelInv, AnchorIsLive, QuietLedger
<1>4. CancelledIsFinal'
  <2>1. OpenEscalations' = OpenEscalations
    BY <1>1 DEF OpenEscalations
  <2>2. work.state = "CANCELLED" => remote' = "cancelled"
    BY DEF CancelInv, CancelledIsFinal, TerminalStays, TerminalPhase
  <2> QED BY <1>1, <2>1, <2>2 DEF CancelInv, CancelledIsFinal, QuietLedger, EffectStatusNow
<1>5. ProjectionIsTrue'
  BY <1>1 DEF CancelInv, ProjectionIsTrue, QuietLedger, EffectStatusNow, TerminalStays
<1> QED BY <1>2, <1>3, <1>4, <1>5 DEF CancelInv

\* Claiming is quiet, and so are time, heartbeats and abandoned polls.
LEMMA ClaimIsQuietHere ==
    ASSUME CancelTypeOK, NEW r \in Reactors, ClaimStep(r)
    PROVE  QuietLedger
<1>1. TypeOK
  BY DEF CancelTypeOK
<1>2. PICK S \in SUBSET Jobs, count \in [Jobs -> Nat], d \in BOOLEAN :
          Refence(r, S, count, d) /\ \A j \in S : Due(j)
  BY <1>1, ClaimStepIsRefence
<1>3. \A j \in S : status[j] \in Unsettled
  BY <1>2 DEF Due, Expired, Unsettled
<1>4. \A j \in Jobs : status'[j] = status[j] \/ (j \in S /\ status'[j] = "RUNNING")
  BY <1>2 DEF Refence
<1>5. effect'[CancelEffect].status = "OBSERVED" <=> EffectStatusNow = "OBSERVED"
  BY <1>2 DEF Refence, ReleasedEffects, Unowned, EffectStatusNow
<1> QED BY <1>3, <1>4, <1>5 DEF QuietLedger, Unsettled

\* What a settling transaction does to the jobs.
LEMMA SettleJobs ==
    ASSUME CancelTypeOK, NEW r \in Reactors, NEW c \in tasks[r], NEW s \in JobStatus,
           NEW N \in SUBSET Jobs, Settle(r, c, s, N)
    PROVE  /\ c.job \in Jobs /\ c.job \notin N
           /\ status[c.job] = "RUNNING" /\ status'[c.job] = s
           /\ \A j \in N : status[j] = "ABSENT" /\ status'[j] = "PENDING"
           /\ \A j \in Jobs \ (N \cup {c.job}) : status'[j] = status[j]
<1>1. c.job \in Jobs
  BY DEF CancelTypeOK, TypeOK, Claim
<1> QED BY <1>1 DEF Settle, LiveClaim

\* The handler's steps between its transactions.
LEMMA TaskOnlyStep ==
    ASSUME CancelTypeOK, CancelInv, NEW r \in Reactors, NEW c \in tasks[r], TaskOnly(r, c)
    PROVE  CancelInv'
<1>0. c.job \in Jobs /\ TypeOK
  BY DEF CancelTypeOK, TypeOK, Claim
<1>1. QuietLedger
  <2>1. CASE DeliveryCompletes(r, c) \/ RetryJob(r, c)
    <3>1. PICK s \in {"COMPLETED", "RETRY"} :
              /\ Settle(r, c, s, {}) /\ UNCHANGED effect
              /\ c.job = DeliveryJob \/ s = "RETRY"
      BY <2>1 DEF DeliveryCompletes, RetryJob, CompleteJob, FailJob
    <3>2. /\ status[c.job] = "RUNNING" /\ status'[c.job] = s
          /\ \A j \in Jobs \ {c.job} : status'[j] = status[j]
      BY <3>1, SettleJobs DEF JobStatus
    <3> QED BY <3>1, <3>2 DEF QuietLedger, Unsettled, EffectStatusNow
  <2>2. CASE PrepareEffect(r, c)
    <3>1. BeginEffect(r, c, CancelEffect)
      BY <2>2 DEF PrepareEffect
    <3>2. UNCHANGED status /\ EffectStatusNow # "OBSERVED"
          /\ effect'[CancelEffect].status = "IN_FLIGHT"
      BY <1>0, <3>1 DEF BeginEffect, Adoptable, jobVars, EffectStatusNow, TypeOK
    <3> QED BY <3>2 DEF QuietLedger
  <2>3. CASE RecordFailure(r, c, "refused", "FAILED") \/ RecordFailure(r, c, "unsure", "AMBIGUOUS")
    <3>1. PICK s \in {"FAILED", "AMBIGUOUS"} : ReleaseEffect(r, c, CancelEffect, s)
      BY <2>3 DEF RecordFailure
    <3>2. UNCHANGED status /\ EffectStatusNow = "IN_FLIGHT"
          /\ effect'[CancelEffect].status = s
      BY <1>0, <3>1 DEF ReleaseEffect, OwnsEffect, Unowned, jobVars, EffectStatusNow, TypeOK
    <3> QED BY <3>2 DEF QuietLedger
  <2>4. CASE UNCHANGED vars
    BY <2>4 DEF vars, QuietLedger, EffectStatusNow
  <2> QED BY <2>1, <2>2, <2>3, <2>4
          DEF TaskOnly, DeliveryFails, PrepareObservation, PrepareFails, ReadBefore,
              RequestCancel, ResendCancel, ReadAfter, RecordFailureLost, ReceiptRejected,
              CommitFails, Observe
<1>2. /\ UNCHANGED <<ledgerVars, expected>> /\ TerminalStays
      /\ EffectStatusNow = "OBSERVED" => EffectStatusNow' = "OBSERVED"
  BY <1>1, HandlerMoves DEF TerminalStays, QuietLedger, EffectStatusNow
<1>3. TasksAreTrue'
  <2>1. ASSUME NEW phase \in Phase \ {"commit", "observe", "observed"}, Goto(r, c, phase)
        PROVE  TasksAreTrue'
    <3>1. TrueTask(r, c.job)'
      BY <1>0, <2>1, GotoMoves, IdleIsTrue
    <3> QED BY <1>2, <2>1, <3>1, GotoMoves, TasksStep DEF CancelInv
  <2>2. CASE EffectStatusNow = "OBSERVED" /\ Goto(r, c, "observe") /\ UNCHANGED vars
    <3>1. TrueTask(r, c.job)'
      BY <1>2, <2>2, GotoMoves DEF TrueTask, TaskAt, TerminalPhase, Phase
    <3> QED BY <1>2, <2>2, <3>1, GotoMoves, TasksStep DEF CancelInv, Phase
  <2>3. ASSUME NEW phase \in {"commit", "observed"}, LookAt(r, c, phase),
               UNCHANGED <<vars, remote>>,
               phase = "commit" \/ At(r, c, "observe")
        PROVE  TasksAreTrue'
    <3>1. /\ task'[r][c.job] = [TaskAt(phase) EXCEPT !.seen = remote]
          /\ \A q \in Reactors, k \in Jobs : q # r \/ k # c.job => task'[q][k] = task[q][k]
      BY <2>3, LookMoves DEF Phase
    <3>2. task'[r][c.job].at = phase /\ task'[r][c.job].seen = remote
      BY <3>1 DEF TaskAt
    <3>3. phase = "observed" => EffectStatusNow = "OBSERVED"
      BY <1>0, <2>3 DEF At, CancelInv, TasksAreTrue, TrueTask
    <3>4. remote # "none"
      BY DEF CancelTypeOK, RemotePhase
    <3>5. TrueTask(r, c.job)'
      BY <1>2, <2>3, <3>2, <3>3, <3>4 DEF TrueTask
    <3> QED BY <1>2, <3>1, <3>5, TasksStep DEF CancelInv
  <2> QED BY <2>1, <2>2, <2>3, HandlerMoves
<1> QED BY <1>1, <1>2, <1>3, QuietStep

\* Polls that end, and claims.
LEMMA PollStep ==
    ASSUME CancelTypeOK, CancelInv, NEW r \in Reactors,
           ClaimJobs(r) \/ (Abandon(r) /\ UNCHANGED <<jobVars, effect>>)
    PROVE  CancelInv'
<1>1. UNCHANGED <<ledgerVars, expected>> /\ TerminalStays
  BY DEF ClaimJobs, Abandon, TerminalStays
<1>2. QuietLedger
  <2>1. CASE ClaimJobs(r)
    BY <2>1, ClaimIsQuietHere DEF ClaimJobs, ClaimStep
  <2>2. CASE UNCHANGED <<jobVars, effect>>
    BY <2>2 DEF jobVars, QuietLedger, EffectStatusNow
  <2> QED BY <2>1, <2>2
<1>3. TasksAreTrue'
  <2>1. \A q \in Reactors, k \in Jobs :
            \/ task'[q][k] = task[q][k]
            \/ \E phase \in {"error", "start", "idle"} : task'[q][k] = TaskAt(phase)
    BY ClaimMoves, AbandonMoves
  <2>2. \A q \in Reactors, k \in Jobs : task'[q][k] = task[q][k] \/ TrueTask(q, k)'
    BY <2>1, IdleIsTrue DEF Phase
  <2>3. EffectStatusNow = "OBSERVED" => EffectStatusNow' = "OBSERVED"
    BY <1>2 DEF QuietLedger, EffectStatusNow
  <2> QED BY <1>1, <2>2, <2>3, TasksStep DEF CancelInv
<1> QED BY <1>1, <1>2, <1>3, QuietStep

\* The unlocked read of the versions.
LEMMA ReadFencesStep ==
    ASSUME CancelTypeOK, CancelInv, NEW r \in Reactors, NEW c \in tasks[r], ReadFences(r, c)
    PROVE  CancelInv'
<1>1. UNCHANGED <<vars, ledgerVars, expected, remote>>
  BY DEF ReadFences
<1>2. QuietLedger /\ TerminalStays
  BY <1>1 DEF vars, QuietLedger, EffectStatusNow, TerminalStays
<1>3. \A q \in Reactors, k \in Jobs : task'[q][k] = task[q][k] \/ TrueTask(q, k)'
  BY ReadFencesMoves DEF TrueTask, TerminalPhase
<1>4. TasksAreTrue'
  BY <1>1, <1>2, <1>3, TasksStep DEF CancelInv, EffectStatusNow, vars
<1> QED BY <1>1, <1>2, <1>4, QuietStep

\* The exhausted job, or the gap: the escalation and the DEAD job together.
LEMMA EscalateStep ==
    ASSUME CancelTypeOK, CancelInv, NEW r \in Reactors, NEW c \in tasks[r],
           DeadLetter(r, c) \/ FailTerminally(r, c), Escalate(r, c)
    PROVE  CancelInv'
<1>1. Settle(r, c, "DEAD", {}) /\ UNCHANGED effect
  BY DEF DeadLetter, FailTerminally
<1>2. /\ c.job \in Jobs /\ status[c.job] = "RUNNING" /\ status'[c.job] = "DEAD"
      /\ \A j \in Jobs \ {c.job} : status'[j] = status[j]
  BY <1>1, SettleJobs DEF JobStatus
<1>3. PICK o \in Jobs : EscalatesTo(o, c.job)
  BY EscalateRows
<1>4. work'.state = "ESCALATED"
  BY <1>3 DEF EscalatesTo, Moved
<1>5. TasksAreTrue'
  <2>1. Goto(r, c, "idle")
    BY DEF Escalate
  <2>2. TrueTask(r, c.job)'
    BY <1>2, <2>1, GotoMoves, IdleIsTrue DEF Phase
  <2>3. \A q \in Reactors, k \in Jobs : task'[q][k] = task[q][k] \/ TrueTask(q, k)'
    BY <2>1, <2>2, GotoMoves DEF Phase
  <2> QED BY <1>1, <1>3, <2>3, TasksStep
           DEF EscalatesTo, CancelInv, TerminalStays, EffectStatusNow
<1>6. DeadJobsCite'
  <2>1. \A j \in Jobs : status'[j] = "DEAD" <=> cites'[j] # NoJob
    BY <1>2, <1>3, NullsAssumption DEF EscalatesTo, CancelInv, DeadJobsCite
  <2>2. \A j \in Jobs : cites'[j] # NoJob => escalation'[cites'[j]] # "ABSENT"
    BY <1>2, <1>3 DEF EscalatesTo, CancelInv, DeadJobsCite
  <2> QED BY <2>1, <2>2 DEF DeadJobsCite
<1>7. OneActiveEscalation'
  BY <1>3, <1>4 DEF EscalatesTo, CancelInv, OneActiveEscalation
<1>8. AnchorIsLive' /\ CancelledIsFinal'
  BY <1>3, <1>4 DEF EscalatesTo, AnchorIsLive, CancelledIsFinal
<1>9. ProjectionIsTrue'
  BY <1>1, <1>3 DEF EscalatesTo, CancelInv, ProjectionIsTrue, EffectStatusNow
<1> QED BY <1>5, <1>6, <1>7, <1>8, <1>9 DEF CancelInv

\* A task that ends with its transaction.
LEMMA EndedTask ==
    ASSUME CancelTypeOK, CancelInv, NEW r \in Reactors, NEW c \in tasks[r],
           NEW phase \in {"idle", "error"}, Goto(r, c, phase), UNCHANGED remote,
           EffectStatusNow = "OBSERVED" => EffectStatusNow' = "OBSERVED"
    PROVE  TasksAreTrue'
<1>1. c.job \in Jobs /\ phase \in Phase \ {"commit", "observe", "observed"}
  BY DEF CancelTypeOK, TypeOK, Claim, Phase
<1>2. TrueTask(r, c.job)'
  BY <1>1, GotoMoves, IdleIsTrue
<1>3. \A q \in Reactors, k \in Jobs : task'[q][k] = task[q][k] \/ TrueTask(q, k)'
  BY <1>1, <1>2, GotoMoves
<1> QED BY <1>3, TasksStep DEF CancelInv, TerminalStays

\* The observer's progress: only the last observation moves.
LEMMA ProgressStep ==
    ASSUME CancelTypeOK, CancelInv, NEW r \in Reactors, NEW c \in tasks[r],
           ObserveProgress(r, c)
    PROVE  CancelInv'
<1>1. /\ UNCHANGED <<status, effect>>
      /\ UNCHANGED <<work, flow, anchor, escalation, cites, conflict, run, remote, expected>>
      /\ work.state = "CANCEL_REQUESTED" /\ run = "LIVE"
      /\ tail' = task[r][c.job].seen /\ tail' \notin TerminalPhase
      /\ task[r][c.job].at = "observed" /\ Goto(r, c, "error")
  BY DEF ObserveProgress, InsertObservation, vars, Bound, Seen, At
<1>2. c.job \in Jobs
  BY DEF CancelTypeOK, TypeOK, Claim
<1>3. tail' # "none" /\ EffectStatusNow = "OBSERVED"
  BY <1>1, <1>2 DEF CancelInv, TasksAreTrue, TrueTask
<1>4. TasksAreTrue'
  BY <1>1, EndedTask DEF EffectStatusNow
<1>5. DeadJobsCite' /\ OneActiveEscalation' /\ AnchorIsLive' /\ CancelledIsFinal'
  BY <1>1 DEF CancelInv, DeadJobsCite, OneActiveEscalation, AnchorIsLive, CancelledIsFinal
<1>6. ProjectionIsTrue'
  BY <1>1, <1>3 DEF ProjectionIsTrue, EffectStatusNow
<1> QED BY <1>4, <1>5, <1>6 DEF CancelInv

\* A commit settles its own job and leaves the request observed; a bound item
\* has no open escalation.
LEMMA CommitFacts ==
    ASSUME CancelTypeOK, CancelInv, NEW r \in Reactors, NEW c \in tasks[r],
           NEW N \in SUBSET Jobs, Bound(r, c),
           \/ ObserveEffect(r, c, CancelEffect, N)
           \/ CompleteJob(r, c, N) /\ EffectStatusNow = "OBSERVED"
    PROVE  /\ c.job \in Jobs /\ c.job \notin N /\ status'[c.job] = "COMPLETED"
           /\ status[c.job] = "RUNNING"
           /\ \A j \in N : status[j] = "ABSENT" /\ status'[j] = "PENDING"
           /\ \A j \in Jobs \ (N \cup {c.job}) : status'[j] = status[j]
           /\ \A j \in Jobs : status'[j] = "DEAD" <=> status[j] = "DEAD"
           /\ EffectStatusNow' = "OBSERVED"
           /\ \A j \in Jobs : escalation[j] # "OPEN"
           /\ ~conflict
<1>1. Settle(r, c, "COMPLETED", N)
  BY DEF ObserveEffect, CompleteJob
<1>2. /\ c.job \in Jobs /\ c.job \notin N /\ status'[c.job] = "COMPLETED"
      /\ status[c.job] = "RUNNING"
      /\ \A j \in N : status[j] = "ABSENT" /\ status'[j] = "PENDING"
      /\ \A j \in Jobs \ (N \cup {c.job}) : status'[j] = status[j]
  BY <1>1, SettleJobs DEF JobStatus
<1>3. \A j \in Jobs : status'[j] = "DEAD" <=> status[j] = "DEAD"
  BY <1>2
<1>4. EffectStatusNow' = "OBSERVED"
  BY DEF ObserveEffect, CompleteJob, EffectStatusNow, Unowned, CancelTypeOK, TypeOK
<1>5. (\A j \in Jobs : escalation[j] # "OPEN") /\ ~conflict
  BY DEF Bound, CancelInv, OneActiveEscalation, CancelTypeOK
<1> QED BY <1>2, <1>3, <1>4, <1>5

\* The request is observed and an observer takes over.
LEMMA RequestedStep ==
    ASSUME CancelTypeOK, CancelInv, NEW r \in Reactors, NEW c \in tasks[r],
           CommitRequested(r, c)
    PROVE  CancelInv'
<1> DEFINE N == {ObserverJob}
<1>1. /\ Bound(r, c) /\ ObserveEffect(r, c, CancelEffect, N)
      /\ run = "LIVE" /\ UNCHANGED <<escalation, cites, conflict, run, remote>>
      /\ tail' = task[r][c.job].seen /\ tail' \notin TerminalPhase
      /\ task[r][c.job].at = "commit" /\ Goto(r, c, "idle")
  BY DEF CommitRequested, InsertObservation, Bound, Seen, At
<1>2. N \in SUBSET Jobs /\ ObserverJob \in Jobs \ {DeliveryJob}
  OBVIOUS
<1>3. /\ c.job \in Jobs /\ status'[ObserverJob] = "PENDING"
      /\ \A j \in Jobs : status'[j] = "DEAD" <=> status[j] = "DEAD"
      /\ EffectStatusNow' = "OBSERVED"
      /\ \A j \in Jobs : escalation[j] # "OPEN"
      /\ ~conflict
  BY <1>1, <1>2, CommitFacts
<1>4. work'.state = "CANCEL_REQUESTED" /\ expected'[ObserverJob] = work'.version
      /\ anchor'.kind = "WORKFLOW"
  BY <1>2 DEF CommitRequested, InsertObservation, Moved, CancelTypeOK
<1>5. TasksAreTrue'
  BY <1>1, <1>3, EndedTask
<1>6. DeadJobsCite' /\ OneActiveEscalation'
  BY <1>1, <1>3 DEF CancelInv, DeadJobsCite, OneActiveEscalation
<1>7. AnchorIsLive' /\ CancelledIsFinal'
  BY <1>2, <1>3, <1>4 DEF AnchorIsLive, CancelledIsFinal, Unsettled
<1>8. tail' # "none"
  BY <1>1, <1>3 DEF CancelInv, TasksAreTrue, TrueTask
<1>9. ProjectionIsTrue'
  BY <1>1, <1>3, <1>8 DEF ProjectionIsTrue
<1> QED BY <1>5, <1>6, <1>7, <1>9 DEF CancelInv

\* The terminal commits.
LEMMA TerminalStep ==
    ASSUME CancelTypeOK, CancelInv, NEW r \in Reactors, NEW c \in tasks[r],
           CommitCancelled(r, c) \/ CommitConflict(r, c)
    PROVE  CancelInv'
<1>1. /\ Bound(r, c) /\ AtTerminal(r, c) /\ CompleteCancellation(r, c)
      /\ UNCHANGED <<escalation, cites, remote>> /\ Goto(r, c, "idle")
      /\ tail' = task[r][c.job].seen /\ tail' \in TerminalPhase /\ run' # "LIVE"
  BY DEF CommitCancelled, CommitConflict, RaiseConflict, Seen, TerminalPhase
<1>2. \/ ObserveEffect(r, c, CancelEffect, {})
      \/ CompleteJob(r, c, {}) /\ EffectStatusNow = "OBSERVED"
  BY <1>1 DEF CompleteCancellation, AtTerminal, At
<1>3. /\ c.job \in Jobs /\ status'[c.job] = "COMPLETED"
      /\ \A j \in Jobs \ {c.job} : status'[j] = status[j]
      /\ \A j \in Jobs : status'[j] = "DEAD" <=> status[j] = "DEAD"
      /\ EffectStatusNow' = "OBSERVED"
      /\ \A j \in Jobs : escalation[j] # "OPEN"
      /\ ~conflict
  <2>1. {} \in SUBSET Jobs
    OBVIOUS
  <2> QED BY <1>1, <1>2, <2>1, CommitFacts
<1>4. remote' = tail'
  BY <1>1, <1>3 DEF CancelInv, TasksAreTrue, TrueTask
<1>5. TasksAreTrue'
  BY <1>1, <1>3, EndedTask
<1>6. DeadJobsCite'
  BY <1>1, <1>3 DEF CancelInv, DeadJobsCite
<1>7. ProjectionIsTrue'
  BY <1>1, <1>3, <1>4 DEF ProjectionIsTrue, TerminalPhase
<1>8. OneActiveEscalation' /\ AnchorIsLive' /\ CancelledIsFinal'
  <2>1. CASE CommitConflict(r, c)
    <3>1. conflict' /\ anchor'.kind = "CONFLICT" /\ work'.state = "ESCALATED"
      BY <2>1 DEF CommitConflict, RaiseConflict, Moved
    <3> QED BY <1>1, <1>3, <3>1 DEF OneActiveEscalation, AnchorIsLive, CancelledIsFinal
  <2>2. CASE CommitCancelled(r, c)
    <3>1. ~conflict' /\ work'.state = "CANCELLED" /\ run' = "CANCELLED" /\ tail' = "cancelled"
      BY <1>3, <2>2 DEF CommitCancelled, Moved
    <3>2. flow'.cancellation = "CANCELLED" /\ flow'.delivery \notin LiveFlow
      BY <2>2 DEF CommitCancelled, NoLiveAuthority, CancelTypeOK
    <3>3. \A j \in Jobs : status'[j] \notin Unsettled
      BY <1>3, <2>2 DEF CommitCancelled, NoLiveAuthority, Unsettled
    <3>4. OpenEscalations' = {}
      BY <1>1, <1>3 DEF OpenEscalations
    <3> QED BY <1>1, <1>3, <1>4, <3>1, <3>2, <3>3, <3>4
            DEF OneActiveEscalation, AnchorIsLive, CancelledIsFinal
  <2> QED BY <2>1, <2>2
<1> QED BY <1>5, <1>6, <1>7, <1>8 DEF CancelInv

\* The API call: a new job for the version it creates, old escalations closed.
LEMMA CancelCallStep ==
    ASSUME CancelTypeOK, CancelInv, NEW j \in Jobs, CancelWorkItem(j)
    PROVE  CancelInv'
<1>1. /\ UNCHANGED <<effect, cites, conflict, run, tail, remote, task>> /\ ~conflict
      /\ status[j] = "ABSENT" /\ j \in RequestJobs
      /\ work'.state = "CANCEL_REQUESTED" /\ anchor'.kind = "WORKFLOW"
  BY DEF CancelWorkItem, EnqueueJob, Moved
<1>2. status'[j] = "PENDING" /\ \A k \in Jobs \ {j} : status'[k] = status[k]
  BY DEF CancelWorkItem, EnqueueJob, CancelTypeOK, TypeOK
<1>3. expected'[j] = work'.version /\ j \in Jobs \ {DeliveryJob}
  BY <1>1 DEF CancelWorkItem, Moved, CancelTypeOK
<1>4. \A k \in Jobs : /\ escalation'[k] # "OPEN"
                      /\ escalation[k] # "ABSENT" => escalation'[k] # "ABSENT"
  BY DEF CancelWorkItem, CancelTypeOK
<1>5. TasksAreTrue' /\ ProjectionIsTrue'
  BY <1>1 DEF CancelInv, TasksAreTrue, TrueTask, ProjectionIsTrue, EffectStatusNow
<1>6. DeadJobsCite'
  <2>1. \A k \in Jobs : status'[k] = "DEAD" <=> status[k] = "DEAD"
    BY <1>1, <1>2
  <2> QED BY <1>1, <1>4, <2>1 DEF CancelInv, DeadJobsCite, CancelTypeOK
<1>7. OneActiveEscalation' /\ AnchorIsLive' /\ CancelledIsFinal'
  BY <1>1, <1>2, <1>3, <1>4 DEF OneActiveEscalation, AnchorIsLive, CancelledIsFinal, Unsettled
<1> QED BY <1>5, <1>6, <1>7 DEF CancelInv

\* Every step keeps the invariant.
LEMMA CancelStep == CancelTypeOK /\ CancelInv /\ [CancelNext]_allVars => CancelInv'
<1> SUFFICES ASSUME CancelTypeOK, CancelInv, [CancelNext]_allVars PROVE CancelInv'
  OBVIOUS
<1>0. TypeOK
  BY DEF CancelTypeOK
<1>1. ASSUME QuietLedger, UNCHANGED cancelVars PROVE CancelInv'
  <2>1. UNCHANGED <<ledgerVars, expected, remote, task>> /\ TerminalStays
    BY <1>1 DEF cancelVars, TerminalStays
  <2>2. TasksAreTrue'
    BY <1>1, <2>1, TasksStep DEF CancelInv, QuietLedger, EffectStatusNow
  <2> QED BY <1>1, <2>1, <2>2, QuietStep
<1>2. CASE UNCHANGED allVars
  <2>1. QuietLedger /\ UNCHANGED cancelVars
    BY <1>2 DEF allVars, vars, QuietLedger, EffectStatusNow
  <2> QED BY <1>1, <2>1
<1>3. ASSUME NEW j \in Jobs, Time(j) PROVE CancelInv'
  <2>1. UNCHANGED <<status, effect, cancelVars>>
    BY <1>3 DEF Time, BecomeDue, LeaseTick
  <2> QED BY <1>1, <2>1 DEF QuietLedger, EffectStatusNow
<1>4. CASE EnqueueDelivery
  <2>1. /\ UNCHANGED <<effect, cancelVars>> /\ work.state # "CANCELLED"
        /\ status[DeliveryJob] = "ABSENT" /\ status'[DeliveryJob] = "PENDING"
        /\ \A k \in Jobs \ {DeliveryJob} : status'[k] = status[k]
    BY <1>0, <1>4 DEF EnqueueDelivery, EnqueueJob, TypeOK
  <2>2. QuietLedger
    BY <2>1 DEF QuietLedger, EffectStatusNow
  <2> QED BY <1>1, <2>1, <2>2
<1>5. CASE RemoteAdvances
  <2>1. UNCHANGED <<vars, ledgerVars, expected, task>> /\ TerminalStays
    BY <1>5 DEF RemoteAdvances, TerminalStays, TerminalPhase
  <2>2. QuietLedger /\ EffectStatusNow' = EffectStatusNow
    BY <2>1 DEF vars, QuietLedger, EffectStatusNow
  <2>3. TasksAreTrue'
    BY <2>1, <2>2, TasksStep DEF CancelInv
  <2> QED BY <2>1, <2>2, <2>3, QuietStep
<1>6. ASSUME NEW r \in Reactors, ClaimJobs(r) \/ Aborts(r) PROVE CancelInv'
  BY <1>6, PollStep DEF Aborts, PollAborts
<1>7. ASSUME NEW r \in Reactors, NEW c \in tasks[r], Renew(r, c) PROVE CancelInv'
  <2>1. UNCHANGED <<status, effect, cancelVars>>
    BY <1>7 DEF Renew, RenewJobLease
  <2> QED BY <1>1, <2>1 DEF QuietLedger, EffectStatusNow
<1>8. ASSUME NEW r \in Reactors, NEW c \in tasks[r], HandlerStep(r, c) PROVE CancelInv'
  <2>1. CASE DeadLetterConflicts(r, c) \/ Refused(r, c)
    BY <2>1, PollStep DEF DeadLetterConflicts, Refused, ClaimRefused
  <2>2. CASE GapEscalates(r, c) \/ DeadLetterJob(r, c)
    BY <2>2, EscalateStep DEF GapEscalates, DeadLetterJob
  <2> QED BY <1>8, <2>1, <2>2, TaskOnlyStep, ReadFencesStep, ProgressStep, RequestedStep,
             TerminalStep DEF HandlerStep, TaskOnly
<1> QED BY <1>2, <1>3, <1>4, <1>5, <1>6, <1>7, <1>8, CancelCallStep DEF CancelNext

LEMMA CancelInitially == CancelInit => CancelTypeOK /\ CancelInv
<1> SUFFICES ASSUME CancelInit PROVE CancelTypeOK /\ CancelInv
  OBVIOUS
<1>1. TypeOK /\ EffectStatusNow = "ABSENT" /\ \A j \in Jobs : status[j] = "ABSENT"
  BY InitType DEF CancelInit, Init, EffectStatusNow, Unowned
<1>2. TaskAt("idle") \in Task
  BY TaskTypes DEF Phase
<1>3. /\ work.state = "RUNNING" /\ remote = "running" /\ run = "LIVE" /\ tail = "none"
      /\ conflict = FALSE /\ \A j \in Jobs : escalation[j] = "ABSENT" /\ cites[j] = NoJob
      /\ \A r \in Reactors, j \in Jobs : task[r][j] = TaskAt("idle")
  BY DEF CancelInit
<1>4. CancelTypeOK
  <2>1. flow \in [delivery : {"NONE", "ACTIVE", "WAITING"},
                  cancellation : {"ABSENT", "ACTIVE", "WAITING", "CANCELLED"}]
    BY DEF CancelInit
  <2>2. /\ work \in [state : {"RUNNING", "CANCEL_REQUESTED", "ESCALATED", "CANCELLED"},
                     version : Nat]
        /\ anchor \in [kind : {"RUN", "WORKFLOW", "ESCALATION", "CONFLICT", "CANCELLATION"},
                       ref : Jobs \cup {NoJob}]
    BY DEF CancelInit
  <2>3. /\ escalation \in [Jobs -> {"ABSENT", "OPEN", "CANCELLED"}]
        /\ cites \in [Jobs -> Jobs \cup {NoJob}]
        /\ expected \in [Jobs -> Nat]
        /\ task \in [Reactors -> [Jobs -> Task]]
    BY <1>2 DEF CancelInit
  <2> QED BY <1>1, <1>3, <2>1, <2>2, <2>3 DEF CancelTypeOK, RemotePhase
<1>5. TasksAreTrue
  BY <1>3 DEF TasksAreTrue, TrueTask, TaskAt, TerminalPhase
<1>6. DeadJobsCite /\ OneActiveEscalation /\ AnchorIsLive /\ CancelledIsFinal
  BY <1>1, <1>3 DEF DeadJobsCite, OneActiveEscalation, AnchorIsLive, CancelledIsFinal
<1>7. ProjectionIsTrue
  BY <1>1, <1>3 DEF ProjectionIsTrue, TerminalPhase
<1> QED BY <1>4, <1>5, <1>6, <1>7 DEF CancelInv

-----------------------------------------------------------------------------
(* The theorems.                                                           *)

\* The inductive invariant of cancelling, with the ledger's.
THEOREM CancellationInvariant == CancelSpec => [](CancelTypeOK /\ CancelInv)
<1>1. CancelInit => CancelTypeOK /\ CancelInv
  BY CancelInitially
<1>2. IInv /\ CancelTypeOK /\ CancelInv /\ [CancelNext]_allVars => (CancelTypeOK /\ CancelInv)'
  BY CancelTypeStep, CancelStep
<1> QED BY <1>1, <1>2, CancellationKeepsLedger, PTL DEF CancelSpec

\* Someone is always accountable: a job that can still act on this version of
\* a CANCEL_REQUESTED item, an open escalation for an ESCALATED one.
THEOREM SomeoneIsAccountable == CancelSpec => []AnchorIsLive
<1>1. CancelInv => AnchorIsLive
  BY DEF CancelInv
<1> QED BY <1>1, CancellationInvariant, PTL

\* Every dead job cites an escalation, and an item has at most one active one,
\* however many jobs of the attempt die and in whatever order.
THEOREM DeadWorkStaysOwned == CancelSpec => []DeadWorkIsOwned
<1>1. CancelTypeOK /\ CancelInv => DeadWorkIsOwned
  <2> SUFFICES ASSUME CancelTypeOK, CancelInv PROVE DeadWorkIsOwned
    OBVIOUS
  <2>1. Cardinality(OpenEscalations) <= 1
    <3>1. CASE OpenEscalations = {}
      BY <3>1, FS_EmptySet
    <3>2. ASSUME NEW k \in OpenEscalations PROVE Cardinality(OpenEscalations) = 1
      <4>1. OpenEscalations = {k}
        BY <3>2 DEF CancelInv, OneActiveEscalation, OpenEscalations
      <4> QED BY <4>1, FS_Singleton
    <3> QED BY <3>1, <3>2
  <2>2. OpenEscalations # {} \/ conflict => work.state = "ESCALATED"
    BY DEF CancelInv, OneActiveEscalation, OpenEscalations
  <2> QED BY <2>1, <2>2 DEF CancelInv, DeadJobsCite, DeadWorkIsOwned
<1> QED BY <1>1, CancellationInvariant, PTL

\* A CANCELLED item was cancelled by Runmill and has nothing live left, in
\* every later state too.
THEOREM CancelledStaysTrue == CancelSpec => []CancelledIsFinal
<1>1. CancelInv => CancelledIsFinal
  BY DEF CancelInv
<1> QED BY <1>1, CancellationInvariant, PTL

\* The ledger's projection of the run never runs ahead of Runmill.
THEOREM ProjectionStaysTrue == CancelSpec => []ProjectionIsTrue
<1>1. CancelInv => ProjectionIsTrue
  BY DEF CancelInv
<1> QED BY <1>1, CancellationInvariant, PTL
=============================================================================
