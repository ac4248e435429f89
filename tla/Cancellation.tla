---------------------------- MODULE Cancellation ----------------------------
(***************************************************************************)
(* Cancelling a work item whose attempt has a live Runmill run: the API    *)
(* call, the REQUEST_WORK_ITEM_CANCELLATION activity and its observer, the *)
(* dead-letter path that escalates the work item, an operator's renewed    *)
(* cancellation, and the Runmill service itself.                           *)
(*                                                                         *)
(* Every transaction below that changes the workflow's version or fence or *)
(* the anchor's generation also increments the work item's version, so the *)
(* one version work.version stands for the four that a step compares.      *)
(***************************************************************************)
EXTENDS JobLedger

CONSTANTS
    RequestJobs,    \* one REQUEST_WORK_ITEM_CANCELLATION job per API call
    ObserverJob,    \* derived_uuid(effect_id, 5), observe_only
    DeliveryJob,    \* a job of the delivery workflow (OBSERVE_RUNMILL_RUN)
    CancelEffect,   \* the one request_cancellation intent of the attempt
    DeliveryStates  \* initial states of the WORK_ITEM_DELIVERY workflow

ASSUME CancellationAssumption ==
    /\ Jobs = RequestJobs \cup {ObserverJob, DeliveryJob}
    /\ ObserverJob \notin RequestJobs
    /\ DeliveryJob \notin RequestJobs \cup {ObserverJob}
    /\ Effects = {CancelEffect}
    /\ DeliveryStates \subseteq {"NONE", "ACTIVE"}

VARIABLES
    work,       \* work_items: [state, version]
    flow,       \* workflow_instances.state, per workflow type
    anchor,     \* accountability_anchors: [kind, ref]
    escalation, \* [Jobs -> EscalationStatus]: WORKFLOW_JOB_EXHAUSTED, by opener
    cites,      \* [Jobs -> Jobs \cup {NoJob}]: dead_letter_escalation_id
    conflict,   \* a REMOTE_EFFECT_AMBIGUOUS escalation is open
    run,        \* the authoritative run as the ledger knows it
    tail,       \* external phase of the last cancellation observation
    remote,     \* the run as Runmill knows it
    expected,   \* [Jobs -> Nat]: expected_version of a cancellation payload
    task        \* [Reactors -> [Jobs -> Task]]: where the claim's task stands

ledgerVars == <<work, flow, anchor, escalation, cites, conflict, run, tail>>
cancelVars == <<ledgerVars, remote, expected, task>>
allVars == <<vars, cancelVars>>

RemotePhase == {"running", "cancelling", "cancelled", "finished"}
TerminalPhase == {"cancelled", "finished"}
LiveFlow == {"ACTIVE", "WAITING"}
Unsettled == {"PENDING", "RUNNING", "RETRY"}

\* idle: no task.  start: handler about to run.  read, request, resend,
\* answered, commit: the request path of execute_inner.  observe, observed:
\* the observer path.  refused, unsure: a failure to be recorded on the
\* effect.  rejected: the terminal receipt was refused at commit.  error:
\* execute returned Err or Retry.  fence: dead_letter_work_item_claim has
\* read the versions it will compare.
Phase == {"idle", "start", "read", "request", "resend", "answered", "commit",
          "observe", "observed", "refused", "unsure", "rejected", "error", "fence"}

\* seen: the phase the last read of the run returned.  read: the work-item
\* version a dead letter will compare.
Task == [at : Phase, seen : RemotePhase \cup {"none"}, read : Nat]
TaskAt(phase) == [at |-> phase, seen |-> "none", read |-> 0]

CancelInit ==
    /\ Init
    /\ work = [state |-> "RUNNING", version |-> 1]
    /\ \E d \in DeliveryStates : flow = [delivery |-> d, cancellation |-> "ABSENT"]
    /\ anchor = [kind |-> "RUN", ref |-> NoJob]
    /\ escalation = [j \in Jobs |-> "ABSENT"]
    /\ cites = [j \in Jobs |-> NoJob]
    /\ conflict = FALSE
    /\ run = "LIVE"
    /\ tail = "none"
    /\ remote = "running"
    /\ expected = [j \in Jobs |-> 0]
    /\ task = [r \in Reactors |-> [j \in Jobs |-> TaskAt("idle")]]

At(r, c, phase) == c \in tasks[r] /\ task[r][c.job].at = phase
Goto(r, c, phase) == task' = [task EXCEPT ![r][c.job] = TaskAt(phase)]
Seen(r, c) == task[r][c.job].seen
LookAt(r, c, phase) ==
    task' = [task EXCEPT ![r][c.job] = [TaskAt(phase) EXCEPT !.seen = remote]]
Moved(s) == [state |-> s, version |-> work.version + 1]
EffectStatusNow == effect[CancelEffect].status

\* lock_cancellation_claim_and_binding: a live claim, the work item still
\* CANCEL_REQUESTED at exactly the version the job was made for, its workflow
\* and its run live.
Bound(r, c) ==
    /\ LiveClaim(r, c)
    /\ work.state = "CANCEL_REQUESTED"
    /\ work.version = expected[c.job]
    /\ flow.cancellation \in LiveFlow
    /\ run = "LIVE"

----------------------------------------------------------------------------
(* The API.                                                                *)

OpenEscalations == {j \in Jobs : escalation[j] = "OPEN"}

\* cancel_work_item, for a work item with a live run.  An ESCALATED item must
\* be anchored to its one active exhaustion escalation, which the call closes.
CancelWorkItem(j) ==
    /\ j \in RequestJobs
    /\ run = "LIVE"
    /\ flow.cancellation \in {"ABSENT"} \cup LiveFlow
    /\ ~conflict
    /\ \/ work.state = "RUNNING" /\ OpenEscalations = {}
       \/ /\ work.state = "ESCALATED"
          /\ anchor.kind = "ESCALATION"
          /\ OpenEscalations = {anchor.ref}
    /\ EnqueueJob(j)
    /\ expected' = [expected EXCEPT ![j] = work.version + 1]
    /\ escalation' = [k \in Jobs |->
           IF escalation[k] = "OPEN" THEN "CANCELLED" ELSE escalation[k]]
    /\ flow' = [flow EXCEPT !.cancellation = IF @ = "ABSENT" THEN "ACTIVE" ELSE @]
    /\ anchor' = [kind |-> "WORKFLOW", ref |-> NoJob]
    /\ work' = Moved("CANCEL_REQUESTED")
    /\ UNCHANGED <<cites, conflict, run, tail, remote, task>>

\* Another activity of the delivery workflow enqueues its next job, which the
\* authority guard refuses once a CANCELLED receipt has frozen it.
EnqueueDelivery ==
    /\ flow.delivery \in LiveFlow
    /\ work.state # "CANCELLED"
    /\ EnqueueJob(DeliveryJob)
    /\ UNCHANGED cancelVars

----------------------------------------------------------------------------
(* The reactor.                                                            *)

\* A claim starts its handler, or its dead-lettering if it is doomed.
ClaimJobs(r) ==
    /\ ClaimReadyJobs(r) \/ \E j \in Jobs : ClaimOrphanedExhausted(r, j)
    /\ task' = [task EXCEPT ![r] = [j \in Jobs |->
           TaskAt(CASE \E c \in tasks'[r] : c.job = j /\ c.doomed -> "error"
                    [] \E c \in tasks'[r] : c.job = j /\ ~c.doomed -> "start"
                    [] OTHER -> "idle")]]
    /\ UNCHANGED <<ledgerVars, remote, expected>>

Abandon(r) ==
    /\ task' = [task EXCEPT ![r] = [j \in Jobs |-> TaskAt("idle")]]
    /\ UNCHANGED <<ledgerVars, remote, expected>>

Aborts(r) == PollAborts(r) /\ Abandon(r)

\* The claim is gone, or the effect it left IN_FLIGHT refuses the failure.
Refused(r, c) ==
    /\ ~LiveClaim(r, c) \/ At(r, c, "error") \/ At(r, c, "rejected")
    /\ ClaimRefused(r, c)
    /\ Abandon(r)

RetryJob(r, c) ==
    /\ At(r, c, "error") \/ At(r, c, "rejected")
    /\ FailJob(r, c)
    /\ Goto(r, c, "idle")
    /\ UNCHANGED <<ledgerVars, remote, expected>>

\* A delivery activity that needs no further work-item change.
DeliveryCompletes(r, c) ==
    /\ c.job = DeliveryJob
    /\ At(r, c, "start")
    /\ CompleteJob(r, c, {})
    /\ Goto(r, c, "idle")
    /\ UNCHANGED <<ledgerVars, remote, expected>>

DeliveryFails(r, c) ==
    /\ c.job = DeliveryJob
    /\ At(r, c, "start")
    /\ Goto(r, c, "error")
    /\ UNCHANGED <<vars, ledgerVars, remote, expected>>

\* dead_letter_work_item_claim reads the versions without locking them.
ReadFences(r, c) ==
    /\ At(r, c, "error") \/ At(r, c, "rejected")
    /\ c.attempt >= MaxAttempts[c.job]
    /\ task' = [task EXCEPT ![r][c.job] = [TaskAt("fence") EXCEPT !.read = work.version]]
    /\ UNCHANGED <<vars, ledgerVars, remote, expected>>

\* Fault: each exhausted job opens an escalation of its own.
OwnerOfItself(j) == j

\* The escalation a dead letter opens, or the active one it adopts.
OwnerOf(j) == IF OpenEscalations = {} THEN j ELSE CHOOSE k \in OpenEscalations : TRUE

\* Fault: an exhausted cancellation job cannot escalate its own item.
EscalateOnlyRunning(r, c) ==
    /\ work.state \in {"RUNNING", "ESCALATED"}
    /\ escalation' = [escalation EXCEPT ![OwnerOf(c.job)] = "OPEN"]
    /\ cites' = [cites EXCEPT ![c.job] = OwnerOf(c.job)]
    /\ anchor' = [kind |-> "ESCALATION", ref |-> OwnerOf(c.job)]
    /\ work' = Moved("ESCALATED")
    /\ flow' = [flow EXCEPT !.cancellation = "WAITING"]
    /\ Goto(r, c, "idle")
    /\ UNCHANGED <<conflict, run, tail, remote, expected>>

\* fail_workflow_step: the escalation, the ESCALATED work item, the waiting
\* workflow, the anchor and the DEAD job are one transaction.
Escalate(r, c) ==
    LET owning == OwnerOf(c.job)
    IN  /\ work.state \in {"RUNNING", "CANCEL_REQUESTED", "ESCALATED"}
        /\ escalation' = [escalation EXCEPT ![owning] = "OPEN"]
        /\ cites' = [cites EXCEPT ![c.job] = owning]
        /\ anchor' = [kind |-> "ESCALATION", ref |-> owning]
        /\ work' = Moved("ESCALATED")
        /\ flow' = IF c.job = DeliveryJob THEN [flow EXCEPT !.delivery = "WAITING"]
                                          ELSE [flow EXCEPT !.cancellation = "WAITING"]
        /\ Goto(r, c, "idle")
        /\ UNCHANGED <<conflict, run, tail, remote, expected>>

DeadLetterJob(r, c) ==
    /\ At(r, c, "fence")
    /\ work.version = task[r][c.job].read
    /\ DeadLetter(r, c)
    /\ Escalate(r, c)

\* ... or another transaction moved the work item after the read: the error
\* ends the poll and the job waits for its lease to expire.
DeadLetterConflicts(r, c) ==
    /\ At(r, c, "fence")
    /\ work.version # task[r][c.job].read \/ Citing(c.job) # {}
    /\ tasks' = [tasks EXCEPT ![r] = {}]
    /\ Abandon(r)
    /\ UNCHANGED <<jobVars, effect>>

\* persist_gap_escalation: the observer of the run meets a compacted event
\* gap and fails its own job terminally, versions read under its locks.
GapEscalates(r, c) ==
    /\ c.job = DeliveryJob
    /\ At(r, c, "start")
    /\ FailTerminally(r, c)
    /\ Escalate(r, c)

----------------------------------------------------------------------------
(* execute_inner of the cancellation handler: the request path.            *)

Cancels(c) == c.job # DeliveryJob

\* Observe only, or the request was already observed: prepare_cancellation_
\* observation.
PrepareObservation(r, c) ==
    /\ Cancels(c)
    /\ At(r, c, "start")
    /\ Bound(r, c)
    /\ EffectStatusNow = "OBSERVED"
    /\ Goto(r, c, "observe")
    /\ UNCHANGED <<vars, ledgerVars, remote, expected>>

\* persist_or_adopt_effect_intent: the intent is inserted, or adopted from a
\* claim that is not live, always with its first request.
PrepareEffect(r, c) ==
    /\ c.job \in RequestJobs
    /\ At(r, c, "start")
    /\ Bound(r, c)
    /\ BeginEffect(r, c, CancelEffect)
    /\ Goto(r, c, "read")
    /\ UNCHANGED <<ledgerVars, remote, expected>>

\* The binding changed, the intent is owned by a live claim, or a fault.
PrepareFails(r, c) ==
    /\ Cancels(c)
    /\ At(r, c, "start")
    /\ Goto(r, c, "error")
    /\ UNCHANGED <<vars, ledgerVars, remote, expected>>

ReadBefore(r, c) ==
    /\ At(r, c, "read")
    /\ \E phase \in {"request", "refused"} : Goto(r, c, phase)
    /\ UNCHANGED <<vars, ledgerVars, remote, expected>>

\* Runmill fences the run on the first request and answers the existing
\* record, or the terminal state, afterwards.
Cancelling == IF remote = "running" THEN "cancelling" ELSE remote

\* request_cancel: answered, refused before any effect, or the outcome is
\* ambiguous, in which case the unchanged request is sent once more.
RequestCancel(r, c) ==
    /\ At(r, c, "request")
    /\ \/ remote' = Cancelling /\ Goto(r, c, "answered")
       \/ remote' = remote /\ Goto(r, c, "refused")
       \/ remote' \in {remote, Cancelling} /\ Goto(r, c, "resend")
    /\ UNCHANGED <<vars, ledgerVars, expected>>

ResendCancel(r, c) ==
    /\ At(r, c, "resend")
    /\ \/ remote' = Cancelling /\ Goto(r, c, "answered")
       \/ remote' \in {remote, Cancelling} /\ Goto(r, c, "unsure")
    /\ UNCHANGED <<vars, ledgerVars, expected>>

\* The follow-up read decides the route of the commit.
ReadAfter(r, c) ==
    /\ At(r, c, "answered")
    /\ LookAt(r, c, "commit") \/ Goto(r, c, "unsure")
    /\ UNCHANGED <<vars, ledgerVars, remote, expected>>

\* update_effect_failure: only while this claim is live and owns the intent.
RecordFailure(r, c, phase, s) ==
    /\ At(r, c, phase)
    /\ LiveClaim(r, c)
    /\ ReleaseEffect(r, c, CancelEffect, s)
    /\ Goto(r, c, "error")
    /\ UNCHANGED <<ledgerVars, remote, expected>>

RecordFailureLost(r, c) ==
    /\ At(r, c, "refused") \/ At(r, c, "unsure")
    /\ Goto(r, c, "error")
    /\ UNCHANGED <<vars, ledgerVars, remote, expected>>

----------------------------------------------------------------------------
(* persist_cancellation.                                                   *)

\* insert_cancellation_observation: the chain of observations ends in the
\* phase this task read.
InsertObservation(r, c) == tail' = Seen(r, c)

\* ensure_terminal_conflict_escalation: opened, or merged into the active one.
RaiseConflict == conflict' = TRUE

\* insert_runmill_cancellation_terminal_receipt: CANCELLED without a conflict
\* escalation, TERMINAL_CONFLICT with one, and nothing else is written.
TerminalReceipt(r, c) == (Seen(r, c) = "cancelled") <=> ~conflict'

\* Fault: the observer is bound to the version its creator read.
CommitRequestedStale(r, c) ==
    /\ At(r, c, "commit")
    /\ Bound(r, c)
    /\ Seen(r, c) \notin TerminalPhase
    /\ OwnsEffect(r, c, CancelEffect)
    /\ ObserveEffect(r, c, CancelEffect, {ObserverJob})
    /\ InsertObservation(r, c)
    /\ work' = Moved("CANCEL_REQUESTED")
    /\ flow' = [flow EXCEPT !.cancellation = "WAITING"]
    /\ anchor' = [kind |-> "WORKFLOW", ref |-> NoJob]
    /\ expected' = [expected EXCEPT ![ObserverJob] = work.version]
    /\ Goto(r, c, "idle")
    /\ UNCHANGED <<escalation, cites, conflict, run, remote>>

\* The run is not terminal yet: the request is observed and a dedicated
\* observer takes over, bound to the version this commit creates.
CommitRequested(r, c) ==
    /\ At(r, c, "commit")
    /\ Bound(r, c)
    /\ Seen(r, c) \notin TerminalPhase
    /\ OwnsEffect(r, c, CancelEffect)
    /\ ObserveEffect(r, c, CancelEffect, {ObserverJob})
    /\ InsertObservation(r, c)
    /\ work' = Moved("CANCEL_REQUESTED")
    /\ flow' = [flow EXCEPT !.cancellation = "WAITING"]
    /\ anchor' = [kind |-> "WORKFLOW", ref |-> NoJob]
    /\ expected' = [expected EXCEPT ![ObserverJob] = work.version + 1]
    /\ Goto(r, c, "idle")
    /\ UNCHANGED <<escalation, cites, conflict, run, remote>>

\* A task with a terminal snapshot in hand, on either path.
AtTerminal(r, c) ==
    /\ Seen(r, c) \in TerminalPhase
    /\ \/ At(r, c, "commit") /\ OwnsEffect(r, c, CancelEffect)
       \/ At(r, c, "observed") /\ EffectStatusNow = "OBSERVED"

\* The job's own completion: its intent is observed now, or was before.
CompleteCancellation(r, c) ==
    \/ At(r, c, "commit") /\ ObserveEffect(r, c, CancelEffect, {})
    \/ At(r, c, "observed") /\ CompleteJob(r, c, {})

\* Fault: the receipt's proof looks at escalations only.
NoLiveEscalation(c) == OpenEscalations = {} /\ ~conflict

\* asf_terminal_work_has_no_live_authority, as the deferred receipt proof
\* evaluates it after the step's own changes.
NoLiveAuthority(c) ==
    /\ flow.delivery \notin LiveFlow
    /\ \A j \in Jobs \ {c.job} : status[j] \notin Unsettled
    /\ OpenEscalations = {} /\ ~conflict

CommitCancelled(r, c) ==
    /\ AtTerminal(r, c)
    /\ Seen(r, c) = "cancelled"
    /\ Bound(r, c)
    /\ NoLiveAuthority(c)
    /\ CompleteCancellation(r, c)
    /\ run' = "CANCELLED"
    /\ tail' = "cancelled"
    /\ work' = Moved("CANCELLED")
    /\ flow' = [flow EXCEPT !.cancellation = "CANCELLED"]
    /\ anchor' = [kind |-> "CANCELLATION", ref |-> c.job]
    /\ Goto(r, c, "idle")
    /\ UNCHANGED <<escalation, cites, conflict, remote, expected>>
    /\ TerminalReceipt(r, c)

\* The receipt's proof fails at COMMIT, the transaction rolls back, and
\* execute returns the error without touching the effect.
ReceiptRejected(r, c) ==
    /\ AtTerminal(r, c)
    /\ Seen(r, c) = "cancelled"
    /\ Bound(r, c)
    /\ ~NoLiveAuthority(c)
    /\ Goto(r, c, "rejected")
    /\ UNCHANGED <<vars, ledgerVars, remote, expected>>

\* TERMINAL_CONFLICT: the run ended some other way before the cancellation.
CommitConflict(r, c) ==
    /\ AtTerminal(r, c)
    /\ Seen(r, c) = "finished"
    /\ Bound(r, c)
    /\ CompleteCancellation(r, c)
    /\ run' = "FINISHED"
    /\ tail' = "finished"
    /\ RaiseConflict
    /\ work' = Moved("ESCALATED")
    /\ flow' = [flow EXCEPT !.cancellation = "WAITING"]
    /\ anchor' = [kind |-> "CONFLICT", ref |-> NoJob]
    /\ Goto(r, c, "idle")
    /\ UNCHANGED <<escalation, cites, remote, expected>>
    /\ TerminalReceipt(r, c)

\* The binding changed since the preflight (recorded AMBIGUOUS), or the
\* transaction failed (the intent stays IN_FLIGHT under this claim).
CommitFails(r, c) ==
    /\ \/ At(r, c, "commit") /\ ~Bound(r, c) /\ Goto(r, c, "unsure")
       \/ At(r, c, "commit") /\ Goto(r, c, "error")
       \/ At(r, c, "observed") /\ Goto(r, c, "error")
    /\ UNCHANGED <<vars, ledgerVars, remote, expected>>

----------------------------------------------------------------------------
(* The observer path.                                                      *)

Observe(r, c) ==
    /\ At(r, c, "observe")
    /\ LookAt(r, c, "observed") \/ Goto(r, c, "error")
    /\ UNCHANGED <<vars, ledgerVars, remote, expected>>

\* record_cancellation_observer_progress, then a retry.
ObserveProgress(r, c) ==
    /\ At(r, c, "observed")
    /\ Seen(r, c) \notin TerminalPhase
    /\ Bound(r, c)
    /\ InsertObservation(r, c)
    /\ Goto(r, c, "error")
    /\ UNCHANGED <<vars, work, flow, anchor, escalation, cites, conflict, run, remote, expected>>

\* Runmill's own progress: the run ends, or a request whose answer was lost
\* takes effect late.
RemoteAdvances ==
    /\ \/ remote = "running" /\ remote' = "finished"
       \/ remote = "running" /\ EffectStatusNow # "ABSENT" /\ remote' = "cancelling"
       \/ remote = "cancelling" /\ remote' \in TerminalPhase
    /\ UNCHANGED <<vars, ledgerVars, expected, task>>

----------------------------------------------------------------------------
HandlerStep(r, c) ==
    \/ DeliveryCompletes(r, c) \/ DeliveryFails(r, c) \/ GapEscalates(r, c)
    \/ PrepareObservation(r, c) \/ PrepareEffect(r, c) \/ PrepareFails(r, c)
    \/ ReadBefore(r, c) \/ RequestCancel(r, c) \/ ResendCancel(r, c) \/ ReadAfter(r, c)
    \/ RecordFailure(r, c, "refused", "FAILED")
    \/ RecordFailure(r, c, "unsure", "AMBIGUOUS")
    \/ RecordFailureLost(r, c)
    \/ CommitRequested(r, c) \/ CommitCancelled(r, c) \/ CommitConflict(r, c)
    \/ ReceiptRejected(r, c) \/ CommitFails(r, c)
    \/ Observe(r, c) \/ ObserveProgress(r, c)
    \/ RetryJob(r, c) \/ ReadFences(r, c) \/ DeadLetterJob(r, c)
    \/ DeadLetterConflicts(r, c) \/ Refused(r, c)

Time(j) == (BecomeDue(j) \/ LeaseTick(j)) /\ UNCHANGED cancelVars

Renew(r, c) == RenewJobLease(r, c) /\ UNCHANGED cancelVars

CancelNext ==
    \/ \E j \in Jobs : Time(j) \/ CancelWorkItem(j)
    \/ EnqueueDelivery
    \/ RemoteAdvances
    \/ \E r \in Reactors :
           \/ ClaimJobs(r)
           \/ Aborts(r)
           \/ \E c \in tasks[r] : Renew(r, c) \/ HandlerStep(r, c)

CancelSpec == CancelInit /\ [][CancelNext]_allVars

\* Handlers run to their end, reactors poll, leases and retry times pass.
\* Nothing is assumed of Runmill, of operators or of faults.
CancelFairness ==
    /\ \A r \in Reactors :
           /\ WF_allVars(\E c \in tasks[r] : HandlerStep(r, c))
           /\ WF_allVars(ClaimJobs(r))
    /\ \A j \in Jobs : WF_allVars(Time(j))

CancelFairSpec == CancelSpec /\ CancelFairness

----------------------------------------------------------------------------
(* Properties.                                                             *)

\* Types of the cancellation's own state.
CancelTypeOK ==
    /\ TypeOK
    /\ work \in [state : {"RUNNING", "CANCEL_REQUESTED", "ESCALATED", "CANCELLED"},
                 version : Nat]
    /\ flow \in [delivery : {"NONE", "ACTIVE", "WAITING"},
                 cancellation : {"ABSENT", "ACTIVE", "WAITING", "CANCELLED"}]
    /\ anchor \in [kind : {"RUN", "WORKFLOW", "ESCALATION", "CONFLICT", "CANCELLATION"},
                   ref : Jobs \cup {NoJob}]
    /\ escalation \in [Jobs -> {"ABSENT", "OPEN", "CANCELLED"}]
    /\ cites \in [Jobs -> Jobs \cup {NoJob}]
    /\ conflict \in BOOLEAN
    /\ run \in {"LIVE", "CANCELLED", "FINISHED"}
    /\ tail \in RemotePhase \cup {"none"}
    /\ remote \in RemotePhase
    /\ expected \in [Jobs -> Nat]
    /\ task \in [Reactors -> [Jobs -> Task]]

\* Someone is always accountable.  A CANCEL_REQUESTED item is anchored to a
\* workflow with a job that can still act on this very version of it; an
\* ESCALATED one to an escalation that is open.
AnchorIsLive ==
    /\ work.state = "CANCEL_REQUESTED" =>
           /\ anchor.kind = "WORKFLOW"
           /\ \E j \in Jobs \ {DeliveryJob} :
                  status[j] \in Unsettled /\ expected[j] = work.version
    /\ work.state = "ESCALATED" =>
           \/ anchor.kind = "ESCALATION" /\ escalation[anchor.ref] = "OPEN"
           \/ anchor.kind = "CONFLICT" /\ conflict

\* Dead work is visible: every DEAD job cites an escalation; several jobs of
\* the attempt share one active escalation; an active one means ESCALATED.
DeadWorkIsOwned ==
    /\ \A j \in Jobs : status[j] = "DEAD" <=> cites[j] # NoJob
    /\ \A j \in Jobs : cites[j] # NoJob => escalation[cites[j]] # "ABSENT"
    /\ Cardinality(OpenEscalations) <= 1
    /\ OpenEscalations # {} \/ conflict => work.state = "ESCALATED"

\* CANCELLED is final and true: Runmill really cancelled the run, and neither
\* a workflow, a job, an effect nor an escalation of the item is still live.
CancelledIsFinal ==
    work.state = "CANCELLED" =>
        /\ remote = "cancelled" /\ run = "CANCELLED" /\ tail = "cancelled"
        /\ flow.cancellation = "CANCELLED" /\ flow.delivery \notin LiveFlow
        /\ \A j \in Jobs : status[j] \notin Unsettled
        /\ EffectStatusNow = "OBSERVED"
        /\ OpenEscalations = {} /\ ~conflict

\* The ledger never says more of the run than Runmill did: an observed phase
\* was reached remotely, and the run is terminal exactly when the last
\* observation was.
ProjectionIsTrue ==
    /\ tail = "none" <=> EffectStatusNow # "OBSERVED"
    /\ tail \in TerminalPhase => remote = tail
    /\ run = "LIVE" <=> tail \notin TerminalPhase

\* Every requested cancellation comes to an end or to an owner.
CancellationResolves ==
    work.state = "CANCEL_REQUESTED" ~> work.state \in {"CANCELLED", "ESCALATED"}

\* A terminal CANCELLED observation under a live, bound claim completes the
\* cancellation; its receipt is not refused.
TerminalObservationCompletes ==
    \A r \in Reactors, j \in Jobs : task[r][j].at # "rejected"
=============================================================================
