-------------------------------- MODULE Api --------------------------------
(***************************************************************************)
(* The mutations of the HTTP API on one work item, beside the reactor that *)
(* claims, retries and dead-letters the jobs they queue.  Every mutation   *)
(* is one transaction: it claims its idempotency key, locks the work item, *)
(* compares the version the caller expects, writes, and completes the key  *)
(* with its receipt.  A refused mutation rolls all of it back, so only     *)
(* what succeeds is a step.                                                *)
(*                                                                         *)
(* What a cancellation job does at the worker is module Cancellation; the  *)
(* dispatcher that would turn an accepted item into a run is not in the    *)
(* repository, and is modelled by the guards it has to pass.               *)
(***************************************************************************)
EXTENDS Naturals, FiniteSets

CONSTANTS
    Ops,         \* the operations callers use
    Keys,        \* Idempotency-Keys; a key counts per operation
    MaxAttempts, \* workflow_jobs.max_attempts
    MaxVersion   \* bound on the work item's aggregate_version

Queueing == {"ACCEPT", "CANCEL", "DECIDE", "VERIFY", "RECONCILE"}

ASSUME ApiAssumption ==
    /\ Ops \subseteq Queueing /\ "ACCEPT" \in Ops
    /\ MaxAttempts \in Nat \ {0} /\ MaxVersion \in Nat \ {0}

VARIABLES
    work,        \* work_items: state, version, attempt (current_attempt_id)
    delivery,    \* workflow_instances, WORK_ITEM_DELIVERY
    recovery,    \* workflow_instances, WORK_ITEM_CANCELLATION
    jobs,        \* workflow_jobs, by the operation and key that queued them
    records,     \* idempotency_records
    answers,     \* every receipt a caller has received, by operation and key
    dispatched,  \* work_dispatch_fact_guards.dispatch_started
    receipt,     \* cancellation_terminal_receipts, the PRE_DISPATCH route
    superseded,  \* cancellation_escalation_supersessions: requests that replaced an owner
    exhaustion,  \* the active WORKFLOW_JOB_EXHAUSTED escalation, by its attempt
    competing,   \* an active escalation of another category
    anchor,      \* accountability_anchors
    run,         \* the authoritative run
    evidence,    \* an evidence bundle of the run is retained
    approval,    \* a pending approval of the work
    capable      \* activities the serving process can execute

apiVars == <<work, delivery, recovery, jobs, records, answers, dispatched, receipt,
             superseded, exhaustion, competing, anchor, run, evidence, approval, capable>>

WorkStates == {"READY", "ACCEPTED", "RUNNING", "ESCALATED",
               "CANCEL_REQUESTED", "CANCELLED"}
JobStates == {"NONE", "PENDING", "RUNNING", "RETRY", "COMPLETED", "DEAD", "CANCELLED"}
Anchors == {"NONE", "DELIVERY", "RECOVERY", "ESCALATION", "RECEIPT"}
Slots == Ops \X Keys
WorkBound == {s \in Slots : s[1] # "RECONCILE"}

\* expect: the version an advance job carries in its payload.
Job == [status : JobStates, attempts : 0..MaxAttempts, expect : 0..MaxVersion]
NoJob == [status |-> "NONE", attempts |-> 0, expect |-> 0]
NewJob(v) == [status |-> "PENDING", attempts |-> 0, expect |-> v]

\* request: the expected version, all that tells two requests of one
\* operation apart here; result: what the receipt says.
Receipt == [status : {"accepted", "cancelled", "cancellation_requested", "queued"},
            version : 0..MaxVersion]
NoReceipt == [status |-> "NONE", version |-> 0]
NoRecord == [request |-> 0, receipt |-> NoReceipt]
Record == [request : 0..MaxVersion, receipt : Receipt \cup {NoReceipt}]

ApiInit ==
    /\ work = [state |-> "READY", version |-> 1, attempt |-> FALSE]
    /\ delivery = "NONE" /\ recovery = "NONE"
    /\ jobs = [s \in Slots |-> NoJob]
    /\ records = [s \in Slots |-> NoRecord]
    /\ answers = [s \in Slots |-> {}]
    /\ dispatched = FALSE /\ receipt = FALSE
    /\ superseded = {} /\ exhaustion = "NONE" /\ competing = FALSE
    /\ anchor = "NONE" /\ run = "NONE"
    /\ evidence = FALSE /\ approval = FALSE
    /\ capable \in SUBSET Ops

-----------------------------------------------------------------------------
(***************************************************************************)
(* Idempotency.                                                            *)
(***************************************************************************)
\* A key without a record: the request runs.  The row the claim inserts
\* makes a concurrent request with the same key wait for this one to end.
claim_idempotency(op, k) == records[<<op, k>>] = NoRecord

\* The request runs to its end; the caller may or may not hear of it.
complete_idempotency(op, k, v, r) ==
    /\ records' = [records EXCEPT ![<<op, k>>] = [request |-> v, receipt |-> r]]
    /\ \/ answers' = answers
       \/ answers' = [answers EXCEPT ![<<op, k>>] = @ \cup {r}]

\* The same request again: the stored receipt, even when the activity has
\* become unavailable since.  Another request under the key is refused.
Replay(op, k) ==
    /\ records[<<op, k>>] # NoRecord
    /\ answers' = [answers EXCEPT ![<<op, k>>] = @ \cup {records[<<op, k>>].receipt}]
    /\ UNCHANGED <<work, delivery, recovery, jobs, records, dispatched, receipt, exhaustion,
                   superseded, competing, anchor, run, evidence, approval, capable>>

require_expected_version(v) == v = work.version

-----------------------------------------------------------------------------
(***************************************************************************)
(* Accepting and cancelling.                                               *)
(***************************************************************************)
accept_work_item(k, v) ==
    /\ claim_idempotency("ACCEPT", k) /\ "ACCEPT" \in capable
    /\ require_expected_version(v) /\ work.state = "READY" /\ work.version < MaxVersion
    /\ work' = [work EXCEPT !.state = "ACCEPTED", !.version = @ + 1]
    /\ delivery' = "ACTIVE" /\ anchor' = "DELIVERY"
    /\ jobs' = [jobs EXCEPT ![<<"ACCEPT", k>>] = NewJob(work.version + 1)]
    /\ complete_idempotency("ACCEPT", k, v,
                            [status |-> "accepted", version |-> work.version + 1])
    /\ UNCHANGED <<recovery, dispatched, receipt, exhaustion, superseded, competing, run, evidence,
                   approval, capable>>

\* Fault: a claimed advance job is cancelled like a waiting one.
BindAnyLiveJob(s) ==
    /\ s[1] = "ACCEPT" /\ jobs[s].status \in {"PENDING", "RETRY", "RUNNING"}
    /\ jobs[s].expect = work.version

\* The advance job of this acceptance waits, unclaimed, with attempts left.
BindAdvanceJob(s) ==
    /\ s[1] = "ACCEPT" /\ jobs[s].status \in {"PENDING", "RETRY"}
    /\ jobs[s].attempts < MaxAttempts /\ jobs[s].expect = work.version

DeliveryOwnsWork == delivery = "ACTIVE" /\ anchor = "DELIVERY"

\* The acceptance whose receipt names this version.
AcceptedOnRecord(s) ==
    records[s].receipt = [status |-> "accepted", version |-> work.version]

\* It is the work's only job, its workflow owns the work, no dispatch fact
\* was noted, and the acceptance is on record.
lock_pre_dispatch_cancellation_binding(s) ==
    /\ {t \in WorkBound : jobs[t] # NoJob} = {s} /\ BindAdvanceJob(s)
    /\ DeliveryOwnsWork
    /\ ~dispatched
    /\ AcceptedOnRecord(s)

\* No row of any table shows that the work went further.
require_pristine_pre_dispatch_boundary ==
    /\ ~work.attempt /\ run = "NONE" /\ ~evidence /\ ~approval
    /\ recovery = "NONE" /\ exhaustion = "NONE" /\ ~competing /\ ~receipt

\* Fault: the advance job is left in the queue.
LeaveAdvanceJob(s) == jobs

\* The job ends with its work, whoever was about to claim it.
EndAdvanceJob(s) == [jobs EXCEPT ![s].status = "CANCELLED"]

\* The receipt takes the place of the delivery as what answers for the work.
TerminalReceipt == delivery' = "CANCELLED" /\ receipt' = TRUE /\ anchor' = "RECEIPT"

cancel_accepted_before_dispatch(k, v) ==
    /\ claim_idempotency("CANCEL", k) /\ require_expected_version(v)
    /\ work.state = "ACCEPTED" /\ ~work.attempt
    /\ require_pristine_pre_dispatch_boundary
    /\ \E s \in Slots :
          /\ lock_pre_dispatch_cancellation_binding(s)
          /\ jobs' = EndAdvanceJob(s)
    /\ work.version + 2 <= MaxVersion
    /\ work' = [work EXCEPT !.state = "CANCELLED", !.version = @ + 2]
    /\ TerminalReceipt
    /\ complete_idempotency("CANCEL", k, v,
                            [status |-> "cancelled", version |-> work.version + 2])
    /\ UNCHANGED <<recovery, dispatched, exhaustion, superseded, competing, run, evidence, approval,
                   capable>>

state_allows_cancellation(s) == s \notin {"READY", "CANCEL_REQUESTED", "CANCELLED"}

\* work_cancellation_authority_guards: no finality is recorded.
lock_work_cancellation_authority_guard == ~receipt

\* The exhaustion escalation of this very attempt holds the anchor.
lock_current_exhausted_cancellation_escalation ==
    exhaustion = "ATTEMPT" /\ anchor = "ESCALATION"

require_no_other_active_cancellation_escalations(exhausted) ==
    ~competing /\ (exhausted \/ exhaustion = "NONE")

\* The replaced owner is closed; its dead job stays as it is.
close_exhausted_cancellation_escalation == "NONE"

\* The cancellation workflow is reused while it lives.
ensure_active_workflow ==
    /\ recovery \in {"NONE", "ACTIVE", "WAITING"}
    /\ recovery' = IF recovery = "NONE" THEN "ACTIVE" ELSE recovery

\* The replaced owner and the request that took its place, in one row.
append_cancellation_escalation_supersession(k) == superseded \cup {<<"CANCEL", k>>}

\* A run of the current attempt lives, at a worker this server can reach.
CancellationRoute == work.attempt /\ run = "LIVE" /\ "CANCEL" \in capable

ReplaceOwner(k) ==
    IF work.state = "ESCALATED"
    THEN /\ lock_current_exhausted_cancellation_escalation
         /\ require_no_other_active_cancellation_escalations(TRUE)
         /\ exhaustion' = close_exhausted_cancellation_escalation
         /\ superseded' = append_cancellation_escalation_supersession(k)
    ELSE /\ require_no_other_active_cancellation_escalations(FALSE)
         /\ UNCHANGED <<exhaustion, superseded>>

RequestCancellation(k) ==
    /\ work.version < MaxVersion
    /\ jobs' = [jobs EXCEPT ![<<"CANCEL", k>>] = NewJob(work.version + 1)]
    /\ work' = [work EXCEPT !.state = "CANCEL_REQUESTED", !.version = @ + 1]
    /\ anchor' = "RECOVERY"

cancel_work_item(k, v) ==
    /\ claim_idempotency("CANCEL", k) /\ require_expected_version(v)
    /\ state_allows_cancellation(work.state)
    /\ ~(work.state = "ACCEPTED" /\ ~work.attempt)
    /\ lock_work_cancellation_authority_guard
    /\ CancellationRoute /\ ensure_active_workflow
    /\ ReplaceOwner(k) /\ RequestCancellation(k)
    /\ complete_idempotency("CANCEL", k, v, [status |-> "cancellation_requested",
                                             version |-> work.version + 1])
    /\ UNCHANGED <<delivery, dispatched, receipt, competing, run, evidence, approval, capable>>

-----------------------------------------------------------------------------
(***************************************************************************)
(* The operations that only queue.                                         *)
(***************************************************************************)
require_active_delivery_workflow == delivery \in {"ACTIVE", "WAITING"}

Enqueue(op, k) ==
    /\ claim_idempotency(op, k) /\ op \in capable
    /\ jobs' = [jobs EXCEPT ![<<op, k>>] = NewJob(0)]
    /\ complete_idempotency(op, k, 1, [status |-> "queued", version |-> 0])
    /\ UNCHANGED <<work, delivery, recovery, dispatched, receipt, exhaustion, superseded, competing,
                   anchor, run, evidence, approval, capable>>

\* The approval itself is left to the activity that signs the decision.
decide_approval(k) == approval /\ require_active_delivery_workflow /\ Enqueue("DECIDE", k)
verify_evidence(k) == evidence /\ require_active_delivery_workflow /\ Enqueue("VERIFY", k)
reconcile_worker(k) == Enqueue("RECONCILE", k)

-----------------------------------------------------------------------------
(***************************************************************************)
(* The reactor and the dispatcher.                                         *)
(***************************************************************************)
Claim(s) ==
    /\ jobs[s].status \in {"PENDING", "RETRY"} /\ jobs[s].attempts < MaxAttempts
    /\ jobs' = [jobs EXCEPT ![s].status = "RUNNING", ![s].attempts = @ + 1]
    /\ UNCHANGED <<work, delivery, recovery, records, answers, dispatched, receipt,
                   exhaustion, superseded, competing, anchor, run, evidence, approval, capable>>

Fail(s) ==
    /\ jobs[s].status = "RUNNING" /\ jobs[s].attempts < MaxAttempts
    /\ jobs' = [jobs EXCEPT ![s].status = "RETRY"]
    /\ UNCHANGED <<work, delivery, recovery, records, answers, dispatched, receipt,
                   exhaustion, superseded, competing, anchor, run, evidence, approval, capable>>

\* The escalation a dead-lettered job installs, or the one it adopts.
DeadLetterOwner(s) ==
    IF exhaustion # "NONE" THEN exhaustion
    ELSE IF s[1] = "ACCEPT" THEN "NO_ATTEMPT" ELSE "ATTEMPT"

\* The last attempt of a job bound to the work: everything in one commit.
\* The escalation counts as a dispatch fact.  A recorded finality refuses
\* it, and with it the commit.
DeadLetter(s) ==
    /\ s \in WorkBound
    /\ jobs[s].status = "RUNNING" /\ jobs[s].attempts = MaxAttempts
    /\ lock_work_cancellation_authority_guard /\ work.version < MaxVersion
    /\ jobs' = [jobs EXCEPT ![s].status = "DEAD"]
    /\ exhaustion' = DeadLetterOwner(s)
    /\ work' = [work EXCEPT !.state = "ESCALATED", !.version = @ + 1]
    /\ anchor' = "ESCALATION"
    /\ IF s[1] = "CANCEL" THEN recovery' = "WAITING" /\ UNCHANGED delivery
                          ELSE delivery' = "WAITING" /\ UNCHANGED recovery
    /\ dispatched' = TRUE
    /\ UNCHANGED <<records, answers, receipt, superseded, competing, run, evidence, approval, capable>>

\* A job without a work item dies into an operational incident instead.
DeadLetterUnbound(s) ==
    /\ s \notin WorkBound
    /\ jobs[s].status = "RUNNING" /\ jobs[s].attempts = MaxAttempts
    /\ jobs' = [jobs EXCEPT ![s].status = "DEAD"]
    /\ UNCHANGED <<work, delivery, recovery, records, answers, dispatched, receipt,
                   exhaustion, superseded, competing, anchor, run, evidence, approval, capable>>

\* The job's handler is done.
Finish(s) ==
    /\ s[1] \in {"VERIFY", "DECIDE", "RECONCILE"} /\ jobs[s].status = "RUNNING"
    /\ jobs' = [jobs EXCEPT ![s].status = "COMPLETED"]
    /\ approval' = (approval /\ s[1] # "DECIDE")
    /\ UNCHANGED <<work, delivery, recovery, records, answers, dispatched, receipt,
                   exhaustion, superseded, competing, anchor, run, evidence, capable>>

\* The advance job dispatches: attempt, order and run come to be, and the
\* first of them notes the dispatch under the work's row.
Dispatch(s) ==
    /\ s[1] = "ACCEPT" /\ jobs[s].status = "RUNNING"
    /\ jobs[s].expect = work.version /\ work.version < MaxVersion
    /\ jobs' = [jobs EXCEPT ![s].status = "COMPLETED"]
    /\ work' = [work EXCEPT !.state = "RUNNING", !.version = @ + 1, !.attempt = TRUE]
    /\ dispatched' = TRUE /\ run' = "LIVE"
    /\ UNCHANGED <<delivery, recovery, records, answers, receipt, exhaustion, superseded, competing,
                   anchor, evidence, approval, capable>>

\* The run asks for an approval, retains evidence, or ends.
RunProceeds ==
    /\ run = "LIVE"
    /\ \/ approval' = TRUE /\ UNCHANGED <<evidence, run>>
       \/ evidence' = TRUE /\ UNCHANGED <<approval, run>>
       \/ run' = "ENDED" /\ UNCHANGED <<approval, evidence>>
    /\ UNCHANGED <<work, delivery, recovery, jobs, records, answers, dispatched, receipt,
                   exhaustion, superseded, competing, anchor, capable>>

\* Intake saw accepted work change at its source.
SourceChanges ==
    /\ work.state \notin {"READY", "CANCELLED"} /\ ~competing
    /\ competing' = TRUE
    /\ dispatched' = TRUE
    /\ UNCHANGED <<work, delivery, recovery, jobs, records, answers, receipt, superseded,
                   exhaustion, anchor, run, evidence, approval, capable>>

\* The server comes back with one handler more or less.
Restart ==
    /\ \E op \in Ops : capable' \in {capable \cup {op}, capable \ {op}}
    /\ UNCHANGED <<work, delivery, recovery, jobs, records, answers, dispatched, receipt,
                   exhaustion, superseded, competing, anchor, run, evidence, approval>>

Accept == \E k \in Keys, v \in 1..MaxVersion : accept_work_item(k, v)
CancelBeforeDispatch ==
    "CANCEL" \in Ops /\ \E k \in Keys, v \in 1..MaxVersion : cancel_accepted_before_dispatch(k, v)
CancelRunning == "CANCEL" \in Ops /\ \E k \in Keys, v \in 1..MaxVersion : cancel_work_item(k, v)
Decide == "DECIDE" \in Ops /\ \E k \in Keys : decide_approval(k)
Verify == "VERIFY" \in Ops /\ \E k \in Keys : verify_evidence(k)
Reconcile == "RECONCILE" \in Ops /\ \E k \in Keys : reconcile_worker(k)

ApiNext ==
    \/ Accept \/ CancelBeforeDispatch \/ CancelRunning \/ Decide \/ Verify \/ Reconcile
    \/ \E op \in Ops, k \in Keys : Replay(op, k)
    \/ \E s \in Slots : Claim(s) \/ Fail(s) \/ DeadLetter(s) \/ DeadLetterUnbound(s)
                        \/ Finish(s) \/ Dispatch(s)
    \/ RunProceeds \/ SourceChanges \/ Restart

ApiSpec == ApiInit /\ [][ApiNext]_apiVars

-----------------------------------------------------------------------------
(***************************************************************************)
(* Properties.                                                             *)
(***************************************************************************)
\* Every row has one of the shapes the code writes.
ApiTypeOK ==
    /\ work \in [state : WorkStates, version : 1..MaxVersion, attempt : BOOLEAN]
    /\ delivery \in {"NONE", "ACTIVE", "WAITING", "CANCELLED"}
    /\ recovery \in {"NONE", "ACTIVE", "WAITING"}
    /\ jobs \in [Slots -> Job]
    /\ records \in [Slots -> Record] /\ answers \in [Slots -> SUBSET Receipt]
    /\ \A s \in Slots : records[s] # NoRecord => records[s].receipt \in Receipt
    /\ dispatched \in BOOLEAN /\ receipt \in BOOLEAN /\ competing \in BOOLEAN
    /\ superseded \subseteq Slots /\ exhaustion \in {"NONE", "ATTEMPT", "NO_ATTEMPT"}
    /\ anchor \in Anchors /\ run \in {"NONE", "LIVE", "ENDED"}
    /\ evidence \in BOOLEAN /\ approval \in BOOLEAN /\ capable \in SUBSET Ops

\* However often a request is repeated, across lost answers and restarts
\* without its handler, every caller of one operation and key is told one
\* thing (claim_idempotency, complete_idempotency).
AnswersAgree ==
    \A s \in Slots : answers[s] \subseteq {records[s].receipt}

\* Two callers that read the same version of the work never both change it
\* (require_expected_version under the row lock).
NoLostUpdate ==
    \A s, t \in {u \in Slots : u[1] \in {"ACCEPT", "CANCEL"}} :
        (s # t /\ records[s] # NoRecord /\ records[t] # NoRecord)
            => records[s].request # records[t].request

Live == {"PENDING", "RETRY", "RUNNING"}

\* A cancellation before dispatch and a dispatch exclude each other: with the
\* receipt there is no attempt, no run, no noted fact, and no job that could
\* still lead to one (cancel_accepted_before_dispatch).
NeverDispatchedAndCancelled ==
    receipt => /\ ~work.attempt /\ run = "NONE" /\ ~dispatched
               /\ \A s \in WorkBound : jobs[s].status \notin Live

\* A job some reactor holds is never cancelled from under it: what it did at
\* the worker would have no owner (lock_pre_dispatch_cancellation_binding).
ClaimedIsNotCancelled ==
    [][\A s \in Slots : jobs[s].status = "RUNNING" => jobs'[s].status # "CANCELLED"]_apiVars

\* Dead work is owned, now or by what replaced its owner: escalated work has
\* an open escalation that holds its anchor, an open one is never left behind
\* by work that moved on, and a closed one names its successor
\* (ensure_attention_coverage, close_exhausted_cancellation_escalation).
AttentionIsCovered ==
    /\ work.state = "ESCALATED" => exhaustion # "NONE"
    /\ exhaustion # "NONE" => work.state = "ESCALATED" /\ anchor = "ESCALATION"
    /\ \A s \in WorkBound : jobs[s].status = "DEAD" => exhaustion # "NONE" \/ superseded # {}

\* A request repeated after its job was claimed, retried, ended or died does
\* not start that job again (claim_idempotency before enqueue_job).
NeverQueuedTwice ==
    [][\A s \in Slots : jobs[s] # NoJob =>
          jobs'[s] # NoJob /\ jobs'[s].attempts >= jobs[s].attempts]_apiVars

\* What the mutations leave behind is whole, whatever order they, the
\* reactor and a restart come in: the invariants above together.
ApiIsSound ==
    /\ ApiTypeOK
    /\ AnswersAgree
    /\ NoLostUpdate
    /\ NeverDispatchedAndCancelled
    /\ AttentionIsCovered

\* A job is queued once and stays with whoever claimed it: both properties of
\* steps above together.
JobsAreKept == ClaimedIsNotCancelled /\ NeverQueuedTwice
============================================================================
