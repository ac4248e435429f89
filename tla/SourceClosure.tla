--------------------------- MODULE SourceClosure ---------------------------
(***************************************************************************)
(* The CLOSE_SOURCE activity: one delivered work item, the workflow job    *)
(* that closes its Linear issue, the effect intent that records the        *)
(* provider request, and the Linear service itself.                        *)
(*                                                                         *)
(* A close is a preflight transaction, up to three HTTP exchanges (a read, *)
(* the signed-marker comment, the state update) and a final transaction.   *)
(* Between any two of them the process may stall past its lease, crash, or *)
(* lose an answer while the provider still acts on the request.            *)
(***************************************************************************)
EXTENDS JobLedger

CONSTANT CloseEffect    \* the one close_source intent of the work item

ASSUME CloseEffectAssumption == Effects = {CloseEffect}

VARIABLES
    work,       \* work_items.state, from CLOSING_SOURCE on
    authorized, \* the evidence, worker and approvals still admit a close
    pc,         \* [Reactors -> [Jobs -> Phase]]: where execute_inner stands
    wire,       \* [Mutations -> Nat]: sent, not yet applied or dropped
    sent,       \* [Mutations -> Nat]: sent in all
    issue       \* Linear's record: [state, marker, revised]

closureVars == <<work, authorized, pc, wire, sent, issue>>
allVars == <<vars, closureVars>>

Mutations == {"comment", "update"}

\* idle: no execution.  start: claimed.  read, comment, update: executing an
\* ExternalAction::Close.  reconcile: ExternalAction::Reconcile.  receipt and
\* reconciled: a receipt in hand.  refused, unsure: a close that failed before,
\* or possibly after, the provider boundary.  error: execute returned Err.
Phase == {"idle", "start", "read", "comment", "update", "reconcile",
          "receipt", "reconciled", "refused", "unsure", "error"}

ClosureInit ==
    /\ Init
    /\ work = "CLOSING_SOURCE"
    /\ authorized = TRUE
    /\ pc = [r \in Reactors |-> [j \in Jobs |-> "idle"]]
    /\ wire = [m \in Mutations |-> 0]
    /\ sent = [m \in Mutations |-> 0]
    /\ issue = [state |-> "active", marker |-> FALSE, revised |-> FALSE]

At(r, c, phase) == c \in tasks[r] /\ pc[r][c.job] = phase
Goto(r, c, phase) == pc' = [pc EXCEPT ![r][c.job] = phase]

\* lock_claim_and_binding succeeds.
Bound(r, c) == LiveClaim(r, c) /\ work = "CLOSING_SOURCE" /\ authorized

----------------------------------------------------------------------------
(* The ledger's own steps, as far as this activity lets them happen.       *)

\* Executions begin with the claim; a doomed claim is never executed.
Execute(r) ==
    /\ pc' = [pc EXCEPT ![r] = [j \in Jobs |->
           IF \E c \in tasks'[r] : c.job = j /\ ~c.doomed THEN "start" ELSE "idle"]]
    /\ UNCHANGED <<work, authorized, wire, sent, issue>>

ClaimClosure(r) ==
    /\ ClaimReadyJobs(r) \/ \E j \in Jobs : ClaimOrphanedExhausted(r, j)
    /\ Execute(r)

\* The reactor's tasks are dropped wherever they stand.
Abandon(r) ==
    /\ pc' = [pc EXCEPT ![r] = [j \in Jobs |-> "idle"]]
    /\ UNCHANGED <<work, authorized, wire, sent, issue>>

ClosureAborts(r) == PollAborts(r) /\ Abandon(r)

\* The heartbeat beside the execution finds the claim lost, or the final
\* failure statement is refused.
ClosureRefused(r, c) ==
    /\ ~LiveClaim(r, c) \/ At(r, c, "error")
    /\ ClaimRefused(r, c)
    /\ Abandon(r)

RenewClosure(r, c) == RenewJobLease(r, c) /\ UNCHANGED closureVars

RetryClosure(r, c) ==
    /\ At(r, c, "error")
    /\ FailJob(r, c)
    /\ Goto(r, c, "idle")
    /\ UNCHANGED <<work, authorized, wire, sent, issue>>

\* Fault: the escalation asks for the authority the close had asked for.
DeadLetterWhileAuthorized(r, c) ==
    /\ c.doomed \/ At(r, c, "error")
    /\ Bound(r, c)
    /\ DeadLetter(r, c)
    /\ work' = "ESCALATED"
    /\ Goto(r, c, "idle")
    /\ UNCHANGED <<authorized, wire, sent, issue>>

\* The exhausted job and the escalation of its work item are one transaction.
DeadLetterClosure(r, c) ==
    /\ c.doomed \/ At(r, c, "error")
    /\ DeadLetter(r, c)
    /\ work = "CLOSING_SOURCE"
    /\ work' = "ESCALATED"
    /\ Goto(r, c, "idle")
    /\ UNCHANGED <<authorized, wire, sent, issue>>

----------------------------------------------------------------------------
(* execute_inner.                                                          *)

\* prepare: persist_or_adopt_effect inserts the intent or re-adopts a FAILED
\* one, IN_FLIGHT under this claim, and the handler may send.
PrepareClose(r, c) ==
    /\ At(r, c, "start")
    /\ Bound(r, c)
    /\ effect[CloseEffect].status \in {"ABSENT", "FAILED"}
    /\ BeginEffect(r, c, CloseEffect)
    /\ Goto(r, c, "read")
    /\ UNCHANGED <<work, authorized, wire, sent, issue>>

\* Fault: an AMBIGUOUS intent is closed again.
PrepareCloseAgain(r, c) ==
    /\ At(r, c, "start")
    /\ Bound(r, c)
    /\ effect[CloseEffect].status = "AMBIGUOUS"
    /\ Goto(r, c, "read")
    /\ UNCHANGED <<vars, work, authorized, wire, sent, issue>>

\* prepare: an AMBIGUOUS intent is only ever reconciled.
PrepareReconcile(r, c) ==
    /\ At(r, c, "start")
    /\ Bound(r, c)
    /\ effect[CloseEffect].status = "AMBIGUOUS"
    /\ Goto(r, c, "reconcile")
    /\ UNCHANGED <<vars, work, authorized, wire, sent, issue>>

\* prepare: the binding no longer holds, or the database fails.
PrepareFails(r, c) ==
    /\ At(r, c, "start")
    /\ Goto(r, c, "error")
    /\ UNCHANGED <<vars, work, authorized, wire, sent, issue>>

\* What close_source makes of the issue it read: a completed issue is adopted
\* only with our own marker, an issue edited before our comment is a conflict.
ReadOutcome ==
    IF issue.marker
    THEN IF issue.state = "completed" THEN "receipt" ELSE "update"
    ELSE IF issue.state = "completed" \/ issue.revised THEN "refused" ELSE "comment"

\* close_source: the read, which may fail.
ReadIssue(r, c) ==
    /\ At(r, c, "read")
    /\ \E phase \in {ReadOutcome, "refused"} : Goto(r, c, phase)
    /\ UNCHANGED <<vars, work, authorized, wire, sent, issue>>

\* close_source: a mutation leaves the process.  Its answer may be lost.
SendMutation(r, c, m) ==
    /\ At(r, c, m)
    /\ wire' = [wire EXCEPT ![m] = @ + 1]
    /\ sent' = [sent EXCEPT ![m] = @ + 1]
    /\ Goto(r, c, "unsure")
    /\ UNCHANGED <<vars, work, authorized, issue>>

\* ... or the provider applies it and the handler sees the success.
MutationSucceeds(r, c, m) ==
    /\ At(r, c, m)
    /\ issue' = IF m = "comment" THEN [issue EXCEPT !.marker = TRUE]
                                 ELSE [issue EXCEPT !.state = "completed"]
    /\ sent' = [sent EXCEPT ![m] = @ + 1]
    /\ IF m = "comment" THEN Goto(r, c, "update") ELSE Goto(r, c, "receipt")
    /\ UNCHANGED <<vars, work, authorized, wire>>

\* Fault: any completed issue is taken for a close of ours.
ReconcileUnmarked(r, c) ==
    /\ At(r, c, "reconcile")
    /\ \/ issue.state = "completed" /\ Goto(r, c, "reconciled")
       \/ Goto(r, c, "error")
    /\ UNCHANGED <<vars, work, authorized, wire, sent, issue>>

\* reconcile_source_close: Applied only for a completed issue with our marker.
Reconcile(r, c) ==
    /\ At(r, c, "reconcile")
    /\ \/ issue.state = "completed" /\ issue.marker /\ Goto(r, c, "reconciled")
       \/ Goto(r, c, "error")
    /\ UNCHANGED <<vars, work, authorized, wire, sent, issue>>

\* update_owned_effect_failure, for the intent this claim still owns.
RecordFailure(r, c, phase, s) ==
    /\ At(r, c, phase)
    /\ ReleaseEffect(r, c, CloseEffect, s)
    /\ Goto(r, c, "error")
    /\ UNCHANGED <<work, authorized, wire, sent, issue>>

\* ... which another claim released meanwhile, or the database fails.
RecordFailureLost(r, c) ==
    /\ At(r, c, "refused") \/ At(r, c, "unsure")
    /\ Goto(r, c, "error")
    /\ UNCHANGED <<vars, work, authorized, wire, sent, issue>>

\* finalize: the receipt, the closed work item and the completed job are one
\* transaction.  A close still owns its intent; a reconciliation finds the
\* intent AMBIGUOUS.
Finalize(r, c) ==
    /\ \/ At(r, c, "receipt") /\ OwnsEffect(r, c, CloseEffect)
       \/ At(r, c, "reconciled") /\ effect[CloseEffect].status = "AMBIGUOUS"
    /\ Bound(r, c)
    /\ ObserveEffect(r, c, CloseEffect, {})
    /\ work' = "CLOSED"
    /\ Goto(r, c, "idle")
    /\ UNCHANGED <<authorized, wire, sent, issue>>

\* finalize fails (the binding changed, the intent was released, the database
\* is down): a close releases its intent to ambiguity.
FinalizeFails(r, c) ==
    /\ \/ At(r, c, "receipt") /\ Goto(r, c, "unsure")
       \/ At(r, c, "reconciled") /\ Goto(r, c, "error")
    /\ UNCHANGED <<vars, work, authorized, wire, sent, issue>>

----------------------------------------------------------------------------
(* The environment.                                                        *)

\* Linear applies a request whose answer was lost, however late, or never.
Deliver(m) ==
    /\ wire[m] > 0
    /\ wire' = [wire EXCEPT ![m] = @ - 1]
    /\ issue' \in {issue,
                   IF m = "comment" THEN [issue EXCEPT !.marker = TRUE]
                                    ELSE [issue EXCEPT !.state = "completed"]}
    /\ UNCHANGED <<vars, work, authorized, pc, sent>>

\* Someone edits the issue, or completes it by hand.
HumanActs ==
    /\ issue.state = "active"
    /\ issue' \in {[issue EXCEPT !.revised = TRUE], [issue EXCEPT !.state = "completed"]}
    /\ issue' # issue
    /\ UNCHANGED <<vars, work, authorized, pc, wire, sent>>

\* The worker is quarantined, an approval is withdrawn, an escalation opens.
RevokeAuthority ==
    /\ authorized
    /\ authorized' = FALSE
    /\ UNCHANGED <<vars, work, pc, wire, sent, issue>>

----------------------------------------------------------------------------
HandlerStep(r, c) ==
    \/ PrepareClose(r, c) \/ PrepareReconcile(r, c) \/ PrepareFails(r, c)
    \/ ReadIssue(r, c)
    \/ \E m \in Mutations : SendMutation(r, c, m) \/ MutationSucceeds(r, c, m)
    \/ Reconcile(r, c)
    \/ RecordFailure(r, c, "refused", "FAILED")
    \/ RecordFailure(r, c, "unsure", "AMBIGUOUS")
    \/ RecordFailureLost(r, c)
    \/ Finalize(r, c) \/ FinalizeFails(r, c)
    \/ RetryClosure(r, c) \/ DeadLetterClosure(r, c) \/ ClosureRefused(r, c)

ClosureNext ==
    \/ \E j \in Jobs : TimeStep(j) /\ UNCHANGED closureVars
    \/ \E r \in Reactors :
           \/ ClaimClosure(r)
           \/ ClosureAborts(r)
           \/ \E c \in tasks[r] : RenewClosure(r, c) \/ HandlerStep(r, c)
    \/ \E m \in Mutations : Deliver(m)
    \/ HumanActs
    \/ RevokeAuthority

ClosureSpec == ClosureInit /\ [][ClosureNext]_allVars

\* Handlers run to their end, reactors poll, leases and retry times pass.
\* Nothing is assumed of Linear, of people or of faults.
ClosureFairness ==
    /\ \A r \in Reactors :
           /\ WF_allVars(\E c \in tasks[r] : HandlerStep(r, c))
           /\ WF_allVars(ClaimClosure(r))
    /\ \A j \in Jobs : WF_allVars((BecomeDue(j) \/ LeaseTick(j)) /\ UNCHANGED closureVars)

ClosureFairSpec == ClosureSpec /\ ClosureFairness

----------------------------------------------------------------------------
(* Properties.                                                             *)

\* Types of the activity's own state.
ClosureTypeOK ==
    /\ TypeOK
    /\ work \in {"CLOSING_SOURCE", "CLOSED", "ESCALATED"}
    /\ authorized \in BOOLEAN
    /\ pc \in [Reactors -> [Jobs -> Phase]]
    /\ wire \in [Mutations -> Nat]
    /\ sent \in [Mutations -> Nat]
    /\ issue \in [state : {"active", "completed"}, marker : BOOLEAN, revised : BOOLEAN]

\* Linear is sent the closing comment at most once and the state update at
\* most once, whatever stalls, crashes, lost answers and takeovers happen:
\* an ambiguous mutation is never made sendable again.
NeverSentTwice == \A m \in Mutations : sent[m] <= 1

\* An intent a later claim may send again (absent or FAILED) belongs to a
\* close of which nothing has crossed the provider boundary.
ResendableMeansUnsent ==
    effect[CloseEffect].status \in {"ABSENT", "FAILED"} =>
        \A m \in Mutations : sent[m] = 0 /\ wire[m] = 0

\* A work item is CLOSED only if Linear really holds the completed issue with
\* the signed marker, and exactly when the intent is OBSERVED and the job is
\* COMPLETED: none of the three is ever committed without the others.
ClosedMeansApplied ==
    /\ work = "CLOSED" => issue.state = "completed" /\ issue.marker
    /\ work = "CLOSED" <=> effect[CloseEffect].status = "OBSERVED"
    /\ work = "CLOSED" <=> \E j \in Jobs : status[j] = "COMPLETED"
    /\ work = "ESCALATED" <=> \E j \in Jobs : status[j] = "DEAD"

\* A work item that entered source closing leaves it: closed, or escalated to
\* an owner, even if every answer of the provider is lost.
ClosingResolves ==
    (\E j \in Jobs : status[j] = "PENDING") ~> work \in {"CLOSED", "ESCALATED"}
============================================================================
