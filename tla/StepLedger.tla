----------------------------- MODULE StepLedger -----------------------------
(***************************************************************************)
(* The fenced transaction that ends a workflow step (ledger/steps.rs).     *)
(*                                                                         *)
(* A handler that has claimed a job ends it in one transaction of its own: *)
(* commit_workflow_step writes the step's child rows, moves the work item  *)
(* and the workflow, replaces the accountability anchor and completes the  *)
(* job; fail_workflow_step returns the job to the queue, or, when its      *)
(* attempts are used up, kills it and opens or joins the escalation that   *)
(* owns the remains.  The job's claim, the two aggregate versions, the     *)
(* workflow's fence and the anchor's generation are separate guards.  The  *)
(* answer to either call may be lost, and the caller may ask again.        *)
(*                                                                         *)
(* One work item with several jobs.  The transaction holds the job row,    *)
(* then the work item, then the workflow until it ends, so it is one step  *)
(* here; what the caller read before it is not.                            *)
(***************************************************************************)
EXTENDS Naturals, Sequences, FiniteSets

CONSTANTS
    Jobs,               \* workflow_jobs rows of the work item
    Callers,            \* lease owners
    Steps,              \* the write sets a caller may try to commit
    WriteSet,           \* [Steps -> state, workflow, anchor and child rows]
    Keys,               \* idempotency keys of child rows, <<table, name>>
    Errors,             \* error summaries
    RetryTimes,         \* retry_at as the caller computes it
    Resolution,         \* timestamptz keeps multiples of this
    Severities,         \* proposed severities of a dead letter
    Forced,             \* whether a failure may be final by itself
    MaxAttempts,        \* max_attempts of a job
    MaxClaims,          \* bound on claims of one job
    MaxOutside,         \* bound on changes by others
    None

ASSUME StepLedgerAssumption ==
    /\ Resolution \in Nat \ {0} /\ RetryTimes \subseteq Nat
    /\ Forced \subseteq BOOLEAN
    /\ MaxAttempts \in Nat \ {0} /\ MaxClaims \in Nat
    /\ MaxOutside \in Nat /\ IsFiniteSet(Jobs)
    /\ DOMAIN WriteSet = Steps
    /\ \A s \in Steps : DOMAIN WriteSet[s].rows \subseteq Keys

VARIABLES
    job,                \* workflow_jobs
    work,               \* work_items: state, aggregate_version
    flow,               \* workflow_instances: state, aggregate_version, fence_token
    anchor,             \* accountability_anchors: kind, reference, generation
    rows,               \* child jobs, timers, effect intents and outbox rows by key
    audit,              \* audit_events in chain order
    esc,                \* escalations, in the order they were opened
    caller,             \* what each lease owner holds, asked and was told
    outside             \* how often someone else changed the work item

tables == <<job, work, flow, anchor, rows, audit, esc>>
stepVars == <<job, work, flow, anchor, rows, audit, esc, caller, outside>>

-----------------------------------------------------------------------------
(* Rows. *)

WorkStates == {"DISCOVERED", "READINESS_PENDING", "NEEDS_SPEC", "READY", "ACCEPTED",
               "PLANNED", "SCHEDULED", "DISPATCHING", "RUNNING", "VERIFYING_OUTCOME",
               "TARGET_REACHED", "CLOSING_SOURCE", "CLOSED", "WAITING_DEPENDENCY",
               "WAITING_APPROVAL", "RETRY_SCHEDULED", "BLOCKED_EXTERNAL",
               "BUDGET_EXHAUSTED", "REFUSED", "QUARANTINED", "CANCEL_REQUESTED",
               "CANCELLED", "ESCALATED"}
WorkflowStates == {"ACTIVE", "WAITING", "COMPLETED", "FAILED", "CANCELLED"}
AnchorKinds == {"WORKFLOW", "RUN", "TIMER", "RETRY", "APPROVAL", "ESCALATION",
                "CLOSURE", "CANCELLATION"}
RequiresDeadline == {"TIMER", "RETRY", "APPROVAL", "ESCALATION"}
ActiveEscalation == {"OPEN", "ACKNOWLEDGED"}

\* WorkflowStepFence: the claim and the versions read while it was held.
Fence == [job : Jobs, token : Nat, work : Nat, flow : Nat, flowToken : Nat, anchor : Nat]

\* What a caller asks for; the same request is sent again when in doubt.
CommitRequest == [kind : {"COMMIT"}, step : Steps]
FailRequest == [kind : {"FAIL"}, error : Errors, at : RetryTimes, severity : Severities,
                force : Forced]

\* The effective escalation as the audit event, the outbox message and the
\* job's result retain it: a snapshot of the row after the mutation.
Fact(e, row) == [id |-> e, severity |-> row.severity, jobs |-> row.jobs,
                 version |-> row.version]

StepRequests == CommitRequest \cup FailRequest

\* A child row: what it says, when it is due and whether it is well formed.
Contents == [body : UNION {{WriteSet[s].rows[k].body : k \in DOMAIN WriteSet[s].rows} : s \in Steps},
             due : Nat, well : BOOLEAN]

Facts == [id : Nat, severity : {"HIGH", "CRITICAL"}, jobs : SUBSET Jobs, version : Nat]
AuditRows == [job : Jobs, action : {"STEP", "WORKFLOW_JOB_EXHAUSTED"}, fact : Facts \cup {None},
              error : Errors \cup {None}]
EscalationRows == [status : {"OPEN", "ACKNOWLEDGED", "RESOLVED"}, severity : {"HIGH", "CRITICAL"},
                   jobs : SUBSET Jobs, version : Nat]

\* What a job row keeps of its end: the commit, the last failure, the letter.
Completions == [by : Callers, token : Nat, step : Steps]
Failures == [by : Callers, token : Nat, at : Nat, error : Errors]
Letters == [fact : Facts, error : Errors, audit : Nat,
            published : [job : Jobs, fact : Facts, error : Errors]]
JobStatuses == {"PENDING", "RUNNING", "RETRY", "COMPLETED", "DEAD"}
JobRows == [status : JobStatuses, token : Nat, owner : Callers \cup {None}, live : BOOLEAN,
            tries : Nat, completed : Completions \cup {None}, failure : Failures \cup {None},
            letter : Letters \cup {None}]
CallerRows == [phase : {"IDLE", "HOLDING", "READY", "TOLD"}, fence : Fence \cup {None},
               asked : StepRequests \cup {None},
               answer : {"INVALID", "ALREADY", "CONFLICT", "APPLIED", "REPEATED", "ESCALATED",
                         "RETRY_SCHEDULED", "UNKNOWN", None}]

\* A step's rows are rows, and SQL's NULL is none of the values of a column.
ASSUME RowAssumption ==
    /\ \A s \in Steps : \A k \in DOMAIN WriteSet[s].rows : WriteSet[s].rows[k] \in Contents
    /\ None \notin Callers /\ None \notin Contents /\ None \notin Completions
    /\ None \notin Failures /\ None \notin Letters

JobRow0 == [status |-> "PENDING", token |-> 0, owner |-> None, live |-> FALSE, tries |-> 0,
            completed |-> None, failure |-> None, letter |-> None]
Caller0 == [phase |-> "IDLE", fence |-> None, asked |-> None, answer |-> None]

StepInit ==
    /\ job = [j \in Jobs |-> JobRow0]
    /\ work = [state |-> "RUNNING", version |-> 1]
    /\ flow = [state |-> "ACTIVE", version |-> 1, token |-> 0, cursor |-> 0]
    /\ anchor = [kind |-> "NONE", reference |-> 0, generation |-> 0]
    /\ rows = [k \in Keys |-> None]
    /\ audit = <<>>
    /\ esc = <<>>
    /\ caller = [c \in Callers |-> Caller0]
    /\ outside = 0

-----------------------------------------------------------------------------
(* Validation. *)

AnchorCompatible(state, kind) ==
    CASE state = "CLOSED" -> kind = "CLOSURE"
      [] state = "CANCELLED" -> kind = "CANCELLATION"
      [] state = "WAITING_APPROVAL" -> kind = "APPROVAL"
      [] state = "RETRY_SCHEDULED" -> kind = "RETRY"
      [] state = "ESCALATED" -> kind = "ESCALATION"
      [] OTHER -> TRUE

ValidAccountability(a) == /\ a.kind \in AnchorKinds
                          /\ a.kind \in RequiresDeadline <=> a.deadline

\* Every child row names its contract, its key and its due time; the write set
\* says whether it does.
ValidRow(k, content) == k[1] \in {"JOB", "TIMER", "EFFECT", "OUTBOX"} /\ content.well

ValidStep(s) ==
    LET w == WriteSet[s] IN
    /\ ValidAccountability(w.anchor)
    /\ w.state \in WorkStates /\ w.workflow \in WorkflowStates
    /\ w.audited
    /\ \A k \in DOMAIN w.rows : ValidRow(k, w.rows[k])
    /\ AnchorCompatible(w.state, w.anchor.kind)

-----------------------------------------------------------------------------
(* The guards of the transaction. *)

OwnedClaim(c) == LET f == caller[c].fence IN
    /\ job[f.job].status = "RUNNING"
    /\ job[f.job].owner = c
    /\ job[f.job].token = f.token

LiveClaim(c) == OwnedClaim(c) /\ job[caller[c].fence.job].live

\* lock_step_aggregates and the compare-and-swap of the anchor; generation 0
\* stands for no anchor and never replaces one.
AggregatesCurrent(f) ==
    /\ work.version = f.work
    /\ flow.version = f.flow /\ flow.token = f.flowToken
    /\ anchor.generation = f.anchor

\* Fault: a key that is taken is taken to be the same row.
RowFitsAnyway(k, content) == TRUE

\* ON CONFLICT (tenant, key): the same row, every column, is adopted; another
\* is a conflict.
RowFits(k, content) == rows[k] \in {None, content}

RowsFit(s) == \A k \in DOMAIN WriteSet[s].rows : RowFits(k, WriteSet[s].rows[k])

\* completed_step_matches: this very claim completed the job with this commit.
CompletedBy(c) ==
    LET j == caller[c].fence.job IN
    /\ job[j].status = "COMPLETED"
    /\ job[j].completed.by = c /\ job[j].completed.token = caller[c].fence.token

Stored(t) == t - (t % Resolution)

\* repeated_failure_outcome: this very claim recorded this failure.
FailedBy(c) ==
    LET r == job[caller[c].fence.job] IN
    /\ r.status \in {"RETRY", "DEAD"} /\ r.failure # None
    /\ r.failure.by = c /\ r.failure.token = caller[c].fence.token

SameFailure(c) ==
    LET r == job[caller[c].fence.job] IN
    /\ FailedBy(c)
    /\ r.failure.at = caller[c].asked.at
    /\ r.failure.error = caller[c].asked.error

\* verify_dead_letter_exists: the audit event and the outbox message the dead
\* job names state the escalation it names.
LetterIsProven(j) ==
    LET l == job[j].letter IN
    /\ job[j].status = "DEAD" /\ l # None
    /\ l.fact.id \in 1..Len(esc)
    /\ l.audit \in 1..Len(audit)
    /\ audit[l.audit] = [job |-> j, action |-> "WORKFLOW_JOB_EXHAUSTED", fact |-> l.fact,
                         error |-> l.error]
    /\ l.published = [job |-> j, fact |-> l.fact, error |-> l.error]

-----------------------------------------------------------------------------
(* Effects of the transaction. *)

ReplaceAccountability(kind, reference) ==
    anchor' = [kind |-> kind, reference |-> reference, generation |-> anchor.generation + 1]

\* update_work_item and update_workflow.
UpdateAggregates(state, workflow, cursor) ==
    /\ work' = [state |-> state, version |-> work.version + 1]
    /\ flow' = [state |-> workflow, version |-> flow.version + 1,
                token |-> flow.token + 1, cursor |-> cursor]

ApplyStep(c, s) ==
    LET j == caller[c].fence.job
        w == WriteSet[s]
    IN  /\ rows' = [k \in Keys |-> IF k \in DOMAIN w.rows /\ rows[k] = None
                                   THEN w.rows[k] ELSE rows[k]]
        /\ audit' = Append(audit, [job |-> j, action |-> "STEP", fact |-> None, error |-> None])
        /\ UpdateAggregates(w.state, w.workflow, w.cursor)
        /\ ReplaceAccountability(w.anchor.kind, 0)
        /\ job' = [job EXCEPT ![j].status = "COMPLETED", ![j].owner = None, ![j].live = FALSE,
                       ![j].completed = [by |-> c, token |-> caller[c].fence.token, step |-> s]]
        /\ UNCHANGED esc

Normalized(severity) == IF severity = "CRITICAL" THEN "CRITICAL" ELSE "HIGH"

Active == {e \in 1..Len(esc) : esc[e].status \in ActiveEscalation}

\* Fault: the later dead letter speaks for the escalation.
MergedOver(row, j, severity) ==
    [row EXCEPT !.severity = Normalized(severity), !.jobs = {j}, !.version = @ + 1]

\* merge_active_dead_letter: nothing that was known is lost.
Merged(row, j, severity) ==
    [row EXCEPT !.severity = IF "CRITICAL" \in {@, severity} THEN "CRITICAL" ELSE "HIGH",
                !.jobs = @ \cup {j}, !.version = @ + 1]

\* insert_dead_letter_escalation: the active escalation of the category is
\* adopted, or one is opened.  Both are under the work item's lock.
DeadLetterEscalation(j, severity) ==
    IF Active # {}
    THEN LET e == CHOOSE x \in Active : TRUE
         IN  [id |-> e, row |-> Merged(esc[e], j, severity)]
    ELSE [id |-> Len(esc) + 1,
          row |-> [status |-> "OPEN", severity |-> Normalized(severity), jobs |-> {j},
                   version |-> 1]]

Failure(c) == [by |-> c, token |-> caller[c].fence.token,
               at |-> Stored(caller[c].asked.at), error |-> caller[c].asked.error]

Requeue(c) ==
    /\ LET j == caller[c].fence.job IN
       job' = [job EXCEPT ![j] = [job[j] EXCEPT !.status = "RETRY", !.owner = None,
                                                !.live = FALSE, !.failure = Failure(c)]]
    /\ UNCHANGED <<work, flow, anchor, rows, audit, esc>>

\* The job dies with its owner, its audit event and its outbox message.
Kill(c) ==
    LET j == caller[c].fence.job
        x == DeadLetterEscalation(j, caller[c].asked.severity)
        fact == Fact(x.id, x.row)
        letter == [fact |-> fact, error |-> caller[c].asked.error, audit |-> Len(audit) + 1,
                   published |-> [job |-> j, fact |-> fact, error |-> caller[c].asked.error]]
    IN  /\ esc' = IF x.id > Len(esc) THEN Append(esc, x.row) ELSE [esc EXCEPT ![x.id] = x.row]
        /\ audit' = Append(audit, [job |-> j, action |-> "WORKFLOW_JOB_EXHAUSTED",
                                   fact |-> fact, error |-> caller[c].asked.error])
        /\ UpdateAggregates("ESCALATED", "WAITING", flow.cursor)
        /\ ReplaceAccountability("ESCALATION", x.id)
        /\ job' = [job EXCEPT ![j] = [job[j] EXCEPT !.status = "DEAD", !.owner = None,
                       !.live = FALSE, !.failure = Failure(c), !.letter = letter]]
        /\ UNCHANGED rows

-----------------------------------------------------------------------------
(* Claims. *)

Waiting(j) == \/ job[j].status \in {"PENDING", "RETRY"}
              \/ job[j].status = "RUNNING" /\ ~job[j].live

\* A free or abandoned job is claimed; its previous owner does not notice.
Claim(c, j) ==
    /\ caller[c].phase = "IDLE"
    /\ Waiting(j) /\ job[j].token < MaxClaims /\ job[j].tries < MaxAttempts
    /\ job' = [job EXCEPT ![j] = [job[j] EXCEPT !.status = "RUNNING", !.owner = c, !.live = TRUE,
                                                !.token = @ + 1, !.tries = @ + 1]]
    /\ caller' = [caller EXCEPT ![c] = [Caller0 EXCEPT !.phase = "HOLDING",
           !.fence = [job |-> j, token |-> job[j].token + 1, work |-> 0, flow |-> 0,
                      flowToken |-> 0, anchor |-> 0]]]
    /\ UNCHANGED <<work, flow, anchor, rows, audit, esc, outside>>

\* The lease runs out while its owner works or waits for an answer.
Expire(j) ==
    /\ job[j].status = "RUNNING" /\ job[j].live
    /\ job' = [job EXCEPT ![j].live = FALSE]
    /\ UNCHANGED <<work, flow, anchor, rows, audit, esc, caller, outside>>

\* The versions are read without locks and the request is put together.
Prepare(c, request) ==
    /\ caller[c].phase = "HOLDING"
    /\ caller' = [caller EXCEPT ![c] = [caller[c] EXCEPT !.phase = "READY", !.asked = request,
           !.fence = [caller[c].fence EXCEPT !.work = work.version, !.flow = flow.version,
                                             !.flowToken = flow.token, !.anchor = anchor.generation]]]
    /\ UNCHANGED <<tables, outside>>

\* A caller in doubt decides anew under the claim and the versions it has.
Reconsider(c, request) ==
    /\ caller[c].phase = "READY" /\ caller[c].answer = "UNKNOWN"
    /\ request # caller[c].asked
    /\ caller' = [caller EXCEPT ![c].asked = request]
    /\ UNCHANGED <<tables, outside>>

Told(c, answer, lost) ==
    caller' = [caller EXCEPT ![c] = [caller[c] EXCEPT !.phase = IF lost THEN "READY" ELSE "TOLD",
                                                     !.answer = IF lost THEN "UNKNOWN" ELSE answer]]

\* commit_workflow_step: validate, lock, recognise, guard, write.
CommitOutcome(c) ==
    LET s == caller[c].asked.step IN
    CASE ~ValidStep(s) -> "INVALID"
      [] ValidStep(s) /\ CompletedBy(c) ->
             IF job[caller[c].fence.job].completed.step = s THEN "ALREADY" ELSE "CONFLICT"
      [] /\ ValidStep(s) /\ ~CompletedBy(c)
         /\ LiveClaim(c) /\ AggregatesCurrent(caller[c].fence) /\ RowsFit(s) -> "APPLIED"
      [] OTHER -> "CONFLICT"

CommitStep(c, lost) ==
    /\ caller[c].phase = "READY" /\ caller[c].asked.kind = "COMMIT"
    /\ Told(c, CommitOutcome(c), lost)
    /\ IF CommitOutcome(c) = "APPLIED" THEN ApplyStep(c, caller[c].asked.step)
       ELSE UNCHANGED tables
    /\ UNCHANGED outside

IsTerminal(c) == \/ caller[c].asked.force
                 \/ job[caller[c].fence.job].tries >= MaxAttempts

\* fail_workflow_step: recognise, guard, then requeue or kill.
FailOutcome(c) ==
    LET j == caller[c].fence.job IN
    CASE job[j].status \in {"RETRY", "DEAD"} ->
             IF ~SameFailure(c) \/ (job[j].status = "DEAD" /\ ~LetterIsProven(j))
             THEN "CONFLICT" ELSE "REPEATED"
      [] ~LiveClaim(c) /\ job[j].status \notin {"RETRY", "DEAD"} -> "CONFLICT"
      [] LiveClaim(c) /\ IsTerminal(c) ->
             IF AggregatesCurrent(caller[c].fence) THEN "ESCALATED" ELSE "CONFLICT"
      [] OTHER -> "RETRY_SCHEDULED"

FailStep(c, lost) ==
    /\ caller[c].phase = "READY" /\ caller[c].asked.kind = "FAIL"
    /\ Told(c, FailOutcome(c), lost)
    /\ CASE FailOutcome(c) = "ESCALATED" -> Kill(c)
         [] FailOutcome(c) = "RETRY_SCHEDULED" -> Requeue(c)
         [] OTHER -> UNCHANGED tables
    /\ UNCHANGED outside

\* The caller is done with its answer, or dies with or without one.
Forget(c) ==
    /\ caller[c].phase # "IDLE"
    /\ caller' = [caller EXCEPT ![c] = Caller0]
    /\ UNCHANGED <<tables, outside>>

-----------------------------------------------------------------------------
(* Everyone else. *)

\* The API moves the work item and its anchor.
MoveOutside ==
    /\ outside < MaxOutside /\ work.state \notin {"CLOSED", "CANCELLED"}
    /\ outside' = outside + 1
    /\ work' = [state |-> "CANCEL_REQUESTED", version |-> work.version + 1]
    /\ ReplaceAccountability("WORKFLOW", 0)
    /\ UNCHANGED <<job, flow, rows, audit, esc, caller>>

\* A child job or effect is tried later than it was due.
Delay(k) ==
    /\ k[1] \in {"JOB", "EFFECT"} /\ rows[k] # None
    /\ rows[k].due = 0
    /\ rows' = [rows EXCEPT ![k].due = 1]
    /\ UNCHANGED <<job, work, flow, anchor, audit, esc, caller, outside>>

\* An operator acknowledges or resolves an escalation.
Attend(e, status) ==
    /\ esc[e].status \in ActiveEscalation /\ status # esc[e].status
    /\ esc' = [esc EXCEPT ![e] = [esc[e] EXCEPT !.status = status, !.version = @ + 1]]
    /\ UNCHANGED <<job, work, flow, anchor, rows, audit, caller, outside>>

ClaimStep(c, j) == Claim(c, j) \/ Expire(j)

\* A caller ends its step with one of the requests, or does not.
CallerStep(c, requests) ==
    \/ \E r \in requests : Prepare(c, r) \/ Reconsider(c, r)
    \/ \E lost \in BOOLEAN : CommitStep(c, lost) \/ FailStep(c, lost)
    \/ Forget(c)

AttendStep == \E e \in 1..Len(esc), st \in {"ACKNOWLEDGED", "RESOLVED"} : Attend(e, st)

StepNext ==
    \/ \E c \in Callers, j \in Jobs : ClaimStep(c, j)
    \/ \E c \in Callers : CallerStep(c, StepRequests)
    \/ MoveOutside
    \/ \E k \in Keys : Delay(k)
    \/ AttendStep

StepSpec == StepInit /\ [][StepNext]_stepVars

-----------------------------------------------------------------------------
(* Properties. *)

\* The columns the transaction writes have the values the schema allows, and a
\* claim has an owner exactly while it runs (steps.rs:144, 165).
StepTypeOK ==
    /\ job \in [Jobs -> JobRows] /\ rows \in [Keys -> Contents \cup {None}]
    /\ audit \in Seq(AuditRows) /\ esc \in Seq(EscalationRows)
    /\ caller \in [Callers -> CallerRows] /\ outside \in Nat
    /\ \A j \in Jobs :
           /\ job[j].status = "RUNNING" <=> job[j].owner # None
           /\ job[j].status = "COMPLETED" <=> job[j].completed # None
           /\ job[j].status = "DEAD" <=> job[j].letter # None
    /\ work.state \in WorkStates /\ flow.state \in WorkflowStates
    /\ anchor.kind \in AnchorKinds \cup {"NONE"}

Ended == {j \in Jobs : job[j].status \in {"COMPLETED", "DEAD"}}

\* However often a request is repeated after a lost answer, and whoever else
\* claims the job in between, a job moves the work item, the workflow with its
\* fence and the anchor once, and leaves one audit event
\* (steps.rs:795, 900).
MovedOncePerJob ==
    LET n == Cardinality(Ended) IN
    /\ work.version = 1 + outside + n
    /\ flow.version = 1 + n /\ flow.token = n
    /\ anchor.generation = outside + n
    /\ Len(audit) = n

\* What a caller is told is true: success means that its own claim completed
\* the job with exactly its write set, and a conflict means that it did not, so
\* that the caller may give the work up (steps.rs:1140).
AnswersAreTrue ==
    \A c \in Callers :
        (caller[c].phase = "TOLD" /\ caller[c].asked.kind = "COMMIT") =>
            (caller[c].answer \in {"APPLIED", "ALREADY"} <=>
                 job[caller[c].fence.job].completed =
                     [by |-> c, token |-> caller[c].fence.token,
                      step |-> caller[c].asked.step])

\* A completed step wrote all it names: no row of its write set belongs to
\* another step that used the same key for something else
\* (steps.rs:204, 226, 1340, 1404).
CompletedMeansWritten ==
    \A j \in Jobs : job[j].status = "COMPLETED" =>
        LET w == WriteSet[job[j].completed.step].rows IN
        \A k \in DOMAIN w : rows[k] # None /\ rows[k].body = w[k].body

\* A dead job can always be proved: the audit event and the outbox message it
\* names state the escalation it names as it was when the job died, whatever
\* happened to the escalation since, so a repeated report is recognised
\* (steps.rs:1992).
DeadLettersAreProven == \A j \in Jobs : job[j].status = "DEAD" => LetterIsProven(j)

\* A failure that was recorded is recognised when its answer was lost, as long
\* as nobody has claimed the job again and the time it names survives the
\* column it is stored in (steps.rs:2064).
FailureIsRecognised ==
    \A c \in Callers :
        (/\ caller[c].phase = "TOLD" /\ caller[c].asked.kind = "FAIL"
         /\ caller[c].answer = "CONFLICT" /\ caller[c].asked.at % Resolution = 0)
        => ~(FailedBy(c) /\ job[caller[c].fence.job].failure = Failure(c))

\* A second caller that reports another failure under the same claim is told
\* so: an answer of success is about the failure that is stored
\* (steps.rs:2097).
RecognisedIsStored ==
    \A c \in Callers :
        (caller[c].phase = "TOLD" /\ caller[c].answer = "REPEATED" /\ FailedBy(c)) =>
            job[caller[c].fence.job].failure = Failure(c)

\* Whatever steps, failures and other writers interleave, a work item that
\* rests in a state nobody drives is anchored by what ends that state: closed
\* by its closure, waiting for a retry by the retry, escalated by the escalation
\* a committed step brought along (reference 0) or by one that was opened here
\* and names the job that died (steps.rs:2438).
StateHasItsOwner ==
    /\ work.state = "CLOSED" => anchor.kind = "CLOSURE"
    /\ work.state = "RETRY_SCHEDULED" => anchor.kind = "RETRY"
    /\ work.state = "ESCALATED" =>
           /\ anchor.kind = "ESCALATION"
           /\ anchor.reference # 0 =>
                  /\ anchor.reference \in 1..Len(esc)
                  /\ \E j \in esc[anchor.reference].jobs : job[j].status = "DEAD"

\* An escalation that gathers dead letters forgets none of them and is never
\* made less severe (steps.rs:342).
EscalationsOnlyGrow ==
    [][\A e \in 1..Len(esc) :
           /\ esc[e].jobs \subseteq esc'[e].jobs
           /\ esc[e].severity = "CRITICAL" => esc'[e].severity = "CRITICAL"]_stepVars

\* A step ends once and as it was told: the parts above that are about commits.
StepsAreTrue ==
    /\ StepTypeOK
    /\ MovedOncePerJob
    /\ AnswersAreTrue
    /\ CompletedMeansWritten
    /\ StateHasItsOwner

\* A failure is owned by an escalation that only grows, can be proved and is
\* recognised when it is reported again: the parts above that are about
\* failures.
FailuresAreOwned ==
    /\ [](DeadLettersAreProven /\ FailureIsRecognised /\ RecognisedIsStored)
    /\ EscalationsOnlyGrow
=============================================================================
