----------------------------- MODULE JobLedger -----------------------------
(***************************************************************************)
(* The durable job ledger of the ASF control plane and the reactors that   *)
(* drain it: the rows of workflow_jobs and effect_intents, the claims that *)
(* reactor processes hold in memory, and every statement that claims,      *)
(* renews, settles or re-fences a job.                                     *)
(*                                                                         *)
(* Each statement is one PostgreSQL statement or transaction and is one    *)
(* action here.  Time is abstracted to the two comparisons the code makes: *)
(* due[j] is "available_at <= clock_timestamp()" (BecomeDue sets it, at    *)
(* once for a job that was enqueued available), and lease[j] is the number *)
(* of ticks left before lease_expires_at passes (0 = expired).             *)
(***************************************************************************)
EXTENDS Naturals, FiniteSets

CONSTANTS
    Jobs,           \* rows that may be enqueued
    Reactors,       \* lease owners: one reactor process each
    Effects,        \* external mutations a job may own while it runs
    MaxAttempts,    \* [Jobs -> positive Nat], workflow_jobs.max_attempts
    LeaseTicks,     \* length of a fresh lease
    Batch,          \* ReactorOptions.claim_batch_size
    Ready,          \* [Reactors -> SUBSET Jobs]: jobs with a ready route here
    Unserviceable,  \* [Reactors -> SUBSET Jobs]: known type, no ready handler
    RouteInvalid,   \* scoped jobs whose envelope matches no authoritative run
    MaxFence,       \* bound: claims from this fence on are not lost to faults
    NoOwner,        \* lease_owner IS NULL
    NoJob           \* owning_workflow_job_id IS NULL

ASSUME MaxAttemptsAssumption == MaxAttempts \in [Jobs -> Nat \ {0}]
ASSUME BoundsAssumption == /\ LeaseTicks \in Nat \ {0}
                           /\ Batch \in Nat \ {0}
                           /\ MaxFence \in Nat
ASSUME RoutesAssumption == /\ Ready \in [Reactors -> SUBSET Jobs]
                           /\ Unserviceable \in [Reactors -> SUBSET Jobs]
                           /\ RouteInvalid \subseteq Jobs
ASSUME NullsAssumption == NoOwner \notin Reactors /\ NoJob \notin Jobs

VARIABLES
    status,     \* [Jobs -> JobStatus]
    attempts,   \* [Jobs -> Nat]       attempt_count
    fence,      \* [Jobs -> Nat]       fence_token
    owner,      \* [Jobs -> Reactors \cup {NoOwner}]  lease_owner
    lease,      \* [Jobs -> 0..LeaseTicks]
    due,        \* [Jobs -> BOOLEAN]
    effect,     \* [Effects -> EffectRow]
    tasks       \* [Reactors -> SUBSET Claim]  ClaimedWorkflowJob in memory

jobVars == <<status, attempts, fence, owner, lease, due>>
vars == <<status, attempts, fence, owner, lease, due, effect, tasks>>

JobStatus == {"ABSENT", "PENDING", "RUNNING", "RETRY", "COMPLETED", "DEAD"}
EffectStatus ==
    {"ABSENT", "IN_FLIGHT", "OBSERVED", "AMBIGUOUS", "FAILED"}

\* What a reactor remembers of a claim.  A doomed claim was taken by one of
\* the reactor's rejecting scans: it is dead-lettered and never executed.
Claim == [job : Jobs, fence : Nat, attempt : Nat, doomed : BOOLEAN]

\* An effect row; job, owner and fence are set only while it is IN_FLIGHT.
EffectRow == [status : EffectStatus,
              job : Jobs \cup {NoJob},
              owner : Reactors \cup {NoOwner},
              fence : Nat]

Unowned(s) == [status |-> s, job |-> NoJob, owner |-> NoOwner, fence |-> 0]

Init ==
    /\ status = [j \in Jobs |-> "ABSENT"]
    /\ attempts = [j \in Jobs |-> 0]
    /\ fence = [j \in Jobs |-> 0]
    /\ owner = [j \in Jobs |-> NoOwner]
    /\ lease = [j \in Jobs |-> 0]
    /\ due = [j \in Jobs |-> FALSE]
    /\ effect = [e \in Effects |-> Unowned("ABSENT")]
    /\ tasks = [r \in Reactors |-> {}]

----------------------------------------------------------------------------
(* Guards shared by the statements.                                        *)

Expired(j) == status[j] = "RUNNING" /\ lease[j] = 0

\* Fault: an expired claim is not due again.
DueWithoutExpiry(j) == status[j] \in {"PENDING", "RETRY"} /\ due[j]

\* "PENDING or RETRY and available, or RUNNING past its lease".
Due(j) == \/ status[j] \in {"PENDING", "RETRY"} /\ due[j]
          \/ Expired(j)

\* Fault: the lease deadline is not part of the WHERE clause.
LiveClaimWithoutLease(r, c) ==
    status[c.job] = "RUNNING" /\ owner[c.job] = r /\ fence[c.job] = c.fence

\* The WHERE clause of every mutation by a claimant: still RUNNING, same
\* owner, same fence, lease not expired.
LiveClaim(r, c) ==
    /\ status[c.job] = "RUNNING"
    /\ owner[c.job] = r
    /\ fence[c.job] = c.fence
    /\ lease[c.job] > 0

\* Rows of effect_intents that reference the claim: the exact-claim foreign
\* key refuses any change of the job's status, owner or fence meanwhile.
Citing(j) == {e \in Effects : effect[e].status = "IN_FLIGHT" /\ effect[e].job = j}

OwnsEffect(r, c, e) ==
    /\ effect[e].status = "IN_FLIGHT"
    /\ effect[e].job = c.job
    /\ effect[e].owner = r
    /\ effect[e].fence = c.fence

----------------------------------------------------------------------------
(* Enqueueing and the passage of time.                                     *)

\* enqueue_job: INSERT ... ON CONFLICT DO NOTHING; a row inserted before is
\* left alone, so only the first call for an idempotency key changes state.
EnqueueJob(j) ==
    /\ status[j] = "ABSENT"
    /\ status' = [status EXCEPT ![j] = "PENDING"]
    /\ UNCHANGED <<attempts, fence, owner, lease, due, effect, tasks>>

BecomeDue(j) ==
    /\ status[j] \in {"PENDING", "RETRY"}
    /\ ~due[j]
    /\ due' = [due EXCEPT ![j] = TRUE]
    /\ UNCHANGED <<status, attempts, fence, owner, lease, effect, tasks>>

\* Some reactor still holds job j's current claim.
Held(j) == \E r \in Reactors : \E c \in tasks[r] : c.job = j /\ c.fence = fence[j]

LeaseTick(j) ==
    /\ status[j] = "RUNNING"
    /\ lease[j] > 0
    /\ fence[j] < MaxFence \/ ~Held(j)
    /\ lease' = [lease EXCEPT ![j] = @ - 1]
    /\ UNCHANGED <<status, attempts, fence, owner, due, effect, tasks>>

----------------------------------------------------------------------------
(* The four claiming statements of a poll.  Each releases the IN_FLIGHT    *)
(* effect of an expired claim to AMBIGUOUS, then installs a new fence.     *)

\* Fault: a claiming statement forgets the effect of the expired claim.
ForgottenEffects(S) == effect

ReleasedEffects(S) ==
    [e \in Effects |->
        IF /\ effect[e].status = "IN_FLIGHT"
           /\ effect[e].job \in S
           /\ Expired(effect[e].job)
        THEN Unowned("AMBIGUOUS") ELSE effect[e]]

\* Fault: a claim keeps the fence of the one it replaces.
SameFence(j) == fence[j]

NextFence(j) == fence[j] + 1

\* count is the attempt_count each claimed row is left with.
Refence(r, S, count, doomed) ==
    /\ status' = [j \in Jobs |-> IF j \in S THEN "RUNNING" ELSE status[j]]
    /\ attempts' = [j \in Jobs |-> IF j \in S THEN count[j] ELSE attempts[j]]
    /\ fence' = [j \in Jobs |-> IF j \in S THEN NextFence(j) ELSE fence[j]]
    /\ owner' = [j \in Jobs |-> IF j \in S THEN r ELSE owner[j]]
    /\ lease' = [j \in Jobs |-> IF j \in S THEN LeaseTicks ELSE lease[j]]
    /\ effect' = ReleasedEffects(S)
    /\ tasks' = [tasks EXCEPT ![r] =
           {[job |-> j, fence |-> NextFence(j),
             attempt |-> count[j], doomed |-> doomed] : j \in S}]
    /\ UNCHANGED due

\* attempt_count + 1, and GREATEST(attempt_count, max_attempts).
Incremented == [j \in Jobs |-> attempts[j] + 1]
Exhausted == [j \in Jobs |-> IF attempts[j] >= MaxAttempts[j]
                            THEN attempts[j] ELSE MaxAttempts[j]]

\* Fault: a ready job is claimed whatever its attempt count.
ClaimableForEver(r, j) == j \in Ready[r] /\ Due(j)

Claimable(r, j) == j \in Ready[r] /\ attempts[j] < MaxAttempts[j] /\ Due(j)

\* claim_ready_jobs: one statement claims a whole batch.  SKIP LOCKED lets a
\* concurrent poll take any of the rows, so any non-empty subset may result.
ClaimReadyJobs(r) ==
    /\ tasks[r] = {}
    /\ \E S \in SUBSET {j \in Jobs : Claimable(r, j)} :
           /\ S # {}
           /\ Cardinality(S) <= Batch
           /\ Refence(r, S, Incremented, FALSE)

\* claim_one_route_invalid_scoped_job.
ClaimRouteInvalid(r, j) ==
    /\ tasks[r] = {}
    /\ j \in RouteInvalid
    /\ Due(j)
    /\ Refence(r, {j}, Exhausted, TRUE)

Orphaned(j) == Expired(j) /\ attempts[j] >= MaxAttempts[j]

\* claim_one_orphaned_exhausted_job: the process that held the final attempt
\* is gone; re-fence without counting another attempt.
ClaimOrphanedExhausted(r, j) ==
    /\ tasks[r] = {}
    /\ j \in Ready[r]
    /\ Orphaned(j)
    /\ Refence(r, {j}, attempts, TRUE)

\* claim_one_known_unserviceable_due_job.
ClaimKnownUnserviceable(r, j) ==
    /\ tasks[r] = {}
    /\ j \in Unserviceable[r]
    /\ Due(j)
    /\ Refence(r, {j}, Exhausted, TRUE)

----------------------------------------------------------------------------
(* What the holder of a claim does.                                        *)

\* renew_job_lease, from the heartbeat that runs beside the handler.
RenewJobLease(r, c) ==
    /\ c \in tasks[r]
    /\ ~c.doomed
    /\ LiveClaim(r, c)
    /\ lease' = [lease EXCEPT ![c.job] = LeaseTicks]
    /\ UNCHANGED <<status, attempts, fence, owner, due, effect, tasks>>

\* A claimant's transaction that leaves RUNNING: the lease columns are
\* cleared, the follow-up jobs N are inserted (one that exists already is
\* adopted unchanged), and the reactor's task ends.
Settle(r, c, s, N) ==
    /\ c \in tasks[r]
    /\ LiveClaim(r, c)
    /\ \A j \in N : status[j] = "ABSENT"
    /\ status' = [j \in Jobs |-> IF j = c.job THEN s
                                 ELSE IF j \in N THEN "PENDING" ELSE status[j]]
    /\ owner' = [owner EXCEPT ![c.job] = NoOwner]
    /\ lease' = [lease EXCEPT ![c.job] = 0]
    /\ due' = [due EXCEPT ![c.job] = FALSE]
    /\ tasks' = [tasks EXCEPT ![r] = @ \ {c}]
    /\ UNCHANGED <<attempts, fence>>

\* complete_job, or a step commit that also enqueues the next jobs.
CompleteJob(r, c, N) ==
    /\ ~c.doomed
    /\ Citing(c.job) = {}
    /\ Settle(r, c, "COMPLETED", N)
    /\ UNCHANGED effect

\* fail_job: a failure with attempts left; available_at is the later of the
\* requested retry time and now.
FailJob(r, c) ==
    /\ ~c.doomed
    /\ c.attempt < MaxAttempts[c.job]
    /\ Citing(c.job) = {}
    /\ Settle(r, c, "RETRY", {})
    /\ UNCHANGED effect

\* dead_letter_exhausted_claim: the final failure, or a doomed claim.
DeadLetter(r, c) ==
    /\ c.attempt >= MaxAttempts[c.job]
    /\ Citing(c.job) = {}
    /\ Settle(r, c, "DEAD", {})
    /\ UNCHANGED effect

\* A handler's own terminal failure, whatever attempts are left: a structural
\* fault (an event gap) that no retry can cure.
FailTerminally(r, c) ==
    /\ ~c.doomed
    /\ Citing(c.job) = {}
    /\ Settle(r, c, "DEAD", {})
    /\ UNCHANGED effect

\* A statement of the claimant matched no row (the claim was lost), or the
\* exact-claim foreign key refused it.  The error ends poll_once, and with
\* it every task of the reactor's JoinSet.
ClaimRefused(r, c) ==
    /\ c \in tasks[r]
    /\ ~LiveClaim(r, c) \/ Citing(c.job) # {}
    /\ tasks' = [tasks EXCEPT ![r] = {}]
    /\ UNCHANGED <<jobVars, effect>>

\* The process dies, or any other error ends poll_once.
PollAborts(r) ==
    /\ tasks[r] # {}
    /\ \A c \in tasks[r] : c.fence < MaxFence
    /\ tasks' = [tasks EXCEPT ![r] = {}]
    /\ UNCHANGED <<jobVars, effect>>

----------------------------------------------------------------------------
(* External effects of a running job.                                      *)

\* A request nobody may be sending: never sent, released, or IN_FLIGHT under
\* a claim that is no longer live (which another job of the run may adopt).
Adoptable(e) ==
    \/ effect[e].status \in {"ABSENT", "FAILED", "AMBIGUOUS"}
    \/ effect[e].status = "IN_FLIGHT" /\ lease[effect[e].job] = 0

\* A preflight transaction persists the request IN_FLIGHT before any I/O,
\* naming the exact live claim.
BeginEffect(r, c, e) ==
    /\ c \in tasks[r]
    /\ ~c.doomed
    /\ LiveClaim(r, c)
    /\ Adoptable(e)
    /\ effect' = [effect EXCEPT ![e] = [status |-> "IN_FLIGHT", job |-> c.job,
                                        owner |-> r, fence |-> c.fence]]
    /\ UNCHANGED <<jobVars, tasks>>

\* The provider refused (FAILED) or its answer was lost (AMBIGUOUS).  Only
\* the effect row is checked: the lease may have expired meanwhile.
ReleaseEffect(r, c, e, s) ==
    /\ c \in tasks[r]
    /\ s \in {"FAILED", "AMBIGUOUS"}
    /\ OwnsEffect(r, c, e)
    /\ effect' = [effect EXCEPT ![e] = Unowned(s)]
    /\ UNCHANGED <<jobVars, tasks>>

\* The receipt and the completion of the job are one transaction.
ObserveEffect(r, c, e, N) ==
    /\ ~c.doomed
    /\ OwnsEffect(r, c, e) \/ effect[e].status = "AMBIGUOUS"
    /\ Citing(c.job) \subseteq {e}
    /\ effect' = [effect EXCEPT ![e] = Unowned("OBSERVED")]
    /\ Settle(r, c, "COMPLETED", N)

----------------------------------------------------------------------------
HolderStep(r, c) ==
    \/ RenewJobLease(r, c)
    \/ FailJob(r, c)
    \/ DeadLetter(r, c)
    \/ FailTerminally(r, c)
    \/ ClaimRefused(r, c)
    \/ \E e \in Effects : \/ BeginEffect(r, c, e)
                          \/ \E s \in {"FAILED", "AMBIGUOUS"} : ReleaseEffect(r, c, e, s)
    \/ \E N \in SUBSET Jobs : \/ CompleteJob(r, c, N)
                              \/ \E e \in Effects : ObserveEffect(r, c, e, N)

ClaimStep(r) ==
    \/ ClaimReadyJobs(r)
    \/ \E j \in Jobs : \/ ClaimRouteInvalid(r, j)
                       \/ ClaimOrphanedExhausted(r, j)
                       \/ ClaimKnownUnserviceable(r, j)

TimeStep(j) == EnqueueJob(j) \/ BecomeDue(j) \/ LeaseTick(j)

Next ==
    \/ \E j \in Jobs : TimeStep(j)
    \/ \E r \in Reactors : \/ ClaimStep(r)
                           \/ PollAborts(r)
                           \/ \E c \in tasks[r] : HolderStep(r, c)

Spec == Init /\ [][Next]_vars

\* Every task of a poll ends: handlers bound their I/O, and a lost claim is
\* noticed by the heartbeat or by the finalizing statement.
TaskEnds(r) ==
    \E c \in tasks[r] : \/ CompleteJob(r, c, {}) \/ FailJob(r, c)
                        \/ DeadLetter(r, c) \/ ClaimRefused(r, c)

\* The reactor polls for ever, and the clock advances.
Fairness ==
    /\ \A r \in Reactors :
           /\ WF_vars(TaskEnds(r))
           /\ WF_vars(ClaimReadyJobs(r))
           /\ \A j \in Jobs : /\ WF_vars(ClaimRouteInvalid(r, j))
                              /\ WF_vars(ClaimOrphanedExhausted(r, j))
                              /\ WF_vars(ClaimKnownUnserviceable(r, j))
    /\ \A j \in Jobs : WF_vars(BecomeDue(j)) /\ WF_vars(LeaseTick(j))

FairSpec == Spec /\ Fairness

----------------------------------------------------------------------------
(* Properties.                                                             *)

\* Every column has its type, and the lease columns are set exactly while a
\* job is RUNNING (the CHECK of workflow_jobs).
TypeOK ==
    /\ status \in [Jobs -> JobStatus]
    /\ attempts \in [Jobs -> Nat]
    /\ fence \in [Jobs -> Nat]
    /\ owner \in [Jobs -> Reactors \cup {NoOwner}]
    /\ lease \in [Jobs -> 0..LeaseTicks]
    /\ due \in [Jobs -> BOOLEAN]
    /\ effect \in [Effects -> EffectRow]
    /\ tasks \in [Reactors -> SUBSET Claim]
    /\ \A j \in Jobs : status[j] = "RUNNING" <=> owner[j] \in Reactors

\* No two tasks of the fleet ever hold the same claim: a fence token names
\* one claim of one reactor, across crashes, expiries and re-fencing, also
\* when a restarted process reuses its lease-owner name.
ClaimsAreUnique ==
    \A r1, r2 \in Reactors : \A c1 \in tasks[r1], c2 \in tasks[r2] :
        c1.job = c2.job /\ c1.fence = c2.fence => r1 = r2 /\ c1 = c2

\* Whatever claim, retry, dead-letter or recovery statement runs, an effect
\* that is IN_FLIGHT names the current claim of a RUNNING job: a provider
\* mutation is never left behind by a job that moved on without it, so the
\* exact-claim foreign key never refuses a claiming statement.
InFlightCitesExactClaim ==
    \A e \in Effects : effect[e].status = "IN_FLIGHT" =>
        LET j == effect[e].job
        IN  /\ j \in Jobs
            /\ status[j] = "RUNNING"
            /\ owner[j] = effect[e].owner
            /\ fence[j] = effect[e].fence

\* A job's handler is started at most max_attempts times: the starts still
\* remembered by some process have distinct attempt numbers within the
\* budget, however often the job was re-fenced for recovery.
AttemptBudget ==
    \A r1, r2 \in Reactors : \A c1 \in tasks[r1], c2 \in tasks[r2] :
        ~c1.doomed /\ ~c2.doomed /\ c1.job = c2.job =>
            /\ c1.attempt \in 1..MaxAttempts[c1.job]
            /\ c1.attempt = c2.attempt => c1.fence = c2.fence

\* Only the reactor whose live lease carries the job's current fence moves it
\* out of RUNNING, and a live lease is never taken over: an expired or
\* superseded claimant commits nothing.
OnlyHolderMoves ==
    \A j \in Jobs : status[j] = "RUNNING" =>
        /\ status'[j] # "RUNNING" =>
               /\ lease[j] > 0
               /\ \E c \in tasks[owner[j]] : c.job = j /\ c.fence = fence[j]
        /\ fence'[j] # fence[j] => lease[j] = 0

OnlyLiveHolderSettles == [][OnlyHolderMoves]_vars

\* Jobs some process of the fleet can serve or must reject.
Accountable(j) == \/ j \in RouteInvalid
                  \/ \E r \in Reactors : j \in Ready[r] \cup Unserviceable[r]

\* No job is silently lost: whatever crashes, lease expiries and lost claims
\* happen, an enqueued job is eventually COMPLETED or visibly DEAD.
EventuallySettled ==
    \A j \in Jobs : Accountable(j) =>
        (status[j] = "PENDING" ~> status[j] \in {"COMPLETED", "DEAD"})

\* A provider mutation does not stay IN_FLIGHT for ever: its outcome is
\* observed, refused, or released to reconciliation.
InFlightIsReleased ==
    \A e \in Effects :
        effect[e].status = "IN_FLIGHT" ~> effect[e].status # "IN_FLIGHT"

\* Nothing is left hanging: neither an enqueued job nor a provider mutation.
EverythingSettles == EventuallySettled /\ InFlightIsReleased
============================================================================
