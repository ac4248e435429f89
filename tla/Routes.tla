------------------------------- MODULE Routes -------------------------------
(***************************************************************************)
(* Which process may serve which durable job: the registry of handlers a   *)
(* process builds when it starts, the poll of its reactor step by step,    *)
(* the timers that become jobs, and the readiness answer of its API, while *)
(* processes of different builds and workers share one queue.              *)
(***************************************************************************)
EXTENDS Naturals, FiniteSets

CONSTANTS
    Processes,    \* server processes
    WorkerIds,    \* Runmill workers
    Jobs,         \* job ids; the claim batch is at least as large
    Timers,       \* timer ids, each of one generation
    Types,        \* job types the builds recognise
    Canonical,    \* [Processes -> [Types -> contract]]: production_activity_contract_id
    Envelopes,    \* envelopes of the jobs that may be enqueued
    TimerRoutes,  \* routes [type, contract] of the timers that may be scheduled
    Offered,      \* handlers a process may try to install
    MaxAttempts,  \* max_attempts of every job
    MaxCrash      \* bound on crashes

Malformed == "MALFORMED"
Nobody == "NONE"

VARIABLES
    registry,  \* HandlerRegistry of each process
    pc,        \* where each process is in its start or its poll
    held,      \* jobs a process has claimed and is executing
    jobs,      \* workflow_jobs
    timers,    \* workflow_timers
    crashes    \* crashes so far

routeVars == <<registry, pc, held, jobs, timers, crashes>>

-----------------------------------------------------------------------------
(***************************************************************************)
(* Routes and handlers.                                                    *)
(***************************************************************************)
PRODUCTION_JOB_TYPES ==
    {"INTAKE_SYNC", "ADVANCE_ACCEPTED_WORK_ITEM", "REQUEST_WORK_ITEM_CANCELLATION",
     "APPLY_SIGNED_APPROVAL_DECISION", "RECONCILE_WORKER", "OBSERVE_RUNMILL_RUN",
     "RETAIN_RUNMILL_TERMINAL_EVIDENCE", "VERIFY_EVIDENCE", "CLOSE_SOURCE"}

\* is_canonical_worker_scoped_job_type
WorkerScoped == {"RECONCILE_WORKER", "REQUEST_WORK_ITEM_CANCELLATION",
                 "OBSERVE_RUNMILL_RUN", "RETAIN_RUNMILL_TERMINAL_EVIDENCE"}

Retention == "RETAIN_RUNMILL_TERMINAL_EVIDENCE"

\* JobClaimScope: the type the scope is for and its worker.
Unscoped == <<"UNSCOPED", Nobody>>
Scopes == {Unscoped} \cup (WorkerScoped \X WorkerIds)

\* A handler, ready or a placeholder that fails closed.
Handlers == [type : PRODUCTION_JOB_TYPES, contract : Nat, ready : BOOLEAN, scope : Scopes]
UnavailableJobHandler(p, t) ==
    [type |-> t, contract |-> Canonical[p][t], ready |-> FALSE, scope |-> Unscoped]

\* An envelope: its immutable route, and whether the rest of the payload is
\* well formed.  Whether the durable run and stream agree with the route is
\* part of the job, for it may change.
EnvelopeOf(t, c, w) == [type |-> t, contract |-> c, worker |-> w, wellFormed |-> TRUE]

EnvelopeTable ==
    [type : PRODUCTION_JOB_TYPES, contract : Nat, worker : WorkerIds \cup {Malformed, Nobody},
     wellFormed : BOOLEAN]

\* Placeholders are registered for every type the route scan can claim, and
\* nothing outside the recognised types is ever enqueued or scheduled.
ASSUME RoutesAssumption ==
    /\ {Malformed, Nobody} \cap WorkerIds = {} /\ Nobody \notin Timers
    /\ Types \subseteq PRODUCTION_JOB_TYPES
    /\ WorkerScoped \subseteq Types
    /\ Canonical \in [Processes -> [PRODUCTION_JOB_TYPES -> Nat]]
    /\ Envelopes \subseteq EnvelopeTable /\ Offered \subseteq Handlers
    /\ TimerRoutes \subseteq [type : PRODUCTION_JOB_TYPES, contract : Nat]
    /\ MaxAttempts \in Nat \ {0} /\ MaxCrash \in Nat

NoJob == [status |-> "NONE"]
NewJob(e, bound, timer) ==
    [status |-> "PENDING", attempts |-> 0, envelope |-> e, bound |-> bound, timer |-> timer]

\* A ready handler of a worker-scoped type names its one worker; nothing
\* else has a worker.
validate_claim_scope(h) ==
    IF h.ready /\ h.type \in WorkerScoped
    THEN h.scope # Unscoped /\ h.scope[1] = h.type
    ELSE h.scope = Unscoped

validate_activity_contract_id(p, h) ==
    h.type \in PRODUCTION_JOB_TYPES => h.contract = Canonical[p][h.type]

handler_is_ready(reg, t) == t \in DOMAIN reg /\ reg[t].ready

\* Verifying creates a closure obligation: the process must serve that too.
validate_activity_dependencies(reg, h) ==
    h.type = "VERIFY_EVIDENCE" /\ h.ready => handler_is_ready(reg, "CLOSE_SOURCE")

\* register, as the guard of each of its uses.
register(p, reg, h) ==
    /\ h.type \notin DOMAIN reg
    /\ validate_claim_scope(h) /\ validate_activity_contract_id(p, h)
    /\ validate_activity_dependencies(reg, h)

\* A placeholder for every recognised type.
fail_closed_production(p) == [t \in Types |-> UnavailableJobHandler(p, t)]

-----------------------------------------------------------------------------
(***************************************************************************)
(* The routes of a registry, and how the statements use them.              *)
(***************************************************************************)
Known(p) == {<<t, registry[p][t].contract>> : t \in DOMAIN registry[p]}
ReadyHandlers(p) == {registry[p][t] : t \in {u \in DOMAIN registry[p] : registry[p][u].ready}}

\* ready_claim_set: pairs of a job type and a contract, and pairs of a worker
\* and a contract for each worker-scoped type.
UnscopedRoutes(p) == {<<h.type, h.contract>> : h \in {g \in ReadyHandlers(p) : g.scope = Unscoped}}
WorkerRoutes(p, t) ==
    {<<h.scope[2], h.contract>> : h \in {g \in ReadyHandlers(p) : g.scope[1] = t}}

scoped_timer_reject_job_types(p) ==
    {t \in DOMAIN registry[p] : t \in WorkerScoped \/ registry[p][t].scope # Unscoped}

Running == {p \in Processes : pc[p] \notin {"down", "booting", "stopped"}}
Live(j) == jobs[j].status \in {"PENDING", "RUNNING"}

\* PENDING, or RUNNING on a lease nobody renews any more.
Due(j) == \/ jobs[j].status = "PENDING"
          \/ jobs[j].status = "RUNNING" /\ \A p \in Processes : j \notin held[p]

RouteOf(e) == <<e.type, e.contract>>

\* The durable run, stream and session behind the job name the same worker.
Bound(j) == jobs[j].envelope.type = "RECONCILE_WORKER" \/ jobs[j].bound

\* The same for the statements that claim no work.  Of a retention they ask
\* the authoritative run and the TERMINAL_READY stream, not the session that
\* would read the evidence; nothing takes those two away again.
Standing(j) == jobs[j].envelope.type = Retention \/ Bound(j)

\* This process has the ready handler of the job's worker.
RoutedTo(p, j) ==
    LET e == jobs[j].envelope IN
    e.type \in WorkerScoped /\ <<e.worker, e.contract>> \in WorkerRoutes(p, e.type)

\* The route part of CLAIM_READY_JOBS_SQL.
Served(p, j) ==
    \/ RouteOf(jobs[j].envelope) \in UnscopedRoutes(p)
    \/ RoutedTo(p, j) /\ Bound(j)

Claimable(p) == {j \in Jobs : Live(j) /\ Due(j) /\ jobs[j].attempts < MaxAttempts /\ Served(p, j)}

\* CLAIM_ORPHANED_EXHAUSTED_JOBS_SQL
Orphaned(p) ==
    {j \in Jobs : /\ jobs[j].status = "RUNNING" /\ Due(j) /\ jobs[j].attempts >= MaxAttempts
                  /\ \/ RouteOf(jobs[j].envelope) \in UnscopedRoutes(p)
                     \/ RoutedTo(p, j) /\ Standing(j)}

\* Fault: a job of another build's contract is taken for a malformed one.
RouteInvalidByType(p) ==
    {j \in Jobs : /\ Live(j) /\ Due(j)
                  /\ jobs[j].envelope.type \in WorkerScoped \ {Retention}
                  /\ jobs[j].envelope.worker = Malformed \/ ~Bound(j)}

\* CLAIM_ROUTE_INVALID_SCOPED_JOB_SQL: three of the four scoped types, with
\* the contract this build installs.
RouteInvalid(p) ==
    {j \in Jobs : /\ Live(j) /\ Due(j)
                  /\ jobs[j].envelope.type \in WorkerScoped \ {Retention}
                  /\ jobs[j].envelope.contract = Canonical[p][jobs[j].envelope.type]
                  /\ jobs[j].envelope.worker = Malformed \/ ~Bound(j)}

\* Unavailable: no ready handler of the type at all.
Unavailable(p, t) == WorkerRoutes(p, t) = {}

\* CLAIM_KNOWN_UNSERVICEABLE_DUE_JOB_SQL
KnownUnserviceable(p) ==
    {j \in Jobs :
        LET e == jobs[j].envelope IN
        /\ Live(j) /\ Due(j) /\ RouteOf(e) \in Known(p)
        /\ IF e.type \in WorkerScoped
           THEN /\ Unavailable(p, e.type) /\ e.worker \in WorkerIds
                /\ e.wellFormed /\ Standing(j)
           ELSE RouteOf(e) \notin UnscopedRoutes(p)}

\* JobClaimScope::matches and the contract check, before a handler runs.
Matches(p, j) ==
    LET h == registry[p][jobs[j].envelope.type] IN
    /\ jobs[j].envelope.type \in DOMAIN registry[p]
    /\ h.scope = Unscoped \/ h.scope = <<jobs[j].envelope.type, jobs[j].envelope.worker>>
    /\ h.contract = jobs[j].envelope.contract

RoutesInit ==
    /\ registry = [p \in Processes |-> [t \in {} |-> {}]]
    /\ pc = [p \in Processes |-> "down"] /\ held = [p \in Processes |-> {}]
    /\ jobs = [j \in Jobs |-> NoJob]
    /\ timers = [k \in Timers |-> [status |-> "NONE"]]
    /\ crashes = 0

-----------------------------------------------------------------------------
(***************************************************************************)
(* Starting a process.                                                     *)
(***************************************************************************)
\* main: the placeholders first.
Boot(p) ==
    /\ pc[p] \in {"down", "stopped"}
    /\ \A t \in Types : register(p, [u \in {} |-> {}], UnavailableJobHandler(p, t))
    /\ registry' = [registry EXCEPT ![p] = fail_closed_production(p)]
    /\ pc' = [pc EXCEPT ![p] = "booting"] /\ held' = [held EXCEPT ![p] = {}]
    /\ UNCHANGED <<jobs, timers, crashes>>

\* A recognised type whose placeholder is still there, by a ready handler.
replace_unavailable(p, h) ==
    /\ pc[p] = "booting"
    /\ h.type \in PRODUCTION_JOB_TYPES /\ h.ready
    /\ h.type \in DOMAIN registry[p] /\ ~registry[p][h.type].ready
    /\ validate_claim_scope(h) /\ validate_activity_contract_id(p, h)
    /\ validate_activity_dependencies(registry[p], h)
    /\ registry' = [registry EXCEPT ![p] = [registry[p] EXCEPT ![h.type] = h]]
    /\ UNCHANGED <<pc, held, jobs, timers, crashes>>

\* The registry is fixed and the reactor runs.
Start(p) ==
    /\ pc[p] = "booting" /\ pc' = [pc EXCEPT ![p] = "check"]
    /\ UNCHANGED <<registry, held, jobs, timers, crashes>>

-----------------------------------------------------------------------------
(***************************************************************************)
(* One poll.                                                               *)
(***************************************************************************)
Goto(p, label) == pc' = [pc EXCEPT ![p] = label]

\* A due job this process knows no exact handler for ends its supervisor.
reject_unknown_or_incompatible_due_job(p) ==
    /\ pc[p] = "check"
    /\ Goto(p, IF \E j \in Jobs : Live(j) /\ Due(j) /\ RouteOf(jobs[j].envelope) \notin Known(p)
               THEN "stopped" ELSE "route")
    /\ UNCHANGED <<registry, held, jobs, timers, crashes>>

\* No attempt is left.
Exhausted(j, s) ==
    [jobs EXCEPT ![j] = [jobs[j] EXCEPT !.status = s, !.attempts = MaxAttempts]]

\* A scan claims a row past its last attempt and dead-letters it; or the
\* process dies between the two.
Doom(p, candidates, label, next) ==
    /\ pc[p] = label
    /\ \/ \E j \in candidates :
            \/ jobs' = Exhausted(j, "DEAD") /\ UNCHANGED <<pc, crashes>>
            \/ /\ crashes < MaxCrash /\ crashes' = crashes + 1 /\ Goto(p, "down")
               /\ jobs' = Exhausted(j, "RUNNING")
       \/ candidates = {} /\ Goto(p, next) /\ UNCHANGED <<jobs, crashes>>
    /\ UNCHANGED <<registry, held, timers>>

claim_one_route_invalid_scoped_job(p) == Doom(p, RouteInvalid(p), "route", "orphan")
claim_one_orphaned_exhausted_job(p) == Doom(p, Orphaned(p), "orphan", "unserviceable")
claim_one_known_unserviceable_due_job(p) == Doom(p, KnownUnserviceable(p), "unserviceable", "timers")

DueTimers == {k \in Timers : timers[k].status = "SCHEDULED" /\ timers[k].due}

reject_unknown_or_incompatible_due_timer(p) ==
    \E k \in DueTimers : RouteOf(timers[k].route) \notin Known(p)

reject_scoped_due_timer(p) ==
    \E k \in DueTimers : timers[k].route.type \in scoped_timer_reject_job_types(p)

\* LOCK_DUE_TIMERS_SQL
Promotable(p) == {k \in DueTimers : RouteOf(timers[k].route) \in UnscopedRoutes(p)}

Fired(k) == [timers EXCEPT ![k] = [timers[k] EXCEPT !.status = "FIRED"]]

\* The job's key is the timer and its generation: a second one is a conflict,
\* and the poll's transaction is rolled back.
promote_timer(k, j) ==
    /\ jobs[j] = NoJob
    /\ \A i \in Jobs : jobs[i] # NoJob => jobs[i].timer # k
    /\ jobs' = [jobs EXCEPT ![j] = NewJob(EnvelopeOf(timers[k].route.type,
                                            timers[k].route.contract, Nobody), FALSE, k)]
    /\ timers' = Fired(k)

promote_due_timers(p) ==
    /\ pc[p] = "timers"
    /\ \/ /\ reject_unknown_or_incompatible_due_timer(p) \/ reject_scoped_due_timer(p)
          /\ Goto(p, "stopped") /\ UNCHANGED <<jobs, timers>>
       \/ /\ ~reject_unknown_or_incompatible_due_timer(p) /\ ~reject_scoped_due_timer(p)
          /\ \/ \E k \in Promotable(p), j \in Jobs : promote_timer(k, j) /\ UNCHANGED pc
             \/ Promotable(p) = {} /\ Goto(p, "claim") /\ UNCHANGED <<jobs, timers>>
    /\ UNCHANGED <<registry, held, crashes>>

\* A claim that does not match the handler stops the supervisor with the
\* claims in its hands.
claim_ready_jobs(p) ==
    /\ pc[p] = "claim"
    /\ held' = [held EXCEPT ![p] = Claimable(p)]
    /\ Goto(p, IF \A j \in Claimable(p) : Matches(p, j) THEN "run" ELSE "stopped")
    /\ jobs' = [j \in Jobs |-> IF j \in Claimable(p)
                               THEN [jobs[j] EXCEPT !.status = "RUNNING",
                                                     !.attempts = jobs[j].attempts + 1]
                               ELSE jobs[j]]
    /\ UNCHANGED <<registry, timers, crashes>>

\* The handler completes the job, or fails and the job is retried or dead.
execute_claimed_job(p, j) ==
    /\ pc[p] = "run" /\ j \in held[p]
    /\ \E s \in {"COMPLETED", IF jobs[j].attempts < MaxAttempts THEN "PENDING" ELSE "DEAD"} :
          jobs' = [jobs EXCEPT ![j] = [jobs[j] EXCEPT !.status = s]]
    /\ held' = [held EXCEPT ![p] = held[p] \ {j}]
    /\ UNCHANGED <<registry, pc, timers, crashes>>

EndOfPoll(p) ==
    /\ pc[p] = "run" /\ held[p] = {} /\ Goto(p, "check")
    /\ UNCHANGED <<registry, held, jobs, timers, crashes>>

-----------------------------------------------------------------------------
(***************************************************************************)
(* The rest of the system.                                                 *)
(***************************************************************************)
\* Bound: an id is kept free for the job of every scheduled timer.
Free == {j \in Jobs : jobs[j] = NoJob}
Scheduled == {k \in Timers : timers[k].status = "SCHEDULED"}
SpareId == Cardinality(Free) > Cardinality(Scheduled)

Enqueue(j, e, bound) ==
    /\ j \in Free /\ SpareId
    /\ jobs' = [jobs EXCEPT ![j] = NewJob(e, bound, Nobody)]
    /\ UNCHANGED <<registry, pc, held, timers, crashes>>

\* The run loses its authority, the stream moves on, or the session ends.
LoseRoute(j) ==
    /\ Live(j) /\ jobs[j].bound
    /\ jobs' = [jobs EXCEPT ![j] = [jobs[j] EXCEPT !.bound = FALSE]]
    /\ UNCHANGED <<registry, pc, held, timers, crashes>>

Schedule(k, r) ==
    /\ timers[k].status = "NONE" /\ SpareId
    /\ timers' = [timers EXCEPT ![k] = [status |-> "SCHEDULED", route |-> r, due |-> FALSE]]
    /\ UNCHANGED <<registry, pc, held, jobs, crashes>>

FallDue(k) ==
    /\ timers[k].status = "SCHEDULED" /\ ~timers[k].due
    /\ timers' = [timers EXCEPT ![k] = [timers[k] EXCEPT !.due = TRUE]]
    /\ UNCHANGED <<registry, pc, held, jobs, crashes>>

Crash(p) ==
    /\ p \in Running /\ crashes < MaxCrash
    /\ crashes' = crashes + 1 /\ Goto(p, "down") /\ held' = [held EXCEPT ![p] = {}]
    /\ UNCHANGED <<registry, jobs, timers>>

PollStep(p) ==
    \/ reject_unknown_or_incompatible_due_job(p)
    \/ claim_one_route_invalid_scoped_job(p)
    \/ claim_one_orphaned_exhausted_job(p)
    \/ claim_one_known_unserviceable_due_job(p)
    \/ promote_due_timers(p)
    \/ claim_ready_jobs(p)
    \/ \E j \in Jobs : execute_claimed_job(p, j)
    \/ EndOfPoll(p)

ProcessStep(p, offered) ==
    \/ Boot(p) \/ Start(p) \/ PollStep(p)
    \/ \E h \in offered : replace_unavailable(p, h)

EnqueueStep(j, envelopes) ==
    \/ \E e \in envelopes, b \in BOOLEAN : Enqueue(j, e, b)
    \/ LoseRoute(j)

TimerStep ==
    \E k \in Timers : FallDue(k) \/ \E r \in TimerRoutes : Schedule(k, r)

RoutesNext ==
    \/ \E p \in Processes : ProcessStep(p, Offered) \/ Crash(p)
    \/ \E j \in Jobs : EnqueueStep(j, Envelopes)
    \/ TimerStep

RoutesSpec == RoutesInit /\ [][RoutesNext]_routeVars

-----------------------------------------------------------------------------
(***************************************************************************)
(* Readiness of the API.                                                   *)
(***************************************************************************)
\* supports_persisted_job_route
supports_persisted_job_route(p, e, worker) ==
    IF e.type \in WorkerScoped
    THEN <<worker, e.contract>> \in WorkerRoutes(p, e.type)
    ELSE worker = Nobody /\ RouteOf(e) \in UnscopedRoutes(p)

\* The eight types the answer looks at, and the three it reads a worker of.
production_job_types == PRODUCTION_JOB_TYPES \ {Retention}
worker_id(e) ==
    IF e.type \in WorkerScoped \ {Retention} THEN e.worker ELSE Nobody

\* Fault: only jobs nobody has claimed yet are looked at.
ReadyPending(p) ==
    \A j \in Jobs : jobs[j].status = "PENDING" /\ jobs[j].envelope.type \in production_job_types =>
        \E w \in WorkerIds \cup {Nobody} : supports_persisted_job_route(p, jobs[j].envelope, w)

ready(p) ==
    \A j \in Jobs : Live(j) /\ jobs[j].envelope.type \in production_job_types =>
        supports_persisted_job_route(p, jobs[j].envelope, worker_id(jobs[j].envelope))

-----------------------------------------------------------------------------
(***************************************************************************)
(* Properties.                                                             *)
(***************************************************************************)
\* A process is in one place, and a row has the columns of its status.
RoutesTypeOK ==
    /\ pc \in [Processes -> {"down", "booting", "check", "route", "orphan", "unserviceable",
                             "timers", "claim", "run", "stopped"}]
    /\ held \in [Processes -> SUBSET Jobs] /\ crashes \in 0..MaxCrash
    /\ \A p \in Processes : /\ DOMAIN registry[p] \subseteq Types
                            /\ \A t \in DOMAIN registry[p] : registry[p][t] \in Handlers
    /\ \A j \in Jobs : jobs[j] = NoJob \/
           /\ jobs[j].status \in {"PENDING", "RUNNING", "COMPLETED", "DEAD"}
           /\ jobs[j].attempts \in 0..MaxAttempts /\ jobs[j].bound \in BOOLEAN
    /\ \A k \in Timers : timers[k].status \in {"NONE", "SCHEDULED", "FIRED"}

\* A job is executed only by the handler of its exact type, contract and
\* worker, however the rows and the processes changed since the poll began.
ServedByItsRoute ==
    \A p \in Processes : \A j \in held[p] :
        pc[p] = "run" =>
            LET e == jobs[j].envelope
                h == registry[p][e.type]
            IN  /\ h.ready /\ h.contract = e.contract
                /\ e.type \in WorkerScoped => h.scope = <<e.type, e.worker>>

\* The statements and the checks agree: a supervisor never stops with claims
\* in its hands, which nobody could serve before their leases expire.
ClaimsAreServiceable == \A p \in Processes : pc[p] = "stopped" => held[p] = {}

\* A poll moves a job only if its process has a handler of that exact type
\* and contract, also when the job fell due after the check at the start of
\* the poll: another build's jobs are left as they are.
UnknownIsUntouched ==
    [][\A p \in Processes : PollStep(p) => \A j \in Jobs :
          jobs[j] # NoJob /\ jobs'[j] # jobs[j] => RouteOf(jobs[j].envelope) \in Known(p)]_routeVars

\* A process that verifies evidence can also serve the closure a valid
\* verification creates, in whatever order its handlers were installed.
VerifierCanClose ==
    \A p \in Processes :
        handler_is_ready(registry[p], "VERIFY_EVIDENCE") => handler_is_ready(registry[p], "CLOSE_SOURCE")

\* A fired timer has exactly one job, whichever processes promoted it, and
\* that job needs no worker: its envelope names none.
TimerOwesOneJob ==
    \A k \in Timers :
        LET made == {j \in Jobs : jobs[j] # NoJob /\ jobs[j].timer = k} IN
        /\ Cardinality(made) = IF timers[k].status = "FIRED" THEN 1 ELSE 0
        /\ \A j \in made : jobs[j].envelope.type \notin WorkerScoped

\* The one job nothing answers for: a due retention while every process runs
\* and serves the type, but none of them may take this one, for it is another
\* worker's or the session it names is gone.  The scan for invalid routes and
\* the readiness answer do not look at the type.
Overlooked(j) ==
    /\ Live(j) /\ Due(j) /\ jobs[j].envelope.type = Retention
    /\ \A p \in Running : ~Unavailable(p, Retention) /\ j \notin Claimable(p) \cup Orphaned(p)
    /\ Running = Processes

\* A due job does not wait in silence: it is settled, or a supervisor stops
\* over the queue, or a running process answers that it is not ready.  The
\* exception is a retention that is overlooked; one that some process may
\* claim, recover or dead-letter is settled like any other.
DueIsNeverSilent ==
    \A j \in Jobs :
        (Live(j) /\ Due(j)) ~>
            \/ jobs[j].status \in {"COMPLETED", "DEAD"}
            \/ \E p \in Processes : pc[p] = "stopped" \/ (p \in Running /\ ~ready(p))
            \/ Overlooked(j)

\* Routes are kept: the parts above together.
RoutesAreKept ==
    /\ [](/\ RoutesTypeOK
          /\ ServedByItsRoute
          /\ ClaimsAreServiceable
          /\ VerifierCanClose
          /\ TimerOwesOneJob)
    /\ UnknownIsUntouched

=============================================================================
