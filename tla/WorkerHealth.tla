---------------------------- MODULE WorkerHealth ----------------------------
(***************************************************************************)
(* From Runmill's health report to the status of a worker                  *)
(* (adapters/runmill_control.rs, runtime/worker_reconciliation.rs).        *)
(*                                                                         *)
(* A RECONCILE_WORKER job asks the daemon for its health.  The daemon      *)
(* answers from what its probes saw last, by its own clock, and says       *)
(* itself whether it is ready.  ASF does not believe the word: the client  *)
(* recomputes every status from the published reasons, demands every       *)
(* safety detail, and accepts READY only from facts that are current by    *)
(* ASF's clock.  The answer becomes a status of the workers row in a       *)
(* transaction that is fenced by the job's claim and by the generation and *)
(* version the job was requested for; a quarantine alone ignores the       *)
(* latter.                                                                 *)
(*                                                                         *)
(* Module Admission takes the verdict of a probe as given and follows the  *)
(* reservations; this module is about where the verdict comes from.        *)
(***************************************************************************)
EXTENDS Integers

CONSTANTS
    Components,         \* the parts of the report that are followed
    Details,            \* the <<component, detail>> that may go wrong
    Reasons,            \* the reasons a daemon publishes, known to ASF or not
    Grave,              \* those by which it admits that a detail is off
    Twists,             \* the ways in which a report may contradict itself
    Offsets,            \* the daemon's clock minus ASF's
    MaxAge,             \* MAX_AGE_MS
    FutureSkew,         \* MAX_FUTURE_SKEW_MS
    Tolerance,          \* AGE_TOLERANCE_MS
    Deadline,           \* the longest a control call takes
    Concurrency,        \* max_concurrency of the workers row
    Maxima,             \* the concurrency Runmill may be configured with
    Errors,             \* the ways in which the call itself may fail
    Jobs,               \* RECONCILE_WORKER jobs
    MaxTries,           \* max_attempts of a job
    MaxTime,            \* bound on the clock
    MaxGeneration,      \* bound on worker generations
    MaxSessions,        \* bound on the sessions that are opened
    None

VARIABLES
    now,                \* ASF's clock
    daemon,             \* Runmill: its clock, its posture and what it last probed
    worker,             \* the workers row
    workerSession,      \* the worker's latest session: how many came before, its status
    reserved,           \* the worker's ACTIVE reservation sets
    job,                \* workflow_jobs of type RECONCILE_WORKER
    call                \* the handlers at work, by the job and fence they hold

healthVars == <<now, daemon, worker, workerSession, reserved, job, call>>

Status == {"READY", "DEGRADED", "REFUSING"}
WorkerStatus == {"REGISTERED", "READY", "DRAINING", "OFFLINE", "QUARANTINED"}
Claims == Jobs \X (1..MaxTries)

-----------------------------------------------------------------------------
(* What the client knows about a report.                                   *)

\* The details that must read as one exact value before a worker is admitted.
Denials == {"provider_credentials", "ctxlane_socket", "github_credentials",
            "asf_credentials", "backlog_credentials", "host_ssh_agent",
            "cloud_metadata", "other_workspaces", "docker_socket",
            "mcp_control_endpoint"}
Proofs ==
    ({"service"} \X {"state", "accepting_submissions", "recovery_complete"})
    \cup ({"database"} \X {"reachable", "schema_version", "integrity_check_passed",
                           "write_probe_passed"})
    \cup ({"worker"} \X {"scheduler_running", "fencing_store_ready"})
    \cup ({"sandbox"} \X ({"mechanism", "installed", "enforcement_self_test_passed",
                           "enforcement_downgraded", "fresh_candidate_verification",
                           "tool_network_policy_enforced", "verification_network_disabled"}
                          \cup Denials))
    \cup ({"ctxlane"} \X {"reachable", "mutually_authenticated", "automation_lease_probe_passed"})
    \cup ({"github"} \X {"credential_in_controller", "reachable", "authenticated",
                         "repository_reachable", "branch_push_allowed",
                         "pull_request_create_allowed", "exact_head_observation_ready",
                         "ci_context_read_ready", "reconciliation_ready", "merge_allowed",
                         "administration_allowed"})
    \cup ({"mcp"} \X {"private_control_ready", "controller_authenticated", "exposed_to_workers"})
    \cup ({"backlog"} \X {"selection_enabled", "mutations_enabled"})

\* The reasons that degrade, and all that are known.
DegradedWords ==
    ({"service"} \X {"recovering", "stopping", "not_accepting"})
    \cup ({"worker"} \X {"capacity_full", "queue_nonempty"})
    \cup ({"ctxlane"} \X {"unreachable", "lease_unavailable"})
    \cup ({"github"} \X {"unreachable", "unauthenticated", "capability_unavailable"})
    \cup ({"mcp"} \X {"control_unavailable", "controller_unauthenticated"})
Words ==
    ({"observation"} \X {"missing", "invalid", "stale", "future"})
    \cup ({"probe"} \X {"failed", "timeout"})
    \cup ({"service"} \X {"recovering", "stopping", "not_accepting", "contradictory"})
    \cup ({"database"} \X {"unreachable", "schema_mismatch", "integrity_failed",
                           "write_failed", "contradictory"})
    \cup ({"worker"} \X {"heartbeat_stale", "heartbeat_future", "scheduler_stopped",
                         "fencing_unavailable", "concurrency_mismatch",
                         "capacity_contradictory", "capacity_full", "queue_nonempty"})
    \cup ({"sandbox"} \X {"mechanism_mismatch", "unavailable", "enforcement_failed",
                          "downgraded", "verification_unavailable", "network_unenforced",
                          "denial_proof_failed"})
    \cup ({"ctxlane"} \X {"unreachable", "unauthenticated", "lease_unavailable",
                          "contradictory"})
    \cup ({"github"} \X {"credential_boundary_failed", "unreachable", "unauthenticated",
                         "capability_unavailable", "excess_authority", "contradictory"})
    \cup ({"mcp"} \X {"control_unavailable", "controller_unauthenticated",
                      "exposed_to_worker", "contradictory"})
    \cup ({"backlog"} \X {"selection_enabled", "mutations_enabled"})

\* A component of the report.  `details` says which details do not read as
\* they must (`off`) and whether any is not of its kind (`shaped`).
Part == [status : Status, observed : Int \cup {None}, age : Int \cup {None},
         reasons : SUBSET Reasons,
         details : [off : SUBSET Details, shaped : BOOLEAN] \cup {None}]
Capacity == [max : Nat, expected : Nat, active : Nat, queued : Nat, available : Nat]
Report == [checked : Int, status : Status, ready : BOOLEAN, beat : Int, beatAge : Int,
           capacity : Capacity, part : [Components -> Part]]

\* The status a component's reasons amount to.
Amounts(reasons) ==
    IF reasons = {} THEN "READY"
    ELSE IF reasons \subseteq DegradedWords THEN "DEGRADED"
    ELSE "REFUSING"

Worst(statuses) ==
    IF "REFUSING" \in statuses THEN "REFUSING"
    ELSE IF "DEGRADED" \in statuses THEN "DEGRADED"
    ELSE "READY"

ValidDetails(p) == p.details # None => p.details.shaped

ValidComponent(p) ==
    /\ p.reasons \subseteq Words
    /\ p.details = None => p.status = "REFUSING"
    /\ p.status = Amounts(p.reasons)
    /\ ValidDetails(p)

\* health_details: the details of a component that claims to be ready.
Usable(p) == /\ p.status = "READY" /\ p.reasons = {}
             /\ p.observed # None /\ p.age # None
             /\ p.details # None

CapacityIsConsistent(cap) ==
    /\ cap.max > 0 /\ cap.expected = cap.max
    /\ cap.active < cap.max /\ cap.queued = 0
    /\ cap.available = cap.max - cap.active

ReadyProofsValid(r) ==
    /\ r.status = "READY" /\ r.ready
    /\ \A c \in Components :
           /\ Usable(r.part[c])
           /\ \A d \in Proofs : d[1] = c => d \notin r.part[c].details.off
    /\ CapacityIsConsistent(r.capacity)

ValidReport(r) ==
    /\ r.ready <=> r.status = "READY"
    /\ r.status = "READY" => ReadyProofsValid(r)
    /\ \A c \in Components : ValidComponent(r.part[c])
    /\ r.status = Worst({r.part[c].status : c \in Components})

Apart(x, y) == IF x >= y THEN x - y ELSE y - x

IsCurrent(t, at) == t - at \in -FutureSkew..MaxAge

Coherent(r, at, age) ==
    /\ r.checked - at >= -FutureSkew
    /\ Apart(r.checked - at, age) <= Tolerance

ReadyHealthIsFresh(r, t) ==
    /\ IsCurrent(t, r.checked)
    /\ \A c \in Components :
           /\ r.part[c].observed # None /\ r.part[c].age # None
           /\ IsCurrent(t, r.part[c].observed)
           /\ Coherent(r, r.part[c].observed, r.part[c].age)
    /\ IsCurrent(t, r.beat)
    /\ Coherent(r, r.beat, r.beatAge)

\* control_error_code: the failures that say the worker is not to be trusted.
Unsafe == {"INVALID_CONFIGURATION", "INSECURE_REGISTRY", "INSECURE_SOCKET",
           "UNSUPPORTED_PROTOCOL", "INVALID_REQUEST", "INCOMPATIBLE_WORK_ORDER",
           "REQUEST_TOO_LARGE", "RESPONSE_TOO_LARGE", "MALFORMED_RESPONSE",
           "ADMISSION_BINDING_MISMATCH", "AMBIGUOUS_READ_OUTCOME"}
Transient == {"REGISTRY_UNAVAILABLE", "TIMEOUT", "RESPONSE_LOST",
              "TRANSPORT_UNAVAILABLE", "REMOTE_REJECTED", "REMOTE_ASF_ERROR"}

ControlErrorStatus(e) == IF e \in Unsafe THEN "QUARANTINED" ELSE "OFFLINE"

-----------------------------------------------------------------------------
(* Rows. *)

\* HealthObservation.  `sound`, `recent` and `amiss` are not in the program:
\* they record what the report rested on, for the properties.
Codes == Unsafe \cup Transient \cup {"READY_PROOF_MISMATCH", "READY_REPORT_STALE",
                                     "RUNMILL_READY", "RUNMILL_DEGRADED", "RUNMILL_REFUSING"}
Observed == [code : Codes, requested : WorkerStatus, ready : BOOLEAN, max : Nat \cup {None},
             sound : BOOLEAN, recent : BOOLEAN, amiss : BOOLEAN]
JobRow == [status : {"NONE", "PENDING", "RUNNING", "RETRY", "COMPLETED", "DEAD"},
           fence : 0..MaxTries, generation : Nat, version : Nat,
           result : [status : WorkerStatus, generation : Nat] \cup {None}]
Daemon == [offset : Offsets, max : Maxima, beat : Nat, probed : [Components -> Nat],
           found : SUBSET Details]

\* A detail that may go wrong is one the client demands, no grave reason only
\* degrades, and None is no value of a column.
ASSUME WorkerHealthAssumption ==
    /\ MaxAge \in Nat /\ FutureSkew \in Nat /\ Tolerance \in Nat /\ Deadline \in Nat
    /\ FutureSkew <= MaxAge
    /\ Concurrency \in Nat \ {0} /\ Maxima \subseteq Nat /\ MaxTries \in Nat \ {0}
    /\ MaxTime \in Nat /\ MaxGeneration \in Nat \ {0} /\ MaxSessions \in Nat
    /\ Offsets \subseteq Int
    /\ "worker" \in Components /\ Details \subseteq Proofs
    /\ Grave \cap DegradedWords = {} /\ Errors \subseteq Unsafe \cup Transient
    /\ None \notin Int \cup Observed /\ None \notin [off : SUBSET Details, shaped : BOOLEAN]

NoCall == [phase |-> "NONE", sent |-> 0, report |-> None, twist |-> "none", seen |-> None]

HealthInit ==
    /\ now = 0
    /\ daemon \in [offset : Offsets, max : Maxima, beat : {0},
                   probed : {[c \in Components |-> 0]}, found : {{}}]
    /\ worker = [status |-> "REGISTERED", generation |-> 1, version |-> 1]
    /\ workerSession = [count |-> 0, status |-> "NONE"]
    /\ reserved = 0
    /\ job = [k \in Jobs |-> [status |-> "NONE", fence |-> 0, generation |-> 0,
                              version |-> 0, result |-> None]]
    /\ call = [i \in Claims |-> NoCall]

-----------------------------------------------------------------------------
(* The daemon (external). *)

\* Its heartbeat may stop, and so may the probe of any component.
Beat ==
    /\ daemon.beat # now
    /\ daemon' = [daemon EXCEPT !.beat = now]
    /\ UNCHANGED <<now, worker, workerSession, reserved, job, call>>

\* The posture may have changed since the last probe, either way.
ProbeComponent(c, D) ==
    /\ daemon' = [daemon EXCEPT !.probed = [daemon.probed EXCEPT ![c] = now],
                                !.found = {d \in daemon.found : d[1] # c} \cup D]
    /\ daemon' # daemon
    /\ UNCHANGED <<now, worker, workerSession, reserved, job, call>>

Found(dm, c) == {d \in dm.found : d[1] = c}

\* The reasons an honest daemon names.
Honest(dm, c, R, active) ==
    IF Found(dm, c) # {} THEN R # {} /\ R \subseteq Grave
    ELSE IF c = "worker" /\ active = dm.max THEN R = {<<"worker", "capacity_full">>}
    ELSE R = {}

\* What a component says of itself at t, with one contradiction at most.
Told(dm, t, c, R, twist) ==
    LET said == IF twist = "hides" THEN {} ELSE R
    IN  [status |-> Amounts(said),
         observed |-> IF twist = "blind" THEN None ELSE dm.probed[c] + dm.offset,
         age |-> t - dm.probed[c] + (IF twist = "age" THEN Tolerance + 1 ELSE 0),
         reasons |-> said,
         details |-> IF twist = "bare" THEN None
                     ELSE [off |-> Found(dm, c), shaped |-> twist # "shape"]]

PublishedReport(dm, t, why, active, twist) ==
    LET part == [c \in Components |-> Told(dm, t, c, why[c], twist)]
        status == IF twist = "top" THEN "READY" ELSE Worst({part[c].status : c \in Components})
    IN  [checked |-> t + dm.offset, status |-> status, ready |-> status = "READY",
         beat |-> dm.beat + dm.offset, beatAge |-> t - dm.beat,
         capacity |-> [max |-> dm.max, expected |-> dm.max, active |-> active, queued |-> 0,
                       available |-> IF twist = "capacity" THEN dm.max + 1
                                     ELSE dm.max - active],
         part |-> part]

\* The answer leaves the daemon, which has `active` runs.
Answer(i, why, active, twist) ==
    /\ call[i].phase = "ASKED"
    /\ \A c \in Components : Honest(daemon, c, why[c], active)
    /\ call' = [call EXCEPT ![i] =
                   [call[i] EXCEPT !.phase = "ANSWERED", !.twist = twist,
                        !.report = PublishedReport(daemon, now, why, active, twist)]]
    /\ UNCHANGED <<now, daemon, worker, workerSession, reserved, job>>

-----------------------------------------------------------------------------
(* Time and the operators. *)

\* A call that has reached its deadline is over before time passes it.
Tick ==
    /\ now < MaxTime
    /\ \A i \in Claims :
           call[i].phase \in {"ASKED", "ANSWERED"} => now < call[i].sent + Deadline
    /\ now' = now + 1
    /\ UNCHANGED <<daemon, worker, workerSession, reserved, job, call>>

Held == workerSession.status \in {"ACTIVE", "EXPIRED"}

OpenSession ==
    /\ workerSession.count < MaxSessions /\ ~Held
    /\ worker.status # "QUARANTINED"
    /\ workerSession' = [count |-> workerSession.count + 1, status |-> "ACTIVE"]
    /\ UNCHANGED <<now, daemon, worker, reserved, job, call>>

\* expires_at passes, after that of every set: the rows stay ACTIVE, and the
\* session is no longer live.
ExpireSession ==
    /\ workerSession.status = "ACTIVE"
    /\ workerSession' = [workerSession EXCEPT !.status = "EXPIRED"]
    /\ UNCHANGED <<now, daemon, worker, reserved, job, call>>

CloseSession ==
    /\ Held /\ reserved = 0
    /\ workerSession' = [workerSession EXCEPT !.status = "CLOSED"]
    /\ UNCHANGED <<now, daemon, worker, reserved, job, call>>

\* The only way out of quarantine.
AdvanceGeneration(st) ==
    /\ worker.generation < MaxGeneration
    /\ ~Held
    /\ worker' = [worker EXCEPT !.generation = worker.generation + 1, !.status = st]
    /\ UNCHANGED <<now, daemon, workerSession, reserved, job, call>>

\* The status alone, by hand: sessions and sets stay as they are.
OperatorQuarantine ==
    /\ worker.status # "QUARANTINED"
    /\ worker' = [worker EXCEPT !.status = "QUARANTINED", !.version = worker.version + 1]
    /\ UNCHANGED <<now, daemon, workerSession, reserved, job, call>>

Admit ==
    /\ worker.status = "READY" /\ workerSession.status = "ACTIVE" /\ reserved < Concurrency
    /\ reserved' = reserved + 1
    /\ UNCHANGED <<now, daemon, worker, workerSession, job, call>>

Release ==
    /\ reserved > 0
    /\ reserved' = reserved - 1
    /\ UNCHANGED <<now, daemon, worker, workerSession, job, call>>

-----------------------------------------------------------------------------
(* The job and its handler. *)

\* The API requests a reconciliation of the worker as it is now.
RequestCheck(k) ==
    /\ job[k].status = "NONE"
    /\ job' = [job EXCEPT ![k] = [job[k] EXCEPT !.status = "PENDING",
                     !.generation = worker.generation, !.version = worker.version]]
    /\ UNCHANGED <<now, daemon, worker, workerSession, reserved, call>>

\* The claimed job's payload is parsed and the daemon is asked.
ClaimCheck(k) ==
    /\ job[k].status \in {"PENDING", "RETRY"}
    /\ job[k].fence < MaxTries
    /\ job' = [job EXCEPT ![k] = [job[k] EXCEPT !.status = "RUNNING", !.fence = job[k].fence + 1]]
    /\ call' = [call EXCEPT ![<<k, job[k].fence + 1>>] =
                    [NoCall EXCEPT !.phase = "ASKED", !.sent = now]]
    /\ UNCHANGED <<now, daemon, worker, workerSession, reserved>>

\* The lease runs out; the handler does not know.
LoseLease(k) ==
    /\ job[k].status = "RUNNING"
    /\ job' = [job EXCEPT ![k] = [job[k] EXCEPT !.status =
                     IF job[k].fence < MaxTries THEN "RETRY" ELSE "DEAD"]]
    /\ UNCHANGED <<now, daemon, worker, workerSession, reserved, call>>

\* Whether every fact the report states is really recent, and whether anything
\* at all is amiss with the daemon, its clock or its report.
Age(at) == now - (at - daemon.offset)
Recent(r) ==
    LET limit == MaxAge + FutureSkew + Deadline IN
    /\ Age(r.beat) <= limit
    /\ \A c \in Components : r.part[c].observed # None /\ Age(r.part[c].observed) <= limit
SoundReport(r) == \A c \in Components : r.part[c].details # None /\ r.part[c].details.off = {}
Amiss(i, r) ==
    \/ call[i].twist # "none" \/ ~SoundReport(r)
    \/ daemon.offset \notin -FutureSkew..FutureSkew
    \/ Age(r.beat) > MaxAge - FutureSkew
    \/ \E c \in Components : Age(r.part[c].observed) > MaxAge - FutureSkew

Failed(e) == [code |-> e, requested |-> ControlErrorStatus(e), ready |-> FALSE, max |-> None,
              sound |-> TRUE, recent |-> TRUE, amiss |-> e \notin Transient]

\* HealthObservation::from_result of an answer that passed the client.
Verdict(r, t) ==
    IF r.status = "READY" /\ ~ReadyProofsValid(r) THEN <<"READY_PROOF_MISMATCH", "QUARANTINED">>
    ELSE IF r.status = "READY" /\ ~ReadyHealthIsFresh(r, t)
         THEN <<"READY_REPORT_STALE", "QUARANTINED">>
    ELSE CASE r.status = "READY" -> <<"RUNMILL_READY", "READY">>
           [] r.status = "DEGRADED" -> <<"RUNMILL_DEGRADED", "DRAINING">>
           [] r.status = "REFUSING" -> <<"RUNMILL_REFUSING", "QUARANTINED">>

FromReport(i, r) ==
    IF ~ValidReport(r) THEN [Failed("MALFORMED_RESPONSE") EXCEPT !.amiss = Amiss(i, r)]
    ELSE [code |-> Verdict(r, now)[1], requested |-> Verdict(r, now)[2],
          ready |-> Verdict(r, now)[2] = "READY", max |-> r.capacity.max,
          sound |-> SoundReport(r), recent |-> Recent(r), amiss |-> Amiss(i, r)]

\* The observation is made when the answer is read, outside any transaction.
Observe(i) ==
    /\ call[i].phase = "ANSWERED"
    /\ call' = [call EXCEPT ![i] = [NoCall EXCEPT !.phase = "OBSERVED",
                                        !.seen = FromReport(i, call[i].report)]]
    /\ UNCHANGED <<now, daemon, worker, workerSession, reserved, job>>

\* The call fails, at its deadline at the latest.
CallFails(i, e) ==
    /\ call[i].phase \in {"ASKED", "ANSWERED"}
    /\ call' = [call EXCEPT ![i] = [NoCall EXCEPT !.phase = "OBSERVED", !.seen = Failed(e)]]
    /\ UNCHANGED <<now, daemon, worker, workerSession, reserved, job>>

\* lock_live_tenant_job: the handler still owns the claim it was given.
OwnsClaim(i) == job[i[1]].status = "RUNNING" /\ job[i[1]].fence = i[2]

Superseded(k) == \/ worker.generation # job[k].generation
                 \/ worker.version # job[k].version

\* Fault: the stored concurrency is not compared with the reported one.
QualifyUnbound(o) ==
    IF worker.status = "QUARANTINED" THEN "QUARANTINED"
    ELSE IF o.requested # "READY" \/ ~o.ready THEN o.requested
    ELSE IF workerSession.status # "ACTIVE" THEN "REGISTERED"
    ELSE IF reserved >= Concurrency THEN "DRAINING"
    ELSE "READY"

\* qualify_worker; the capabilities of the row are qualified.
Qualify(o) ==
    IF worker.status = "QUARANTINED" THEN "QUARANTINED"
    ELSE IF o.requested # "READY" \/ ~o.ready THEN o.requested
    ELSE IF o.max # Concurrency THEN "QUARANTINED"
    ELSE IF workerSession.status # "ACTIVE" THEN "REGISTERED"
    ELSE IF reserved >= Concurrency THEN "DRAINING"
    ELSE "READY"

Sever(status) ==
    IF status = "QUARANTINED"
    THEN /\ reserved' = 0
         /\ workerSession' = IF Held THEN [workerSession EXCEPT !.status = "REVOKED"] ELSE workerSession
    ELSE UNCHANGED <<workerSession, reserved>>

Complete(i, status) ==
    /\ job' = [job EXCEPT ![i[1]] = [job[i[1]] EXCEPT !.status = "COMPLETED",
                   !.result = [status |-> status, generation |-> worker.generation]]]
    /\ call' = [call EXCEPT ![i] = [NoCall EXCEPT !.phase = "ENDED"]]

\* The transaction: worker, sessions, reservations, audit and job together.
ReconcileWorker(i) ==
    LET o == call[i].seen
        stale == Superseded(i[1])
        forced == stale /\ o.requested = "QUARANTINED" /\ worker.status # "QUARANTINED"
        status == IF forced THEN "QUARANTINED"
                  ELSE IF stale THEN worker.status
                  ELSE Qualify(o)
    IN  /\ call[i].phase = "OBSERVED" /\ OwnsClaim(i)
        /\ worker' = IF stale /\ ~forced THEN worker
                     ELSE [worker EXCEPT !.status = status, !.version = worker.version + 1]
        /\ Sever(status)
        /\ Complete(i, status)
        /\ UNCHANGED <<now, daemon>>

\* The claim was lost while the daemon was asked: nothing is written.
Conflict(i) ==
    /\ call[i].phase = "OBSERVED" /\ ~OwnsClaim(i)
    /\ call' = [call EXCEPT ![i] = [NoCall EXCEPT !.phase = "ENDED"]]
    /\ UNCHANGED <<now, daemon, worker, workerSession, reserved, job>>

DaemonStep ==
    \/ Tick \/ Beat
    \/ \E c \in Components : \E D \in SUBSET {d \in Details : d[1] = c} : ProbeComponent(c, D)

RowStep ==
    \/ OpenSession \/ ExpireSession \/ CloseSession \/ Admit \/ Release \/ OperatorQuarantine
    \/ \E st \in {"REGISTERED", "QUARANTINED"} : AdvanceGeneration(st)

AnswerStep(i, twists) ==
    \E twist \in twists, why \in [Components -> SUBSET Reasons], active \in 0..daemon.max :
        Answer(i, why, active, twist)

AskStep(k, twists) ==
    \/ RequestCheck(k) \/ ClaimCheck(k)
    \/ \E n \in 1..MaxTries :
           \/ AnswerStep(<<k, n>>, twists)
           \/ Observe(<<k, n>>)
           \/ \E e \in Errors : CallFails(<<k, n>>, e)

SettleStep(k) ==
    \/ LoseLease(k)
    \/ \E n \in 1..MaxTries : ReconcileWorker(<<k, n>>) \/ Conflict(<<k, n>>)

HealthNext ==
    \/ DaemonStep \/ RowStep
    \/ \E k \in Jobs : AskStep(k, Twists \cup {"none"}) \/ SettleStep(k)

HealthSpec == HealthInit /\ [][HealthNext]_healthVars

-----------------------------------------------------------------------------
(* Properties. *)

\* The rows of the workers table, its jobs and the handlers have their types
\* (worker_reconciliation.rs:306, 345).
HealthTypeOK ==
    /\ now \in 0..MaxTime
    /\ daemon \in Daemon
    /\ worker \in [status : WorkerStatus, generation : 1..MaxGeneration, version : Nat]
    /\ workerSession \in [count : 0..MaxSessions,
                    status : {"NONE", "ACTIVE", "EXPIRED", "CLOSED", "REVOKED"}]
    /\ reserved \in 0..Concurrency
    /\ job \in [Jobs -> JobRow]
    /\ \A i \in Claims :
           /\ call[i].phase = "OBSERVED" <=> call[i].seen # None
           /\ call[i].seen \in Observed \cup {None}

Seen == {call[i].seen : i \in {j \in Claims : call[j].phase = "OBSERVED"}}

\* "A top-level `ready` bit is not an authority proof": whatever the daemon
\* claims, however its clock is set and however long the answer took, a READY
\* observation rests on facts that all read as required, and none of them, the
\* worker's heartbeat included, is older than the maximal age and the skew
\* that are allowed plus the time the call may take
\* (runmill_control.rs:3577, 3681).
ReadyRestsOnFacts ==
    \A o \in Seen : o.requested = "READY" =>
        /\ o.sound
        /\ o.recent

\* No false alarm: a quarantine, which only an operator can lift, is asked for
\* only when something is amiss: a contradiction in the report, a detail that
\* is not as required, a clock out of step by more than the skew, a fact that
\* is nearly too old, or a failure of the call that is not a mere loss
\* (runmill_control.rs:1961, worker_reconciliation.rs:609).
QuarantineHasCause == \A o \in Seen : o.requested = "QUARANTINED" => o.amiss

\* A worker that was found unsafe, or found quarantined by an operator, stays
\* severed: once a job has recorded the quarantine, no concurrent or later
\* healthy report of the same generation brings back the status, a session or
\* a reservation
\* (worker_reconciliation.rs:138, 211).
UnsafeStaysSevered ==
    \A k \in Jobs :
        /\ job[k].status = "COMPLETED"
        /\ job[k].result.status = "QUARANTINED"
        /\ job[k].result.generation = worker.generation
        => /\ worker.status = "QUARANTINED"
           /\ ~Held
           /\ reserved = 0

\* A worker becomes READY only by a reconciliation that owns its claim, of the
\* very version it was requested for, while a session of the generation is
\* live, a slot is free and Runmill runs as many at once as ASF admits
\* (worker_reconciliation.rs:423).
ReadyIsQualified ==
    [][(worker'.status = "READY" /\ worker.status # "READY") =>
           /\ workerSession.status = "ACTIVE" /\ reserved < Concurrency
           /\ \E i \in Claims :
                  /\ OwnsClaim(i) /\ call[i].phase = "OBSERVED"
                  /\ call[i].seen.requested = "READY" /\ call[i].seen.max = Concurrency
                  /\ job[i[1]].version = worker.version
                  /\ job[i[1]].generation = worker.generation]_healthVars

\* A degraded worker drains and keeps its sessions and what it holds; a detail
\* that is off and admitted is never answered so leniently
\* (runmill_control.rs:3552, 3773).
DrainingIsSafe == \A o \in Seen : o.requested = "DRAINING" => o.sound

\* Verdicts on a worker are justified and stick: the invariants above hold
\* always, and READY is given as ReadyIsQualified says.
VerdictsAreJustified ==
    /\ [](/\ HealthTypeOK
          /\ ReadyRestsOnFacts
          /\ QuarantineHasCause
          /\ DrainingIsSafe
          /\ UnsafeStaysSevered)
    /\ ReadyIsQualified
=============================================================================
