# A verification development for the Autonomous Software Factory (ASF)

ASF is a control plane that takes work items from a source (Linear), has them
carried out by remote Runmill workers under signed Work Orders, verifies the
evidence that comes back, and closes the source. It is a Rust program over
PostgreSQL; several server processes share one database, and the database is
the only thing they share. This directory holds TLA+ modules for the parts of
that system whose correctness depends on the order of concurrent steps, TLC
configurations that check them on small instances, and TLAPS proofs.

## 1. Inventory

All durable state is in PostgreSQL. Each component below is a set of tables
and the Rust code that moves them; components interact through jobs they
enqueue for each other, through the version columns they compare, and through
deferred triggers that re-check whole-database invariants at COMMIT.

| Component | State | Operations | What makes it correct |
|---|---|---|---|
| Job ledger (`ledger/jobs.rs`) | `workflow_jobs`: status, attempt count, fence, lease; ownership columns of `effect_intents` | enqueue, claim, renew, complete, fail | a claim has one holder; a stale holder changes nothing; no job is lost |
| Reactor (`runtime/reactor.rs`) | the claims of the current poll, in memory | four claiming scans, execution with a heartbeat, finalization, dead-lettering | every due job is served or visibly rejected, in a mixed fleet too |
| Step ledger (`ledger/steps.rs`) | work item, workflow, accountability anchor, escalation | commit or fail a step atomically under a job's fence | someone is accountable for every item at all times; dead work has an owner |
| Cancellation (`runtime/cancellation.rs`, migrations 0017–0019) | request effect, observation chain, terminal receipt, authority guard | request, observe, complete, conflict, renewed call | CANCELLED is true of Runmill and final |
| Source closure (`runtime/source_closure.rs`, `adapters/linear.rs`) | close effect, closed work item | preflight, comment, state update, reconcile, finalize | Linear is mutated at most once; CLOSED is true of Linear |
| API (`api/postgres.rs`) | idempotency records, work items, approvals | accept, cancel, decide, intake, reconcile, verify | one effect per idempotency key; version checks |
| Observation (`runtime/runmill_observation.rs`, `ledger/runmill_observation_streams.rs`) | stream cursor, retained pages, checkpoint | observe, advance, gap escalation, terminal | no event skipped or repeated; one live observer per stream |
| Submission and its recovery (`work_order_dispatch.rs`, `runmill_submission_recovery*.rs`) | sealed Work Orders, submission effect, recovery case and its escalation | seal, submit, look up, adopt | what Runmill admitted is what was stored; a lost submission stays owned and provable |
| Reservations and budgets (`ledger/reservations.rs`) | reservation sets, budget ledger | acquire or adopt, release, expire, sweep, release of a worker's or an attempt's sets | capacity and money are never over-committed or freed twice |
| Worker authority (migrations 0010–0012, `runtime/worker_reconciliation.rs`) | worker status, generation, version; sessions | open, close, renew, advance; quarantine by hand; probe and reconcile, quarantine | a set never outlives its authority; a reconciled quarantine is complete and lasting |
| Terminal evidence (`runtime/runmill_terminal_evidence.rs`) | retention job, terminal bundle, evidence bundle | produce, read once, retain and hand over | what is retained proves the end of the run; handed over exactly once |
| Intake (`runtime/intake.rs`, `api/postgres.rs`) | snapshots, work items, dispatch fences | sync, single submission, readiness, acceptance, delivery | readiness is of the current content; accepted content is never overwritten; a change of it is fenced and escalated |
| Run events (`ledger/run_events.rs`) | raw events, run row | ingest and drain | the run is the replay of a contiguous prefix |
| Attention and incidents (`api/postgres.rs`, `ledger/operational_incidents.rs`) | escalations, incidents, receipts | list, acknowledge, resolve | dead work is shown exactly once; receipts are the history |
| Routing and timers (`runtime/handlers.rs`, `timers.rs`) | registry, timers | register, poll, promote | a job runs under its own contract and worker only |
| Runmill client (`adapters/runmill_control.rs`) | none durable | calls, event pages, health | a definite error means nothing was applied; an answer is proof |
| Audit chain (`audit.rs` and seven writers) | `audit_events` | append, export, verify | one chain |

What is hard in this system: a claimant that stalls past its lease and wakes
up; a crash at any point between a provider call and its recording; answers
lost although the provider acted; several jobs of one item failing at once;
operators acting on an item while its jobs run; statements of two processes
that read a version and use it later; proofs at COMMIT that refuse a
transaction the handler believes to be done. `PROJECT.json` lists the hazards
at their lines.

## 2. Modules

* **`JobLedger`**: the job ledger and the reactor's use of it. One action per
  SQL statement or transaction. A reactor's claims are `tasks[r]`; a claim
  taken by one of the three rejecting scans is `doomed`, it is dead-lettered
  and never executed. Time is two comparisons: `due[j]` for
  `available_at <= clock_timestamp()`, and `lease[j]`, the ticks left before
  `lease_expires_at`. `effect` holds the rows of `effect_intents` with the
  exact claim that owns an IN_FLIGHT one; the foreign key of migration 0008
  appears as the guard `Citing(j) = {}` of every statement that ends a claim.
* **`SourceClosure`** extends `JobLedger` with the closing activity:
  `pc[r][j]` is where `execute_inner` stands, `issue` is Linear's record,
  `wire` counts mutations sent whose answer is lost (applied later or never),
  `sent` counts all mutations sent. People edit the issue; the authority that
  admits a close may be revoked at any time.
* **`Cancellation`** extends `JobLedger` with the API call, the cancellation
  activity and its observer, the dead-letter path of the step ledger, and
  Runmill. One `work.version` stands for the work-item version, workflow
  version and fence, and anchor generation: the modelled transactions
  move all of them together. `DeliveryStates` says whether the item has the
  WORK_ITEM_DELIVERY workflow every accepted item gets (`"ACTIVE"`), or only
  the cancellation workflow, as in the repository's own cancellation tests
  (`"NONE"`).
* **`Admission`**: reservation sets, the budget ledger, workers and their
  sessions, the sweep and the health checks. One action per transaction: the
  advisory locks (worker authority, budget, reservation set) and row locks a
  transaction takes first make it atomic against the others. What is read before
  the locks is a step of its own: the sweep's candidates (`SweepSelect`, then
  `SweepApply`) and a health report (`Probe`, then `Reconcile`). An operator may
  write QUARANTINED by hand (`OperatorQuarantine`): the schema asks for no more,
  so sessions and sets stay live until some reconciliation finds the worker
  quarantined and severs it. `check[k].severed` is what a completed
  reconciliation reported. Rows the sweep's `FOR UPDATE SKIP LOCKED` passes over
  are the parameter `skipped`. `now` is the database clock. One set is one
  idempotency key; a repeated request that finds its set changes nothing, so it
  is the predicate `Adoptable` (the conditions under which it is answered) and
  no action. `Pools` are the repository, identity and budget capacities; the
  worker's slots are kept apart because a new generation changes them. The run's
  dispatch and the callers are environment. It is independent of `JobLedger`: a
  check's job is claimed and fenced there, and its transaction commits at most
  once.
* **`ObservationStream`**: one run's observation: the stream row and its
  cursor, the one live job with its checkpoint, two reads without locks
  (`GetRun`, `ListRunEvents`), and the transaction that commits later
  (`PersistObservations`). Runmill appends, compacts and may answer from an
  earlier state. **`EventLog`** is what this promises: an ordered, gap-free
  reader that ends once; `ImplementsLog` states the refinement (`read` is the
  hole-free prefix of the retained events).
* **`TerminalEvidence`** composes the observation with the retention of the
  signed end of the run: both share the stream, its results and the control
  session. The evidence, the signing session and the dispatch fence are
  environment.
* **`Intake`**: INTAKE_SYNC page by page, then one transaction for all of the
  listing; POST /v1/intake; readiness, acceptance and delivery of the items.
  Delivery may take accepted work back to the states unaccepted work is
  requeued in (WAITING_DEPENDENCY, READINESS_PENDING and on), and readiness may
  refuse work: there `accepted_at`, not the state, decides whether a change is
  requeued, fenced and escalated, or only recorded. Delivery may have opened the
  item's escalation of the category first; the source change then adds none
  (ON CONFLICT DO NOTHING).
* **`Api`**: every mutation of one work item under its idempotency key, beside
  the reactor and a dispatcher. **`Attention`**: escalations, incidents, their
  operators, and a keyset walk over the queue.
* **`RunEvents`**: `ingest_run_event`, which has no production caller yet, and
  the cancellation handler's two-step write of the same run row.
  **`EventContract`**: the tables an event must satisfy. **`WorkerHealth`**:
  from the daemon's report to the worker's status.
* **`ControlClient`**: one exchange with Runmill's socket and what each answer
  must prove. That an ended run's frames are complete rests on the daemon; what
  the client adds is that it does not take a torn or late frame for one.
  **`Submission`**: stored Work Orders, lost submissions, recovery cases, exact
  lookup (with the RUNMILL envelope contract), and the adoption as far as the
  code gets: the case check, then the effect lock, which fails on every row it
  finds. The writes behind that lock are unreachable and not modelled; section 6
  says what stands in their way. `ended`, the sessions and the escalation are
  kept because the documented conditions of an adoption read them.
* **`StepLedger`**: `commit_workflow_step` and `fail_workflow_step` whole.
  **`AuditChain`**: the seven writers of the audit chain and the verification of
  an export. **`Routes`**: handler registration, the poll, timers, readiness. A
  job's binding to its worker is asked for by the claim (`Bound`); the scans
  that only recover or dead-letter ask less of a retention (`Standing`: its run
  and stream, not its session). **`LockOrder`**: the locks of eighteen
  transactions.
* **`JobLedgerProofs`**, **`SourceClosureProofs`**, **`CancellationProofs`**:
  the theorems about the module each is named for; the last two extend the
  proofs of the job ledger they compose. **`TerminalEvidenceProofs`**: the
  terminal evidence with the observation it extends. **`FleetProofs`**:
  `Admission` and `Routes`, who may work on what. **`FrontDoorProofs`**: `Api`,
  `Intake` and `WorkerHealth`, what is let in. **`RemoteCallsProofs`**:
  `Submission` and `ControlClient`. **`OwnersProofs`**: `StepLedger`,
  `Attention` and `AuditChain`.
* **`MC*`**: instances for TLC. Components that share no state are checked side
  by side in one instance: a variable `focus` picks the component, or the
  scenario of one, that takes all the steps of a behaviour.

Definitions named as the fault they describe (preceded by `\* Fault:`) are
variants of the definition that follows them. They are not part of any
specification; each shows that some property would notice that bug.

## 3. Runs

| Run | Instance | What it shows |
|---|---|---|
| `job_ledger` | 3 processes that disagree on what is ready, a job with 2 attempts, one with 1 and an invalid route, one effect; with fairness | uniqueness of claims, fencing, effect ownership, attempt budget; every job settles, no effect stays IN_FLIGHT |
| `source_closure` | 1 job with 3 attempts, 2 reactors; with fairness | at-most-once mutation, truth of CLOSED, termination |
| `cancellation` | 2 calls, observer, delivery job, one process with concurrent tasks; with fairness | accountability, shared escalation, finality and truth of CANCELLED, resolution |
| `reservations` | 2 workers, 1 session, 2 attempts, 3 requests, 1 owner, 1 sweep, 1 check, 2 instants; and 18 kinds of transactions over 2 items on one worker | no overcommitment, one release per set, true receipts; waits in a circle need one of five inverting kinds |
| `worker_authority` | 1 worker, 2 generations, 2 sessions, 2 checks, a quarantine by hand, 2 instants; with fairness | sets within their authority, a reported quarantine complete for its generation and lifted by a new one only, every reservation ends |
| `terminal_evidence` | 1 reactor, 2 epochs, 2 events, 2 sessions, 2 attempts; with fairness | `ObservationIsSound`, `RetentionIsSound`, the refinement of `EventLog`, every retention ends or lost its route |
| `front_door` | 2 syncs of 2 issues, one of them accepted; 3 submissions of 1 identity; 4 contents, 4 versions; all API operations, 2 keys; 1 check of a skewed daemon, 2 racing checks | `IntakeIsSound`, `AuthorityIsDeliberate`, `ApiIsSound`, `JobsAreKept`, `VerdictsAreJustified` |
| `remote_calls` | 2 calls to a daemon that is replaced and tears answers; 3 orders of one attempt, 2 recovering callers, 3 sessions; events of 3 sequences in any order beside 2 cancellation commits; every event type with every single-field defect | `DefiniteMeansUnapplied`, `AnswersAreProof`, `SubmissionIsSound`, `RunIsReplay`, `ContractIsExact` |
| `owners` | 2 step jobs and 2 callers; a walk over a moving queue; 2 audit writers of 6 kinds, 2 sub-microsecond fractions | `StepsAreTrue`, `FailuresAreOwned`, `AttentionIsComplete`, `AuditIsOneChain` |
| `routes` | 2 builds, 2 jobs, 1 timer, 1 crash; retentions of 2 workers whose session may end; with fairness | `RoutesAreKept`, `DueIsNeverSilent` |
| `cancellation_receipt` | delivery workflow live | **violated**: see section 6 |
| `adoption` | the submissions of `remote_calls` | **violated**: see section 6 |

A property named for a whole component (`...IsSound`, `...AreKept`) is the
conjunction of the named invariants above it in its module; a few also contain
an action property.

Two properties state an exception, because the code has it. `RetryIsAnswered`
excepts a set whose worker was quarantined by hand: `adopt_existing_set` refuses
a QUARANTINED worker, and the set keeps counting until it ends.
`DueIsNeverSilent` excepts a retention (`Overlooked`) that is due while every
process runs and serves its type, but none may take this one: its worker is
another, or the session it names is gone. For every other due job, and for a
retention that some process may claim, recover or dead-letter, it holds as it
stands.

**Bounds.** `LeaseTicks` is 1 or 2: a lease is live, or live and one step
from expiry, or expired. `MaxFence` bounds faults, not claims: from that
fence on a held claim neither expires nor crashes, so behaviours are finite
while each job can be lost to a fault several times. It is chosen above the
number of attempts where exhaustion after faults matters (`JobLedger`,
`SourceClosure`). Two holders suffice for a stale and a current one; in
`Cancellation` two calls suffice for a renewed cancellation against a stale
observer. In `Admission` `MaxTime` gives a set an instant in which it counts
and one in which it has elapsed unswept while a longer one still counts; a
budget of 2, of which one request asks for all
and the others for half, and workers of 1 or 2 slots, make both kinds of
capacity binding in some state. `LockOrder` runs any two transactions at once,
and three at once of the six kinds that reserve and release; circles of two
items on one worker are the ones the code's comments discuss. The observation
has two events and pages of one, so a page can be partial, full, empty and
beyond a hole; two epochs give one successor to a dead or completed
checkpoint. In `Intake` four contents of three revisions give a change, a
changed body under one revision and a regression; four versions are what
discovery, readiness, acceptance and one delivery step take, so accepted work
reaches WAITING_DEPENDENCY and meets a change there (`OneAccepted` lets one
item of a sync's batch go that far, since an item's outcome depends on its own
row only). In `Submission` two orders that differ in their signing key alone
and one that differs in its payload are the ways an envelope can be another
one. Symmetry is used in runs
without liveness only. Deadlock is not checked where the system may stop: when
every job is settled it has nothing to do.

**Fairness.** Reactors poll for ever (`ReactorRuntime::run` restarts a failed
poll after a back-off), handlers return because their I/O has timeouts, and
the clock advances. Every poll begins with the expiry sweep (`poll_once`), so
`SweepSelect` is weakly fair; a row lock lasts one short transaction, so a
reactor does not find its candidates locked at every poll (strong fairness of
the sweep that skips nothing). In `Routes` a process that is down is started
again. In `TerminalEvidence` the worker opens a control session again. Nothing
is assumed of Linear, Runmill, people, or of faults stopping before a bound.

## 4. Proofs

Every theorem is about the specification's safety part and holds for every
value of the constants its module declares, under the assumptions named there:
bounds are numbers, NULL is none of the values of a column (`NullsAssumption`,
`NoRowAssumption`, `RowAssumption`), and sets that are summed or counted are
finite. The parts of each inductive invariant were invariants of a TLC run
before they were proved. The proofs have one step per action.

**`JobLedgerProofs`** (any jobs, reactors, effects, attempt limits, lease
lengths, batch sizes and routings): `TypeCorrect`, `FenceNamesOneClaim`
(`ClaimsAreUnique`), `NoStrandedEffect` (`InFlightCitesExactClaim`),
`BudgetIsKept` (`AttemptBudget`), `StaleClaimantIsFenced`
(`OnlyLiveHolderSettles`). `ClaimsAreUnique` is not inductive: a task may, as
far as it says, remember a fence the row has not reached yet. `FencesArePast`
and `AttemptsArePast` (what a task remembers is at most what the row has
reached) close that. `ClaimStepIsRefence` treats all claiming statements alike
(a claim re-fences some set of due jobs), `Settle` every statement that ends a
claim.

**`SourceClosureProofs`**: `ClosureUsesLedger` (`ClosureSpec => Spec`: the
activity is a behaviour of the job ledger, whose theorems so hold of it),
`MutationsAreSentOnce` (`NeverSentTwice`), `ResendingIsSafe`
(`ResendableMeansUnsent`), `ClosedIsReallyClosed` (`ClosedMeansApplied`).
Counting mutations is not inductive: `CloseInv` adds that at most one task is
inside a close (`OneCloser`) and none while the intent may be taken again
(`ResendableIsUnsent`), and what each phase of `execute_inner` knows of the
provider (`PhasesAreHonest`, `MarkerWasSent`). The first follows from the
ledger's unique claims and from the effect citing the exact claim.

**`CancellationProofs`**: `CancellationKeepsLedger` (the ledger's `IInv` with
the cancellation's own statements, which beyond the ledger's steps may drop a
reactor's tasks), `SomeoneIsAccountable` (`AnchorIsLive`), `DeadWorkStaysOwned`
(`DeadWorkIsOwned`), `CancelledStaysTrue` (`CancelledIsFinal`),
`ProjectionStaysTrue` (`ProjectionIsTrue`). The strengthening is
`TasksAreTrue`: the terminal phase a task read of the run is still the run's, a
task about to commit has read one, and a task that observes has an OBSERVED
effect; with `DeadJobsCite` and `OneActiveEscalation` for the dead-letter path.

**`FleetProofs`**, of the admission (any finite set of requests, any workers,
sessions, attempts, callers, reactors, checks and capacities): `TypeCorrect`,
`BudgetsBalance` (`ReleasedExactlyOnce`), `ReceiptsAreTrue` (`ReceiptIsTrue`),
`TerminalIsEmpty` (`TerminalHoldsNothing`), `AuthorityLasts`
(`AuthorityOutlivesSet`), `QuarantineIsComplete` (`QuarantineSevers`),
`RetriesAreAnswered` (`RetryIsAnswered`), `NoWorkerOvercommitted`
(`SlotsSuffice`), `NoReportLiftsQuarantine` (`QuarantineIsMonotonic`). `IInv`
adds that a check under way names a worker, and that the worker of a check that
reported a quarantine has, for the rest of that generation, the status and no
ACTIVE session (`QuarantineRevokes`, which a quarantine by hand does not disturb
and does not establish). With `AuthorityOutlivesSet` this gives
`QuarantineSevers`: no ACTIVE session, hence no ACTIVE set. `RetryIsAnswered`
follows from `AuthorityOutlivesSet` alone. `SlotsSuffice` needs
`AuthorityOutlivesSet` too: a generation with fewer slots begins only when the
worker has no ACTIVE session, hence no ACTIVE set. `StepShape` reduces every
step to one of three things it can do to reservation sets (nothing, one
admission, ending some ACTIVE sets).

Of the routes (any processes, builds, workers, jobs, timers, contracts and
number of crashes): `RoutesStayKept` (`RoutesAreKept`). What a claim scan
selects depends on the registry the process was started with, so `RoutesInv`
says what a registry is (`RegistryFits`: a handler for each recognised type,
with this build's contract and the scope its type demands) and that a claim is
held only while handlers run, by the one process whose handler fits it
(`HoldsExactly`, `OneHolder`). `TimersAndJobs` ties a fired timer to exactly one
job. `RoutesAssumption`: the four worker-scoped types are recognised, and only
recognised types are enqueued or scheduled.

**`TerminalEvidenceProofs`** (any log, page size, attempts, epochs and
sessions), of the observation: `RowsStaySound` (`ObservationIsSound`),
`CursorMovesUnderClaim` (`CursorIsFenced`) and the refinement `ReadsTheLog`
(`Spec => ImplementsLog`: initial states map to initial states of `EventLog`,
and every step to a page read, an end, or a stutter). The rows alone are not
inductive, because what is committed was read two unlocked calls earlier:
`ViewsFollow` says what phase and claim a reactor's view belongs to,
`PagesAreRecent` that the page it holds is of a state the run has had,
`HistoryIsPast` that every late answer is of an earlier state. Monotonicity of
Runmill's log does the rest.

Of the retention beside it: `CompositionObserves` (`TermSpec => Spec`, so that
`ObservedRowsStaySound` and `CompositionReadsTheLog` carry over),
`RetentionStaysSound` (`RetentionIsSound`) and `BundleIsWrittenOnce`
(`BundleIsFinal`). `HandsFollow` (what a retaining task holds is Runmill's
evidence) and `EvidenceIsOfTheEnd` (that evidence is of the run's final state)
make `TermInv` inductive.

**`RemoteCallsProofs`**, of the submission (any attempts, orders, callers,
sessions and Runmill identities): `SubmissionStaysSound` (`SubmissionIsSound`) and
`RecordsAreWrittenOnce` (a stored Work Order, a case and what Runmill admitted
are never rewritten). `SubmissionIsSound` speaks of what Runmill admitted and of
what ASF may prove of it; `SubInv` adds the places an envelope passes through
between the two: `StoredIsOwn`, `InFlightIsStored`, `CasesAreExact` (a case is of
the stored envelope, and its effect stays AMBIGUOUS), `CasesAreEscalated` and
`CallsAreHonest` (the proof a caller holds is of the run Runmill has). They say
nothing of a completed adoption, because there is none.

Of the control client (any calls, keys, Runmill processes and log lengths):
`DefiniteMeansUnappliedHolds` (`DefiniteMeansUnapplied`) and
`AnswersAreProofHolds` (`AnswersAreProof`). Both speak of calls that are over;
`ClientInv` follows a call from the look at the socket to its answer:
`RequestIsSent` (a request that Runmill has, or has applied, belongs to a call
that waits or ended with success or in doubt), `AnswerIsTrue` and `DraftIsPast`
(what an answer says was true of the run when it was drafted and stays true as
the run moves on, which `Grew` describes), `ValueIsProof` (what the caller keeps
passed the checks of its operation). NULL is no key and no cancellation request.

**`OwnersProofs`**, of the step ledger (any finite set of jobs, any callers,
write sets, errors and severities): `StepsStayTrue` (`StepsAreTrue`) and
`FailuresStayOwned` (`FailuresAreOwned`, with the action property
`EscalationsOnlyGrow`). `StepInv` adds `CallersAreSet` (a caller that asks has a
fence and a request), `CompletedWasValid` and `FailureTimesAreStored` (a
recorded retry time is one its column can hold, without which a repeated failure
is not recognised by comparing rows). Attempting the proof corrected
`StateHasItsOwner`: a committed step may itself move the item to ESCALATED with
an escalation of its own (the terminal conflict, `cancellation.rs:2371`), so an
ESCALATED item is anchored by an escalation but only a dead letter's names a
dead job. Such a step is now among those the `owners` run commits.

Of the attention queue (any jobs, operators and page size, finitely many jobs
without a work item): `AttentionStaysComplete` (`AttentionIsComplete`). The walk
is a cursor over an order that records enter and leave: `ShownIsPassed` (an open
record that was shown is at or before the cursor) and `SteadyIsAhead` (one that
stayed open is shown or still ahead) make it inductive, from the order being
total. `IncidentHistory` does the same for receipts: an incident's version
counts them, and the last one led to where the incident is.

Of the audit chain (any sessions, writer kinds, clock readings and rows):
`AuditStaysOneChain` (`AuditIsOneChain`). `Writing` says what a session sees is a
chain, and that a head it has read is still the head, for nobody else extends
the chain while it holds the lock; `Exporting` that what an export has shown so
far verifies. That a verified list ending in the chain's head is the whole chain
is a lemma on chains: each hash has one predecessor, so the two enumerations
agree from the head down. Digests are their content, which is what a
collision-free hash means here.

**`FrontDoorProofs`**, of the API's mutations (any callers, keys, operations and
versions): `ApiStaysSound` (`ApiIsSound`) and `JobsStayKept` (`JobsAreKept`).
That two callers never both move one version is not inductive: `RequestsArePast`
adds that a completed request expected a version the work has left,
`JobsAreOnRecord` that a job has its record, `AdvanceIsOfAccepted` what a
dispatch of the present version finds, and `ReceiptIsTheEnd` that nothing moves
the work on after a cancellation before dispatch. Of the intake (any issues,
identities, contents, syncs, keys, pages and attempts): `IntakeStaysSound`
(`IntakeIsSound`) and `AuthorityStaysDeliberate` (`AuthorityIsDeliberate`). A
batch's events and audit facts are compared with the rows of earlier batches, so
`IntakeInv` orders all of them by the item's version: `EventsArePast` makes a
requeue's event new, `FactsAreCurrent` ties the last audit fact to the present
snapshot, `ViewsAreOfVersions` makes the version an accepting caller sends stand
for the content it read, `DiscoveriesExist` makes a second discovery impossible.
`OutcomeIsOne` lists what a snapshot can do to its item, and the `Batch...`
lemmas lift it to a transaction over any set of items, which `PersistSync` and
`Submit` share. `ItemsAreWhole` says only that work in delivery was accepted;
that `accepted`, not the state, keeps a snapshot is what
`AuthorityStaysDeliberate` proves of work that waits for a dependency.
`NoContentAssumption`: the NULL of the model is no content.

Of worker health (any components, details, reasons, clock offsets, ages,
deadlines, checks and generations): `VerdictsStayJustified`
(`VerdictsAreJustified`, with the action property `ReadyIsQualified`). What is
justified is the verdict, made after the daemon answered and written later
still: `CallFollows` says that a call that is out is within its deadline and
that its answer is a report the daemon published during the call, `Justified`
what was made of it, `SessionsFollow` and `ResultStands` what the rows keep of a
quarantine. The lemmas before it are about reports: one that passes every check
of the client is sound and recent (`ReadyIsSound`, `ReadyIsRecent`,
`DegradedIsSound`), and a sound and recent one passes (`SoundIsBelieved`,
`RecentIsFresh`), so that no quarantine is without a cause. `Justified` also says
that an observation asks for READY only with a ready report: without it
`qualify_worker` (`worker_reconciliation.rs:434`) answers READY before it has
compared the concurrency or looked at the session. `WorkerHealthAssumption`: the
details that may go wrong are ones the client demands, no reason that admits
one is among those that only degrade, and the skew is at most the age bound.

Updates of a record inside a function are written with the old record spelled
out (`[job EXCEPT ![j] = [job[j] EXCEPT ...]]`) in the modules with proofs:
tlapm 1.4.5 misreads an `@` that stands inside another `EXCEPT`'s. It cannot
parse `EXCEPT ![a, b]` either, which is why `Api` writes `![<<a, b>>]`.

Only model-checked:

* liveness, because the prover does not reason about fairness:
  `EverythingSettles`, `ClosingResolves`, `CancellationResolves`,
  `EveryReservationEnds`, `RetentionEndsOrLosesRoute`, `DueIsNeverSilent`;
* the pool half of `NoOvercommit` and `RunIsReplay`: a sum over a set and the
  replay of a prefix are defined by recursion, and what they compute needs
  induction over data;
* `CirclesNeedAnInversion`: it speaks of paths of any length in the wait-for
  graph, and the lock programs are folded from sequences;
* `ContractIsExact`: its tables are finite and have no parameter, so the run
  already decides it for every event type and single-field defect.

## 5. Plan

Done: the core (`JobLedger`, `Admission`, `SourceClosure`, `Cancellation`), the
components listed in section 2, and the proofs of section 4. Left:

1. Evidence verification beyond its lock order, and promotion, as actions.
2. The adoption's writes, once its locks can be taken: that an attempt then has
   one authoritative run.
3. Pure decisions (work-item transitions, scheduling) against reference
   definitions.

## 6. What disagrees

`cancellation_receipt`: `docs/architecture.md` says a terminal CANCELLED
observation completes the cancellation workflow and anchors the item to the
receipt. The receipt's deferred proof requires that no workflow of the item is
ACTIVE or WAITING, but the WORK_ITEM_DELIVERY workflow created at acceptance
stays live under this route (only the pre-dispatch route cancels it). The
observation is refused at COMMIT and the cancellation ends ESCALATED.

`adoption`: the documentation of `adopt_exact_runmill_submission_recovery`
(`runmill_submission_recovery_adoptions.rs:164-181`) promises ten steps that end
in a COMMIT, "a conflict if adoption already exists, or a persistence error when
`PostgreSQL` fails". The effect lock of step 3 (`:433`) decodes eight selected
columns with `query_scalar` into a record of eight: a scalar is read from the
first column, a uuid, so the call fails exactly when the row is found. The run
shows a caller that meets every documented condition, with the database up,
answered with a persistence error. Were that repaired, the escalation's update in
step 9 would still roll everything back: the trigger of
`0034_runmill_recovery_adoption_stream_guards.sql:375-377` reads three columns of
`NEW` (`work_order_id`, `work_order_digest`, `request_digest`) that `escalations`
does not have. Nothing under `src/src` calls the function and no test reaches its
transaction.

Met while modelling, and not the subject of a run:

* `docs/deployment.md:81` says a stream left TERMINAL_READY "produces one
  `RETAIN_RUNMILL_TERMINAL_EVIDENCE` job". The stream becomes TERMINAL_READY
  from the page alone; the producer also wants the earlier get-run snapshot to
  be terminal. A run that ends between the two reads gets no retention.
* The comment at `reactor.rs:1356` says a nonmatching scoped envelope "must not
  become permanently invisible", and `docs/api.md:335-341` that `/readyz` fails
  for a due job of "nine recognized production types" that nothing serves. The
  scan's types and the readiness query (eight types, `postgres.rs:195-205`) both
  omit `RETAIN_RUNMILL_TERMINAL_EVIDENCE`. For that type
  `RetentionEndsOrLosesRoute` and `DueIsNeverSilent` with its exception
  `Overlooked` are what holds; without the exception the `routes` run fails in
  its retention scenario.
* Migration 0036 exempts the retention job from the source-change fence, but
  its transaction also inserts VERIFY_EVIDENCE, which is not exempt.
* `docs/api.md:140` and `:131` promise an answer for every changed revision of
  accepted work, and adoption of every captured snapshot. A second changed
  candidate, and a newer snapshot after an older one was resubmitted, are
  refused with a conflict (`intake.rs:1330`, `:1190`).
* `work_order_dispatch.rs:382` says the built intent is ready to be persisted;
  `validate_effect` (`steps.rs:2274`) decodes it as the other contract's
  envelope and refuses it.
* `audit.rs:160` says a missing row fails closed: `verify_audit_chain` alone
  accepts a chain without its last rows. Five of the writers hash nanoseconds
  that PostgreSQL does not keep, contrary to the comment at `postgres.rs:2171`;
  likewise a failure's retry time (`steps.rs:2097`).
* `postgres.rs:1036` says the API matches the runtime's lock order; the runtime
  locks the workflow before the run.

## 7. Not modelled

Canonical encoding, signature arithmetic, HTTP parsing, artifact storage,
configuration, command lines, promotion and the pure decision services: they
hold no state that the modelled parts depend on, or no production path calls
them. Of evidence verification only the lock order is modelled, and of an
adoption only what comes before its first write. An item's states between
acceptance and its end that are not requeueable are the one state RUNNING in
`Intake`. In `LockOrder` trigger locks, rows that one kind alone locks and a
handler's own claimed job are left out. Outbox rows appear only in `Intake`.
Database failures appear as the error paths they cause.
