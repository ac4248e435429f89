----------------------------- MODULE Admission -----------------------------
(***************************************************************************)
(* Capacity admission: reservation sets, the budget ledger, the workers    *)
(* and worker sessions whose authority a set rests on, the reactor's       *)
(* expiry sweep, and the reconciliation of a worker with Runmill's health. *)
(*                                                                         *)
(* Each action is one PostgreSQL transaction.  The advisory locks and row  *)
(* locks it takes first (worker-authority, admission, reservation-set)     *)
(* make it atomic against the others; what a step reads before it has the  *)
(* locks (a sweep's candidates, a health report) is a separate action.     *)
(* Sessions are opened, closed and renewed, a generation is advanced and a *)
(* worker quarantined by hand, by operators through the guards of the      *)
(* schema.  One reservation set is one idempotency key: the request's      *)
(* digest fixes everything else of the row.                                *)
(***************************************************************************)
EXTENDS Naturals, FiniteSets, FiniteSetsExt

CONSTANTS
    Workers, Sessions, Attempts,
    Sets,           \* admission idempotency keys, one reservation set each
    AttemptOf,      \* [Sets -> Attempts]
    Pools,          \* repository WIP, identity profiles, budget dimensions
    Limit,          \* [Pools -> Nat]
    Units,          \* [Sets -> [Pools -> Nat]]
    Slots,          \* values max_concurrency may take
    Callers,        \* idempotency keys of owner transitions
    Sweepers,       \* reactors
    SweepBatch,     \* claim_batch_size, the sweep's limit
    Checks,         \* RECONCILE_WORKER jobs
    MaxTime,        \* bound: last instant
    MaxGeneration,  \* bound: generations an operator creates
    NoWorker, NoSession, NoSet

ASSUME AdmissionAssumption ==
    /\ IsFiniteSet(Sets)
    /\ AttemptOf \in [Sets -> Attempts]
    /\ Limit \in [Pools -> Nat] /\ Units \in [Sets -> [Pools -> Nat]]
    /\ Slots \subseteq Nat \ {0}
    /\ SweepBatch \in Nat \ {0}
    /\ MaxTime \in Nat /\ MaxGeneration \in Nat
    /\ NoWorker \notin Workers /\ NoSession \notin Sessions /\ NoSet \notin Sets
    /\ Callers \cap {"nobody", "sweep", "quarantine", "terminal"} = {}

VARIABLES
    now,        \* clock_timestamp()
    worker,     \* [Workers -> WorkerRow]
    session,    \* [Sessions -> SessionRow]
    sets,       \* [Sets -> SetRow]           reservation_sets
    ledger,     \* [Sets -> LedgerRows]       budget_ledger entries of the set
    attempt,    \* [Attempts -> AttemptRow]
    receipt,    \* [Callers -> Receipt]       what the caller was answered
    candidates, \* [Sweepers -> SUBSET Sets]  what the sweep has selected
    check       \* [Checks -> CheckRow]

vars == <<now, worker, session, sets, ledger, attempt, receipt, candidates, check>>

WorkerStatus == {"REGISTERED", "READY", "DRAINING", "OFFLINE", "QUARANTINED"}
Ended == {"RELEASED", "EXPIRED"}
Times == 1..MaxTime

WorkerRow == [status : WorkerStatus, generation : Nat, version : Nat, slots : Slots]
SessionRow == [status : {"NONE", "ACTIVE", "CLOSED", "REVOKED"},
               worker : Workers \cup {NoWorker}, generation : Nat, expires : Nat]
SetRow == [state : {"NONE", "ACTIVE"} \cup Ended,
           worker : Workers \cup {NoWorker}, session : Sessions \cup {NoSession},
           generation : Nat, expires : Nat, fence : Nat,
           by : Callers \cup {"nobody", "sweep", "quarantine", "terminal"}]
LedgerRows == [reserve : Nat, release : Nat]
AttemptRow == [state : {"ADMISSIBLE", "RUNNING", "TERMINAL"},
               worker : Workers \cup {NoWorker}]
Receipt == [set : Sets \cup {NoSet}, state : {"none"} \cup Ended]

\* A health probe reduced to what the transaction distinguishes: the
\* requested status, and MISMATCH for a ready report that contradicts the
\* stored concurrency or capabilities.
Health == {"READY", "MISMATCH", "DRAINING", "OFFLINE", "QUARANTINED"}
\* A job's payload, and once it is done its report: the generation it found,
\* and whether it leaves the worker QUARANTINED.
CheckRow == [phase : {"idle", "queued", "probed", "done"}, worker : Workers \cup {NoWorker},
             generation : Nat, version : Nat, seen : Health, severed : BOOLEAN]

Init ==
    /\ now = 0
    /\ worker \in [Workers -> [status : {"REGISTERED"}, generation : {1},
                               version : {1}, slots : Slots]]
    /\ session = [s \in Sessions |-> [status |-> "NONE", worker |-> NoWorker,
                                      generation |-> 0, expires |-> 0]]
    /\ sets = [r \in Sets |-> [state |-> "NONE", worker |-> NoWorker, session |-> NoSession,
                               generation |-> 0, expires |-> 0, fence |-> 0,
                               by |-> "nobody"]]
    /\ ledger = [r \in Sets |-> [reserve |-> 0, release |-> 0]]
    /\ attempt = [a \in Attempts |-> [state |-> "ADMISSIBLE", worker |-> NoWorker]]
    /\ receipt = [c \in Callers |-> [set |-> NoSet, state |-> "none"]]
    /\ candidates = [v \in Sweepers |-> {}]
    /\ check = [k \in Checks |-> [phase |-> "idle", worker |-> NoWorker,
                                  generation |-> 0, version |-> 0, seen |-> "OFFLINE",
                                  severed |-> FALSE]]

Tick ==
    /\ now < MaxTime
    /\ now' = now + 1
    /\ UNCHANGED <<worker, session, sets, ledger, attempt, receipt, candidates, check>>

Active == {r \in Sets : sets[r].state = "ACTIVE"}
Elapsed == {r \in Active : sets[r].expires <= now}
\* Capacity stops counting an elapsed set before anything has expired it.
Counted == Active \ Elapsed
OnWorker(w) == {r \in Active : sets[r].worker = w}
OfAttempt(a) == {r \in Active : AttemptOf[r] = a}

ActiveSessions(w) == {s \in Sessions : session[s].status = "ACTIVE" /\ session[s].worker = w}
LiveSessions(w) ==
    {s \in ActiveSessions(w) : /\ session[s].generation = worker[w].generation
                               /\ session[s].expires > now}

(***************************************************************************)
(* Worker authority: what the schema lets operators do.                    *)
(***************************************************************************)
\* Fault: a quarantined worker may open a session.
OpenSessionAnyway(w, s, e) ==
    /\ session[s].status = "NONE"
    /\ ActiveSessions(w) = {}
    /\ e > now
    /\ session' = [session EXCEPT ![s] =
           [status |-> "ACTIVE", worker |-> w,
            generation |-> worker[w].generation, expires |-> e]]
    /\ UNCHANGED <<now, worker, sets, ledger, attempt, receipt, candidates, check>>

OpenSession(w, s, e) ==
    /\ session[s].status = "NONE"
    /\ worker[w].status # "QUARANTINED"
    /\ ActiveSessions(w) = {}
    /\ e > now
    /\ session' = [session EXCEPT ![s] =
           [status |-> "ACTIVE", worker |-> w,
            generation |-> worker[w].generation, expires |-> e]]
    /\ UNCHANGED <<now, worker, sets, ledger, attempt, receipt, candidates, check>>

\* A session keeps every ACTIVE set that names it: it may neither end nor be
\* shortened below one of them.
Preserves(s, e) == \A r \in Active : sets[r].session = s => sets[r].expires <= e

CloseSession(s) ==
    /\ session[s].status = "ACTIVE"
    /\ \A r \in Active : sets[r].session # s
    /\ session' = [session EXCEPT ![s].status = "CLOSED"]
    /\ UNCHANGED <<now, worker, sets, ledger, attempt, receipt, candidates, check>>

\* Fault: a session is shortened below a set that rests on it.
RenewSessionFreely(s, e) ==
    /\ session[s].status = "ACTIVE"
    /\ e > now /\ e # session[s].expires
    /\ session' = [session EXCEPT ![s].expires = e]
    /\ UNCHANGED <<now, worker, sets, ledger, attempt, receipt, candidates, check>>

RenewSession(s, e) ==
    /\ session[s].status = "ACTIVE"
    /\ e > now /\ e # session[s].expires
    /\ Preserves(s, e)
    /\ session' = [session EXCEPT ![s].expires = e]
    /\ UNCHANGED <<now, worker, sets, ledger, attempt, receipt, candidates, check>>

\* The only way out of quarantine, and the only way to another concurrency.
AdvanceGeneration(w, st, n) ==
    /\ worker[w].generation < MaxGeneration
    /\ ActiveSessions(w) = {}
    /\ st \in {"REGISTERED", "QUARANTINED"}
    /\ worker' = [worker EXCEPT ![w].generation = @ + 1, ![w].status = st, ![w].slots = n]
    /\ UNCHANGED <<now, session, sets, ledger, attempt, receipt, candidates, check>>

\* The status alone, by hand: the schema asks for nothing else, so the sessions
\* and the sets stay until a reconciliation finds the worker quarantined.
OperatorQuarantine(w) ==
    /\ worker[w].status # "QUARANTINED"
    /\ worker' = [worker EXCEPT ![w].status = "QUARANTINED", ![w].version = @ + 1]
    /\ UNCHANGED <<now, session, sets, ledger, attempt, receipt, candidates, check>>

(***************************************************************************)
(* Admission.                                                              *)
(***************************************************************************)
SlotFree(w) == Cardinality(Counted \cap OnWorker(w)) + 1 <= worker[w].slots

\* Fault: a set stops counting one instant before it elapses.
PoolsFitEarly(r) ==
    \A p \in Pools :
        LET early == {q \in Counted : sets[q].expires > now + 1}
        IN  MapThenSumSet(LAMBDA q : Units[q][p], early) + Units[r][p] <= Limit[p]

PoolsFit(r) ==
    \A p \in Pools :
        MapThenSumSet(LAMBDA q : Units[q][p], Counted) + Units[r][p] <= Limit[p]

\* load_and_validate_context: the attempt, the worker and the exact session.
Admissible(r, w, s, e) ==
    /\ attempt[AttemptOf[r]].state = "ADMISSIBLE"
    /\ worker[w].status = "READY"
    /\ s \in LiveSessions(w) /\ e <= session[s].expires

\* acquire_admission_reservations for a key that has no set yet.
Acquire(r, w, s, e) ==
    /\ sets[r].state = "NONE"
    /\ e > now
    /\ Admissible(r, w, s, e)
    /\ OfAttempt(AttemptOf[r]) = {}
    /\ SlotFree(w) /\ PoolsFit(r)
    /\ sets' = [sets EXCEPT ![r] =
           [state |-> "ACTIVE", worker |-> w, session |-> s,
            generation |-> worker[w].generation, expires |-> e, fence |-> 1,
            by |-> "nobody"]]
    /\ ledger' = [ledger EXCEPT ![r].reserve = @ + 1]
    /\ UNCHANGED <<now, worker, session, attempt, receipt, candidates, check>>

\* The same request repeated: adopt_existing_set returns the set's receipt
\* under these conditions and refuses with a conflict otherwise.
Adoptable(r) ==
    LET row == sets[r]
    IN  /\ row.state = "ACTIVE" /\ row.expires > now
        /\ session[row.session].status = "ACTIVE"
        /\ session[row.session].worker = row.worker
        /\ session[row.session].generation = row.generation
        /\ session[row.session].expires > now
        /\ row.expires <= session[row.session].expires
        /\ worker[row.worker].status # "QUARANTINED"
        /\ worker[row.worker].generation = row.generation

(***************************************************************************)
(* Ending a set: apply_active_reservation_transition, over every set a     *)
(* transaction ends.                                                       *)
(***************************************************************************)
End(R, target, who) ==
    /\ sets' = [r \in Sets |-> IF r \in R THEN [sets[r] EXCEPT !.state = target,
                                                              !.fence = @ + 1,
                                                              !.by = who]
                               ELSE sets[r]]
    /\ ledger' = [r \in Sets |-> IF r \in R THEN [ledger[r] EXCEPT !.release = @ + 1]
                                 ELSE ledger[r]]

\* release_reservation_set and expire_reservation_set: the owner presents
\* the fence of its admission receipt.
Transition(c, r, target) ==
    /\ r \in Active
    /\ sets[r].fence = 1
    /\ target = "EXPIRED" => r \in Elapsed
    /\ \A x \in Sets : sets[x].by # c
    /\ End({r}, target, c)
    /\ receipt' = [receipt EXCEPT ![c] = [set |-> r, state |-> target]]
    /\ UNCHANGED <<now, worker, session, attempt, candidates, check>>

\* Fault: a terminal set answers every caller with its own target.
AdoptAnyTransition(c, r, target) ==
    /\ sets[r].state = target
    /\ sets[r].fence = 2
    /\ receipt' = [receipt EXCEPT ![c] = [set |-> r, state |-> target]]
    /\ UNCHANGED <<now, worker, session, sets, ledger, attempt, candidates, check>>

\* The owner's repeated call finds the set ended by its own first call.
AdoptTransition(c, r, target) ==
    /\ sets[r].state = target
    /\ sets[r].fence = 2
    /\ sets[r].by = c
    /\ receipt' = [receipt EXCEPT ![c] = [set |-> r, state |-> target]]
    /\ UNCHANGED <<now, worker, session, sets, ledger, attempt, candidates, check>>

\* The answer to the owner's call is lost; the owner will repeat it.
LoseReceipt(c) ==
    /\ receipt[c].set # NoSet
    /\ receipt' = [receipt EXCEPT ![c] = [set |-> NoSet, state |-> "none"]]
    /\ UNCHANGED <<now, worker, session, sets, ledger, attempt, candidates, check>>

\* expire_elapsed_reservation_sets, first statement: read the oldest elapsed
\* sets, before any lock.
SweepSelect(v) ==
    /\ candidates[v] = {}
    /\ \E C \in SUBSET Elapsed :
           /\ C # {} /\ Cardinality(C) <= SweepBatch
           /\ C = Elapsed \/ Cardinality(C) = SweepBatch
           /\ \A r \in C, x \in Elapsed \ C : sets[r].expires <= sets[x].expires
           /\ candidates' = [candidates EXCEPT ![v] = C]
    /\ UNCHANGED <<now, worker, session, sets, ledger, attempt, receipt, check>>

\* Fault: the sweep ends what it selected without looking again.
SweepApplyBlindly(v, skipped) ==
    /\ candidates[v] # {}
    /\ End(candidates[v] \ skipped, "EXPIRED", "sweep")
    /\ candidates' = [candidates EXCEPT ![v] = {}]
    /\ UNCHANGED <<now, worker, session, attempt, receipt, check>>

\* Fault: the sweep skips the sets whose work is still running.
SweepApplyIdle(v, skipped) ==
    /\ candidates[v] # {}
    /\ End({r \in (candidates[v] \cap Elapsed) \ skipped :
                attempt[AttemptOf[r]].state # "RUNNING"}, "EXPIRED", "sweep")
    /\ candidates' = [candidates EXCEPT ![v] = {}]
    /\ UNCHANGED <<now, worker, session, attempt, receipt, check>>

\* Then, under the budget locks, end those that are still ACTIVE; rows that
\* some other transaction has locked at that moment are skipped.
SweepApply(v, skipped) ==
    /\ candidates[v] # {}
    /\ End((candidates[v] \cap Elapsed) \ skipped, "EXPIRED", "sweep")
    /\ candidates' = [candidates EXCEPT ![v] = {}]
    /\ UNCHANGED <<now, worker, session, attempt, receipt, check>>

\* The attempt's run starts on a worker.
Dispatch(a, w) ==
    /\ attempt[a].state = "ADMISSIBLE"
    /\ attempt' = [attempt EXCEPT ![a] = [state |-> "RUNNING", worker |-> w]]
    /\ UNCHANGED <<now, worker, session, sets, ledger, receipt, candidates, check>>

\* Source closure or cancellation ends the attempt and releases what it
\* holds; a set of any worker but the run's own refuses the transaction.
Terminate(a) ==
    /\ attempt[a].state = "RUNNING"
    /\ OfAttempt(a) \subseteq OnWorker(attempt[a].worker)
    /\ End(OfAttempt(a), "RELEASED", "terminal")
    /\ attempt' = [attempt EXCEPT ![a].state = "TERMINAL"]
    /\ UNCHANGED <<now, worker, session, receipt, candidates, check>>

(***************************************************************************)
(* Reconciling a worker with Runmill's health.                             *)
(***************************************************************************)
\* A RECONCILE_WORKER job is created with the worker's version and generation.
RequestCheck(k, w) ==
    /\ check[k].phase = "idle"
    /\ check' = [check EXCEPT ![k] =
           [phase |-> "queued", worker |-> w, generation |-> worker[w].generation,
            version |-> worker[w].version, seen |-> "OFFLINE", severed |-> FALSE]]
    /\ UNCHANGED <<now, worker, session, sets, ledger, attempt, receipt, candidates>>

\* The handler reads the health before its transaction; a retry reads again.
Probe(k, h) ==
    /\ check[k].phase \in {"queued", "probed"}
    /\ check' = [check EXCEPT ![k].phase = "probed", ![k].seen = h]
    /\ UNCHANGED <<now, worker, session, sets, ledger, attempt, receipt, candidates>>

Superseded(k) ==
    \/ worker[check[k].worker].generation # check[k].generation
    \/ worker[check[k].worker].version # check[k].version

\* Fault: a healthy probe lifts a quarantine.
QualifyForgiving(w, h) ==
    IF h = "MISMATCH" THEN "QUARANTINED"
    ELSE IF h # "READY" THEN h
    ELSE IF LiveSessions(w) = {} THEN "REGISTERED"
    ELSE IF Cardinality(Counted \cap OnWorker(w)) >= worker[w].slots THEN "DRAINING"
    ELSE "READY"

Qualify(w, h) ==
    IF worker[w].status = "QUARANTINED" \/ h = "MISMATCH" THEN "QUARANTINED"
    ELSE IF h # "READY" THEN h
    ELSE IF LiveSessions(w) = {} THEN "REGISTERED"
    ELSE IF Cardinality(Counted \cap OnWorker(w)) >= worker[w].slots THEN "DRAINING"
    ELSE "READY"

\* Everything the worker holds is released, then its sessions are revoked.
Quarantine(w) ==
    /\ End(OnWorker(w), "RELEASED", "quarantine")
    /\ session' = [s \in Sessions |-> IF s \in ActiveSessions(w)
                                      THEN [session[s] EXCEPT !.status = "REVOKED"]
                                      ELSE session[s]]

\* An unsafe report quarantines the worker even when the check is superseded;
\* any other report of a superseded check changes nothing.  A worker found
\* quarantined is severed, whoever quarantined it.
Reconcile(k) ==
    LET w == check[k].worker
        forced == Superseded(k) /\ check[k].seen = "QUARANTINED"
        next == IF forced THEN "QUARANTINED"
                ELSE IF Superseded(k) THEN worker[w].status
                ELSE Qualify(w, check[k].seen)
        writes == ~Superseded(k) \/ (forced /\ worker[w].status # "QUARANTINED")
    IN  /\ check[k].phase = "probed"
        /\ worker' = IF writes THEN [worker EXCEPT ![w].status = next, ![w].version = @ + 1]
                     ELSE worker
        /\ IF next = "QUARANTINED" THEN Quarantine(w) ELSE UNCHANGED <<session, sets, ledger>>
        /\ check' = [check EXCEPT ![k] =
               [phase |-> "done", worker |-> w, generation |-> worker[w].generation,
                version |-> 0, seen |-> "OFFLINE", severed |-> next = "QUARANTINED"]]
        /\ UNCHANGED <<now, attempt, receipt, candidates>>

Next ==
    \/ Tick
    \/ \E w \in Workers, s \in Sessions, e \in Times : OpenSession(w, s, e)
    \/ \E s \in Sessions : CloseSession(s)
    \/ \E s \in Sessions, e \in Times : RenewSession(s, e)
    \/ \E w \in Workers, st \in WorkerStatus, n \in Slots : AdvanceGeneration(w, st, n)
    \/ \E w \in Workers : OperatorQuarantine(w)
    \/ \E r \in Sets, w \in Workers, s \in Sessions, e \in Times : Acquire(r, w, s, e)
    \/ \E c \in Callers, r \in Sets, target \in Ended : Transition(c, r, target)
    \/ \E c \in Callers, r \in Sets, target \in Ended : AdoptTransition(c, r, target)
    \/ \E c \in Callers : LoseReceipt(c)
    \/ \E v \in Sweepers : SweepSelect(v)
    \/ \E v \in Sweepers : \E skipped \in SUBSET candidates[v] : SweepApply(v, skipped)
    \/ \E a \in Attempts, w \in Workers : Dispatch(a, w)
    \/ \E a \in Attempts : Terminate(a)
    \/ \E k \in Checks, w \in Workers : RequestCheck(k, w)
    \/ \E k \in Checks, h \in Health : Probe(k, h)
    \/ \E k \in Checks : Reconcile(k)

\* Time passes, and reactors keep polling: every poll begins with a sweep.  Row
\* locks last one short transaction, so not every sweep of a reactor meets one.
Fairness ==
    /\ WF_vars(Tick)
    /\ \A v \in Sweepers : WF_vars(SweepSelect(v)) /\ SF_vars(SweepApply(v, {}))

Spec == Init /\ [][Next]_vars
FairSpec == Spec /\ Fairness

(***************************************************************************)
(* Properties.                                                             *)
(***************************************************************************)
\* Every row keeps the domain the schema gives it.
TypeOK ==
    /\ now \in Nat
    /\ worker \in [Workers -> WorkerRow]
    /\ session \in [Sessions -> SessionRow]
    /\ sets \in [Sets -> SetRow]
    /\ ledger \in [Sets -> LedgerRows]
    /\ attempt \in [Attempts -> AttemptRow]
    /\ receipt \in [Callers -> Receipt]
    /\ candidates \in [Sweepers -> SUBSET Sets]
    /\ check \in [Checks -> CheckRow]

\* No worker runs more sets than its current generation allows, although a
\* new generation may allow fewer.
SlotsSuffice ==
    \A w \in Workers : Cardinality(Counted \cap OnWorker(w)) <= worker[w].slots

\* No worker, repository, identity or budget is promised twice over by sets
\* that count, however elapsed sets, releases and new generations interleave.
NoOvercommit ==
    /\ SlotsSuffice
    /\ \A p \in Pools : MapThenSumSet(LAMBDA q : Units[q][p], Counted) <= Limit[p]

\* An ACTIVE set never outlives its authority: its exact session is ACTIVE
\* and ends no earlier, its worker is still in the same generation.
AuthorityOutlivesSet ==
    \A r \in Active :
        LET row == sets[r]
        IN  /\ row.worker \in Workers /\ row.session \in ActiveSessions(row.worker)
            /\ session[row.session].generation = row.generation
            /\ worker[row.worker].generation = row.generation
            /\ row.expires <= session[row.session].expires

\* A repeated admission request is answered while its set counts, unless its
\* worker has been quarantined by hand in the meantime: none of the other
\* conditions adopt_existing_set revalidates can have lapsed.
RetryIsAnswered ==
    \A r \in Counted : worker[sets[r].worker].status # "QUARANTINED" => Adoptable(r)

\* A completed reconciliation that reports a quarantine has severed the worker
\* for the rest of its generation: it stays quarantined, with no ACTIVE session
\* and no ACTIVE set, whatever was in flight, whoever quarantined it, and even
\* when the job was superseded or its own probe had found nothing wrong.
QuarantineSevers ==
    \A k \in Checks :
        LET w == check[k].worker
        IN  check[k].severed /\ check[k].generation = worker[w].generation
            => /\ worker[w].status = "QUARANTINED"
               /\ ActiveSessions(w) = {} /\ OnWorker(w) = {}

\* Budgets balance: a set's reservation is booked once, and its release once,
\* exactly when the set has ended, whoever of four paths ended it.
ReleasedExactlyOnce ==
    \A r \in Sets :
        /\ ledger[r].reserve = (IF sets[r].state = "NONE" THEN 0 ELSE 1)
        /\ ledger[r].release = (IF sets[r].state \in Ended THEN 1 ELSE 0)
        /\ sets[r].fence = ledger[r].reserve + ledger[r].release

\* An owner holding a receipt ended that set itself, in the way it asked for.
ReceiptIsTrue ==
    \A c \in Callers : receipt[c].set # NoSet =>
        sets[receipt[c].set].state = receipt[c].state /\ sets[receipt[c].set].by = c

\* A finished attempt holds no capacity and never obtains any again.
TerminalHoldsNothing ==
    \A a \in Attempts : attempt[a].state = "TERMINAL" => OfAttempt(a) = {}

\* No health report lifts a quarantine: only a new generation does.
QuarantineIsMonotonic ==
    [][\A w \in Workers :
           worker[w].status = "QUARANTINED" /\ worker'[w].status # "QUARANTINED"
               => worker'[w].generation = worker[w].generation + 1]_vars

\* Capacity always comes back, with no help from the owner.
EveryReservationEnds ==
    \A r \in Sets : sets[r].state = "ACTIVE" ~> sets[r].state \in Ended
=============================================================================
