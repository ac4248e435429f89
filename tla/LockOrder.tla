------------------------------ MODULE LockOrder ------------------------------
(***************************************************************************)
(* The locks the ledger's transactions take, and who can wait for whom.    *)
(*                                                                         *)
(* Nothing in the code has a single lock order.  Admission, quarantine,    *)
(* closure, cancellation, the expiry sweep, the workflow steps, the API's  *)
(* calls and the intake each take advisory locks and rows in an order of   *)
(* their own; comments say which pairs were thought about.  A transaction  *)
(* is here the sequence of the locks its Rust code asks for, in the order  *)
(* of its statements and, within one statement, of its OF clause.  All are *)
(* held to the end of the transaction.                                     *)
(*                                                                         *)
(* A lock is exclusive (X: FOR UPDATE, pg_advisory_xact_lock), shared      *)
(* (S: FOR SHARE), or a key share (K: the row a foreign key of an inserted *)
(* row names), which only an exclusive one conflicts with.  Left out are   *)
(* rows that one kind of transaction alone locks, a handler's own claimed  *)
(* job, and what the triggers of the migrations lock.                      *)
(***************************************************************************)
EXTENDS Integers, FiniteSets, SequencesExt

CONSTANTS
    Clients,            \* database connections
    TransactionKinds,              \* the transactions they run
    Items,              \* work items, in the order of their UUIDs: 1..n
    LockedWorkers,            \* Runmill workers
    WorkerOf,           \* per item the worker it is admitted to
    Detector,           \* whether PostgreSQL's deadlock detector runs
    NoKind

VARIABLES
    tx                  \* per connection its transaction

AllKinds == {"ADMIT", "ADOPT", "TRANSITION", "SWEEP", "QUARANTINE", "QUALIFY", "CLOSE",
             "CANCEL", "VERIFY", "STEP", "ACCEPT", "API_CANCEL", "PRE_DISPATCH", "DECIDE",
             "API_VERIFY", "API_RECONCILE", "INTAKE", "INGEST"}

ASSUME LockOrderAssumption ==
    /\ IsFiniteSet(Clients)
    /\ TransactionKinds \subseteq AllKinds
    /\ Items = 1..Cardinality(Items)
    /\ WorkerOf \in [Items -> LockedWorkers]
    /\ Detector \in BOOLEAN

-----------------------------------------------------------------------------
(* Requests: what is locked, how strongly, and what is done when it is not  *)
(* free.  WAIT blocks, NOWAIT fails the transaction, SKIP goes on without,  *)
(* and WITH is a key share that only follows if the item's set was locked.  *)

Request(mode, how, name, of) == [on |-> <<name, of>>, mode |-> mode, how |-> how]
X(name, of) == Request("X", "WAIT", name, of)
S(name, of) == Request("S", "WAIT", name, of)
K(name, of) == Request("K", "WAIT", name, of)

Conflict(a, b) == a = "X" \/ b = "X"

ForEach(items, Locks(_)) == FlattenSeq([i \in DOMAIN items |-> Locks(items[i])])
Sorted(items) == SetToSortSeq(items, LAMBDA a, b : a < b)
ItemsOf(k) == {w \in Items : WorkerOf[w] = k}

\* The advisory keys of lock_attempt_reservation_release_authority.
ReleaseAuthority(w) == <<X("Authority", WorkerOf[w]), X("Budget", w)>>

\* admission_lock_keys, sorted: attempt, budget, identity, repository, worker.
AdmissionKeys(w) == <<X("AttemptKey", w), X("Budget", w), X("IdentityKey", 1),
                      X("RepositoryKey", 1), X("WorkerKey", WorkerOf[w])>>

\* load_and_validate_context: the aggregates, then the worker's authority.
AggregateRows(w) == <<X("Work", w), X("Attempt", w), X("Repository", 1)>>
AuthorityRows(w) == <<X("Worker", WorkerOf[w]), X("Session", WorkerOf[w]), X("Identity", 1)>>

\* The rows of an admission end with the attempt's active set.
AdmissionRows(w) == AggregateRows(w) \o AuthorityRows(w) \o <<X("Set", w)>>

Admit(w) == <<X("Key", w), X("Authority", WorkerOf[w])>> \o AdmissionKeys(w) \o AdmissionRows(w)

\* An admission that finds its key used adopts the set.
Adopt(w) == <<X("Key", w), X("Authority", WorkerOf[w]), X("Set", w),
              X("Session", WorkerOf[w]), X("Worker", WorkerOf[w])>>

\* The budget ledger's row names the work item and the attempt.
Accounted(w) == <<K("Work", w), K("Attempt", w)>>

TransitionLocks(w) == <<X("Budget", w), X("SetKey", w), X("Set", w)>> \o Accounted(w)

Sweep == ForEach(Sorted(Items), LAMBDA w : <<X("Budget", w)>>)
         \o ForEach(Sorted(Items), LAMBDA w : <<Request("X", "SKIP", "Set", w)>>)
         \o ForEach(Sorted(Items), LAMBDA w : <<Request("K", "WITH", "Work", w),
                                                Request("K", "WITH", "Attempt", w)>>)

\* release_active_worker_reservations.
ReleaseOfWorker(k) == ForEach(Sorted(ItemsOf(k)), LAMBDA w : <<X("Budget", w)>>)
                      \o ForEach(Sorted(ItemsOf(k)), LAMBDA w : <<X("Set", w)>>)
                      \o ForEach(Sorted(ItemsOf(k)), Accounted)

\* A reconciliation that finds the worker unsafe, and one that does not.
QuarantineLocks(k) == <<X("Authority", k), X("Worker", k)>> \o ReleaseOfWorker(k)
                 \o <<X("Session", k), X("Audit", 1)>>
QualifyLocks(k) == <<X("Authority", k), X("Worker", k), X("Session", k), X("Audit", 1)>>

Close(w) == ReleaseAuthority(w)
            \o <<X("Work", w), X("Attempt", w), X("Delivery", w), X("Run", w),
                 X("Worker", WorkerOf[w]), X("Set", w), X("Audit", 1)>>

Cancel(w) == ReleaseAuthority(w)
             \o <<X("Work", w), X("Attempt", w), X("Stopping", w), X("Run", w),
                  X("Set", w), X("Audit", 1)>>

Verify(w) == <<X("Work", w), X("Attempt", w), X("Delivery", w), X("Run", w),
               X("Worker", WorkerOf[w]), X("Audit", 1)>>

\* lock_step_aggregates, of the job that ACCEPT created.
Step(w) == <<X("Job", w), X("Work", w), X("Delivery", w), X("Audit", 1)>>

Accept(w) == <<X("Work", w), X("Delivery", w), X("Audit", 1)>>

ApiCancel(w) == <<X("Work", w), X("Guard", w), S("Run", w), X("Stopping", w), X("Audit", 1)>>

\* Fault: the pristine job is waited for.
PreDispatchWaiting(w) == <<X("Work", w), X("Job", w), X("Delivery", w), X("Audit", 1)>>
PreDispatch(w) == <<X("Work", w), Request("X", "NOWAIT", "Job", w),
                    Request("X", "NOWAIT", "Delivery", w), X("Audit", 1)>>

\* The queued job names the work item and the attempt.
Decide(w) == <<X("Approval", w), X("Delivery", w), K("Work", w), K("Attempt", w), X("Audit", 1)>>

ApiVerify(w) == <<S("Run", w), X("Delivery", w), K("Work", w), K("Attempt", w), X("Audit", 1)>>

ApiReconcile(k) == <<S("Worker", k), X("Audit", 1)>>

\* The writer locks the audit chain, then each work item as the source lists
\* them, which is in no order of ours.
Intake(first) == <<X("IntakeKey", 1), X("Audit", 1), X("Work", first)>>
                 \o ForEach(Sorted(Items \ {first}), LAMBDA w : <<X("Work", w)>>)

Ingest(w) == <<X("Session", WorkerOf[w]), X("Worker", WorkerOf[w]), X("Run", w)>>

Program(kind, w) ==
    CASE kind = "ADMIT" -> Admit(w)
      [] kind = "ADOPT" -> Adopt(w)
      [] kind = "TRANSITION" -> TransitionLocks(w)
      [] kind = "SWEEP" -> Sweep
      [] kind = "QUARANTINE" -> QuarantineLocks(WorkerOf[w])
      [] kind = "QUALIFY" -> QualifyLocks(WorkerOf[w])
      [] kind = "CLOSE" -> Close(w)
      [] kind = "CANCEL" -> Cancel(w)
      [] kind = "VERIFY" -> Verify(w)
      [] kind = "STEP" -> Step(w)
      [] kind = "ACCEPT" -> Accept(w)
      [] kind = "API_CANCEL" -> ApiCancel(w)
      [] kind = "PRE_DISPATCH" -> PreDispatch(w)
      [] kind = "DECIDE" -> Decide(w)
      [] kind = "API_VERIFY" -> ApiVerify(w)
      [] kind = "API_RECONCILE" -> ApiReconcile(WorkerOf[w])
      [] kind = "INTAKE" -> Intake(w)
      [] kind = "INGEST" -> Ingest(w)

Programs == [kind \in TransactionKinds, w \in Items |-> Program(kind, w)]

-----------------------------------------------------------------------------
(* Transactions. *)

NoTransaction == [kind |-> NoKind, item |-> 0, at |-> 0, held |-> {}]

Busy(c) == tx[c].kind # NoKind
Asking(c) == Busy(c) /\ tx[c].at <= Len(Programs[tx[c].kind, tx[c].item])
Asked(c) == Programs[tx[c].kind, tx[c].item][tx[c].at]

\* The connections that hold what this one asks for.
Holders(c) == {d \in Clients \ {c} :
                  \E l \in tx[d].held : l.on = Asked(c).on /\ Conflict(l.mode, Asked(c).mode)}

\* A key share of an item whose set the sweep could not lock is not taken.
Wanted(c) == Asked(c).how = "WITH" => \E l \in tx[c].held : l.on = <<"Set", Asked(c).on[2]>>

WaitsFor(c) == IF Asking(c) /\ Wanted(c) /\ Asked(c).how \in {"WAIT", "WITH"} THEN Holders(c) ELSE {}

\* Sets of connections that wait for nobody outside, each for one of them.
Stuck(G) == G # {} /\ \A c \in G : WaitsFor(c) \cap G # {}

BeginTransaction(c, kind) ==
    /\ ~Busy(c)
    /\ \E w \in Items :
          tx' = [tx EXCEPT ![c] = [kind |-> kind, item |-> w, at |-> 1, held |-> {}]]

AcquireLock(c) ==
    /\ Asking(c) /\ Wanted(c) /\ Holders(c) = {}
    /\ tx' = [tx EXCEPT ![c].held = @ \cup {[on |-> Asked(c).on, mode |-> Asked(c).mode]},
                        ![c].at = @ + 1]

\* SKIP LOCKED, and the rows of a set that was skipped.
Pass(c) ==
    /\ Asking(c)
    /\ ~Wanted(c) \/ (Asked(c).how = "SKIP" /\ Holders(c) # {})
    /\ tx' = [tx EXCEPT ![c].at = @ + 1]

EndTransaction(c) == tx' = [tx EXCEPT ![c] = NoTransaction]

\* NOWAIT.
Refused(c) == Asking(c) /\ Asked(c).how = "NOWAIT" /\ Holders(c) # {} /\ EndTransaction(c)

CommitTransaction(c) == Busy(c) /\ ~Asking(c) /\ EndTransaction(c)

\* A check of the transaction fails, or its connection is lost.
RollbackTransaction(c) == Busy(c) /\ EndTransaction(c)

\* PostgreSQL aborts one transaction of a cycle.
Detect(c) == Detector /\ (\E G \in SUBSET Clients : c \in G /\ Stuck(G)) /\ EndTransaction(c)

LockInit == tx = [c \in Clients |-> NoTransaction]

LockStep(c) == AcquireLock(c) \/ Pass(c) \/ Refused(c) \/ CommitTransaction(c)
               \/ RollbackTransaction(c) \/ Detect(c)

LockNext == \E c \in Clients : LockStep(c) \/ \E k \in TransactionKinds : BeginTransaction(c, k)

LockSpec == LockInit /\ [][LockNext]_tx

-----------------------------------------------------------------------------
(* Properties. *)

\* The kinds whose order runs against that of another: the intake (the audit
\* chain before the work items), the run events (session, worker, run), the
\* verifier (the work item before the worker, with no authority taken), and
\* the API's two calls that lock the delivery workflow before the work item
\* that the job they queue names.
Inverting == {"INTAKE", "INGEST", "VERIFY", "DECIDE", "API_VERIFY"}

\* A connection without a transaction holds nothing, and one with a
\* transaction nothing that it has not asked for.
LockTypeOK ==
    \A c \in Clients :
       \/ tx[c] = NoTransaction
       \/ /\ tx[c].kind \in TransactionKinds /\ tx[c].item \in Items
          /\ tx[c].at \in 1..(1 + Len(Programs[tx[c].kind, tx[c].item]))
          /\ \A l \in tx[c].held : \E i \in 1..(tx[c].at - 1) :
                l = [on |-> Programs[tx[c].kind, tx[c].item][i].on,
                     mode |-> Programs[tx[c].kind, tx[c].item][i].mode]

\* Transactions never wait for each other in a circle unless one of them is
\* of the five inverting kinds: admission, adoption, the sweep, the owner's
\* transition, quarantine, closure, cancellation, the steps and the other
\* calls of the API agree on an order, for three at once and over two work
\* items of one worker, whose rows they meet in (reserve_admission, reconcile,
\* lock_attempt_reservation_release_authority, lock_step_aggregates,
\* lock_pre_dispatch_cancellation_binding).
CirclesNeedAnInversion ==
    \A G \in SUBSET Clients : Stuck(G) => \E c \in G : tx[c].kind \in Inverting

=============================================================================
