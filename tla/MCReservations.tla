--------------------------- MODULE MCReservations ---------------------------
(* Reservations, and the locks their transactions and all others take.  A   *)
(* step of module Admission is a whole transaction, and module LockOrder is *)
(* about nothing but its locks, so the two are checked side by side: a      *)
(* behaviour takes the steps of one, and the other stays as it began.       *)
EXTENDS MCAdmission, LockOrder

VARIABLE focus

\* Two work items on one worker.
MCItems == 1..2
OneWorker == [w \in MCItems |-> "k1"]

\* Any two transactions at once, or three of those that reserve and release.
Releasing == {"ADMIT", "TRANSITION", "SWEEP", "QUARANTINE", "CLOSE", "CANCEL"}
MayBegin(kind) ==
    LET others == {c \in Clients : Busy(c)} IN
    Cardinality(others) >= 2 => {kind} \cup {tx[c].kind : c \in others} \subseteq Releasing
Locking ==
    \E c \in Clients :
        LockStep(c) \/ \E k \in TransactionKinds : MayBegin(k) /\ BeginTransaction(c, k)

Alike == Symmetry \cup Permutations(Clients)

-----------------------------------------------------------------------------
LedgerInit == Init /\ LockInit /\ focus \in {"ledger", "locks"}

LedgerNext ==
    \/ focus = "ledger" /\ Next /\ UNCHANGED <<focus, tx>>
    \/ focus = "locks" /\ Locking /\ UNCHANGED <<focus, vars>>

LedgerSpec == LedgerInit /\ [][LedgerNext]_<<focus, vars, tx>>
=============================================================================
