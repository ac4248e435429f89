---------------------------- MODULE FleetProofs ----------------------------
(***************************************************************************)
(* Who may do the work.  Admission, for every number of workers, sessions, *)
(* attempts, sets, callers, sweepers and checks; Routes, for every number  *)
(* of processes, builds, jobs, timers, handlers and crashes.               *)
(***************************************************************************)
EXTENDS Admission, Routes, FiniteSetTheorems, TLAPS

(***************************************************************************)
(* Types.                                                                  *)
(***************************************************************************)
\* A check that has left "idle" names a worker of the model.
CheckNamesWorker == \A k \in Checks : check[k].phase # "idle" => check[k].worker \in Workers

Typed == TypeOK /\ CheckNamesWorker

\* Each update the actions make to a row gives a row.
LEMMA LedgerRowTyped ==
    ASSUME NEW row \in LedgerRows
    PROVE  /\ [row EXCEPT !.reserve = @ + 1] \in LedgerRows
           /\ [row EXCEPT !.release = @ + 1] \in LedgerRows
  BY DEF LedgerRows

LEMMA SetRowTyped ==
    ASSUME NEW row \in SetRow, NEW target \in Ended,
           NEW who \in Callers \cup {"nobody", "sweep", "quarantine", "terminal"}
    PROVE  [row EXCEPT !.state = target, !.fence = @ + 1, !.by = who] \in SetRow
<1>1. row.fence + 1 \in Nat
  BY DEF SetRow
<1>2. ASSUME NEW n \in Nat
      PROVE  [row EXCEPT !.state = target, !.fence = n, !.by = who] \in SetRow
  BY DEF SetRow
<1> QED BY <1>1, <1>2

LEMMA SessionRowTyped ==
    ASSUME NEW row \in SessionRow, NEW e \in Nat, NEW st \in {"CLOSED", "REVOKED"}
    PROVE  /\ [row EXCEPT !.expires = e] \in SessionRow
           /\ [row EXCEPT !.status = st] \in SessionRow
  BY DEF SessionRow

LEMMA WorkerRowTyped ==
    ASSUME NEW row \in WorkerRow, NEW st \in WorkerStatus, NEW n \in Slots
    PROVE  /\ [row EXCEPT !.generation = @ + 1, !.status = st, !.slots = n] \in WorkerRow
           /\ [row EXCEPT !.status = st, !.version = @ + 1] \in WorkerRow
<1>1. row.generation + 1 \in Nat /\ row.version + 1 \in Nat
  BY DEF WorkerRow
<1>2. ASSUME NEW i \in Nat
      PROVE  /\ [row EXCEPT !.generation = i, !.status = st, !.slots = n] \in WorkerRow
             /\ [row EXCEPT !.status = st, !.version = i] \in WorkerRow
  BY DEF WorkerRow
<1> QED BY <1>1, <1>2

\* Ending sets keeps the rows well typed.
LEMMA EndTyped ==
    ASSUME TypeOK, NEW R \in SUBSET Sets, NEW target \in Ended,
           NEW who \in Callers \cup {"nobody", "sweep", "quarantine", "terminal"},
           End(R, target, who)
    PROVE  sets' \in [Sets -> SetRow] /\ ledger' \in [Sets -> LedgerRows]
<1>1. ASSUME NEW r \in Sets
      PROVE  /\ [sets[r] EXCEPT !.state = target, !.fence = @ + 1, !.by = who] \in SetRow
             /\ [ledger[r] EXCEPT !.release = @ + 1] \in LedgerRows
             /\ sets[r] \in SetRow /\ ledger[r] \in LedgerRows
  <2>1. sets[r] \in SetRow /\ ledger[r] \in LedgerRows
    BY DEF TypeOK
  <2>2. [sets[r] EXCEPT !.state = target, !.fence = @ + 1, !.by = who] \in SetRow
    BY <2>1, SetRowTyped
  <2>3. [ledger[r] EXCEPT !.release = @ + 1] \in LedgerRows
    BY <2>1, LedgerRowTyped
  <2> QED BY <2>1, <2>2, <2>3
<1> QED BY <1>1 DEF End

\* What a check qualifies a worker for is a status.
LEMMA QualifyTyped ==
    ASSUME TypeOK, NEW w \in Workers, NEW h \in Health
    PROVE  Qualify(w, h) \in WorkerStatus
  BY DEF Qualify, Health, WorkerStatus, TypeOK, WorkerRow

LEMMA TypedInit == Init => Typed
<1> SUFFICES ASSUME Init PROVE Typed
  OBVIOUS
<1> USE DEF Init
<1>1. worker \in [Workers -> WorkerRow]
  BY DEF WorkerRow, WorkerStatus
<1>2. session \in [Sessions -> SessionRow] /\ sets \in [Sets -> SetRow]
  BY DEF SessionRow, SetRow
<1>3. ledger \in [Sets -> LedgerRows] /\ attempt \in [Attempts -> AttemptRow]
  BY DEF LedgerRows, AttemptRow
<1>4. receipt \in [Callers -> Receipt] /\ candidates \in [Sweepers -> SUBSET Sets]
  BY DEF Receipt
<1>5. check \in [Checks -> CheckRow] /\ CheckNamesWorker
  BY DEF CheckRow, Health, CheckNamesWorker
<1> QED BY <1>1, <1>2, <1>3, <1>4, <1>5 DEF Typed, TypeOK

LEMMA TypedNext == Typed /\ [Next]_vars => Typed'
<1> SUFFICES ASSUME Typed, [Next]_vars PROVE Typed'
  OBVIOUS
<1> USE AdmissionAssumption DEF Typed, TypeOK, CheckNamesWorker
<1>1. CASE UNCHANGED vars
  BY <1>1 DEF vars
<1>2. CASE Tick
  BY <1>2 DEF Tick
<1>3. ASSUME NEW w \in Workers, NEW s \in Sessions, NEW e \in Times, OpenSession(w, s, e)
      PROVE  Typed'
  <2>1. [status |-> "ACTIVE", worker |-> w, generation |-> worker[w].generation, expires |-> e]
            \in SessionRow
    BY DEF SessionRow, WorkerRow, Times
  <2> QED BY <1>3, <2>1 DEF OpenSession
<1>4. ASSUME NEW s \in Sessions, CloseSession(s) PROVE Typed'
  <2>0. session[s] \in SessionRow
    OBVIOUS
  <2>1. [session[s] EXCEPT !.status = "CLOSED"] \in SessionRow
    BY <2>0, SessionRowTyped
  <2> QED BY <1>4, <2>1 DEF CloseSession
<1>5. ASSUME NEW s \in Sessions, NEW e \in Times, RenewSession(s, e) PROVE Typed'
  <2>0. session[s] \in SessionRow
    OBVIOUS
  <2>1. [session[s] EXCEPT !.expires = e] \in SessionRow
    <3>1. e \in Nat
      BY DEF Times
    <3> QED BY <2>0, <3>1, SessionRowTyped
  <2> QED BY <1>5, <2>1 DEF RenewSession
<1>6. ASSUME NEW w \in Workers, NEW st \in WorkerStatus, NEW n \in Slots,
             AdvanceGeneration(w, st, n)
      PROVE  Typed'
  <2>0. worker[w] \in WorkerRow
    OBVIOUS
  <2>1. [worker[w] EXCEPT !.generation = @ + 1, !.status = st, !.slots = n] \in WorkerRow
    BY <2>0, WorkerRowTyped
  <2> QED BY <1>6, <2>1 DEF AdvanceGeneration
<1>7. ASSUME NEW r \in Sets, NEW w \in Workers, NEW s \in Sessions, NEW e \in Times,
             Acquire(r, w, s, e)
      PROVE  Typed'
  <2>1. [state |-> "ACTIVE", worker |-> w, session |-> s, generation |-> worker[w].generation,
         expires |-> e, fence |-> 1, by |-> "nobody"] \in SetRow
    BY DEF SetRow, WorkerRow, Times
  <2>0. ledger[r] \in LedgerRows
    OBVIOUS
  <2>2. [ledger[r] EXCEPT !.reserve = @ + 1] \in LedgerRows
    BY <2>0, LedgerRowTyped
  <2> QED BY <1>7, <2>1, <2>2 DEF Acquire
<1>8. ASSUME NEW c \in Callers, NEW r \in Sets, NEW target \in Ended, Transition(c, r, target)
      PROVE  Typed'
  <2>1. sets' \in [Sets -> SetRow] /\ ledger' \in [Sets -> LedgerRows]
    BY <1>8, EndTyped DEF Transition
  <2>2. receipt' \in [Callers -> Receipt]
    BY <1>8 DEF Transition, Receipt
  <2> QED BY <1>8, <2>1, <2>2 DEF Transition
<1>9. ASSUME NEW c \in Callers, NEW r \in Sets, NEW target \in Ended,
             AdoptTransition(c, r, target)
      PROVE  Typed'
  BY <1>9 DEF AdoptTransition, Receipt
<1>10. ASSUME NEW c \in Callers, LoseReceipt(c) PROVE Typed'
  BY <1>10 DEF LoseReceipt, Receipt
<1>11. ASSUME NEW v \in Sweepers, SweepSelect(v) PROVE Typed'
  BY <1>11 DEF SweepSelect, Elapsed, Active
<1>12. ASSUME NEW v \in Sweepers, NEW skipped, SweepApply(v, skipped) PROVE Typed'
  <2>1. sets' \in [Sets -> SetRow] /\ ledger' \in [Sets -> LedgerRows]
    BY <1>12, EndTyped DEF SweepApply, Ended
  <2> QED BY <1>12, <2>1 DEF SweepApply
<1>13. ASSUME NEW a \in Attempts, NEW w \in Workers, Dispatch(a, w) PROVE Typed'
  BY <1>13 DEF Dispatch, AttemptRow
<1>14. ASSUME NEW a \in Attempts, Terminate(a) PROVE Typed'
  <2>1. sets' \in [Sets -> SetRow] /\ ledger' \in [Sets -> LedgerRows]
    BY <1>14, EndTyped DEF Terminate, Ended, OfAttempt, Active
  <2>2. [attempt[a] EXCEPT !.state = "TERMINAL"] \in AttemptRow
    BY DEF AttemptRow
  <2> QED BY <1>14, <2>1, <2>2 DEF Terminate
<1>15. ASSUME NEW k \in Checks, NEW w \in Workers, RequestCheck(k, w) PROVE Typed'
  <2>1. [phase |-> "queued", worker |-> w, generation |-> worker[w].generation,
         version |-> worker[w].version, seen |-> "OFFLINE", severed |-> FALSE] \in CheckRow
    BY DEF CheckRow, WorkerRow, Health
  <2> QED BY <1>15, <2>1 DEF RequestCheck
<1>16. ASSUME NEW k \in Checks, NEW h \in Health, Probe(k, h) PROVE Typed'
  <2>1. [check[k] EXCEPT !.phase = "probed", !.seen = h] \in CheckRow
    BY DEF CheckRow
  <2> QED BY <1>16, <2>1 DEF Probe, CheckRow
<1>18. ASSUME NEW w \in Workers, OperatorQuarantine(w) PROVE Typed'
  <2>0. worker[w] \in WorkerRow /\ "QUARANTINED" \in WorkerStatus
    BY DEF WorkerStatus
  <2>1. [worker[w] EXCEPT !.status = "QUARANTINED", !.version = @ + 1] \in WorkerRow
    <3>1. worker[w].slots \in Slots
      BY <2>0 DEF WorkerRow
    <3> QED BY <2>0, <3>1, WorkerRowTyped
  <2> QED BY <1>18, <2>1 DEF OperatorQuarantine
<1>17. ASSUME NEW k \in Checks, Reconcile(k) PROVE Typed'
  <2> DEFINE w == check[k].worker
             forced == Superseded(k) /\ check[k].seen = "QUARANTINED"
             next == IF forced THEN "QUARANTINED"
                     ELSE IF Superseded(k) THEN worker[w].status
                     ELSE Qualify(w, check[k].seen)
  <2>1. w \in Workers /\ check[k].seen \in Health /\ check[k].phase = "probed"
    BY <1>17 DEF Reconcile, CheckRow
  <2>2. worker[w] \in WorkerRow
    BY <2>1
  <2>3. next \in WorkerStatus
    BY <2>1, <2>2, QualifyTyped DEF WorkerRow, WorkerStatus
  <2>4. worker' \in [Workers -> WorkerRow]
    <3>1. [worker[w] EXCEPT !.status = next, !.version = @ + 1] \in WorkerRow
      <4> HIDE DEF next, w
      <4>1. worker[w].slots \in Slots
        BY <2>2 DEF WorkerRow
      <4> QED BY <2>2, <2>3, <4>1, WorkerRowTyped
    <3>2. \/ worker' = worker
          \/ worker' = [worker EXCEPT ![w] = [worker[w] EXCEPT !.status = next,
                                                              !.version = @ + 1]]
      BY <1>17, <2>1 DEF Reconcile
    <3> HIDE DEF next, w
    <3> QED BY <2>1, <3>1, <3>2
  <2>5. /\ session' \in [Sessions -> SessionRow]
        /\ sets' \in [Sets -> SetRow] /\ ledger' \in [Sets -> LedgerRows]
    <3>1. CASE UNCHANGED <<session, sets, ledger>>
      BY <3>1
    <3>2. CASE Quarantine(w)
      <4>1. sets' \in [Sets -> SetRow] /\ ledger' \in [Sets -> LedgerRows]
        BY <3>2, EndTyped DEF Quarantine, OnWorker, Active, Ended
      <4>2. ASSUME NEW s \in Sessions
            PROVE  /\ session[s] \in SessionRow
                   /\ [session[s] EXCEPT !.status = "REVOKED"] \in SessionRow
        BY session[s] \in SessionRow, SessionRowTyped
      <4> QED BY <3>2, <4>1, <4>2 DEF Quarantine
    <3> QED BY <1>17, <3>1, <3>2 DEF Reconcile
  <2>6. check' \in [Checks -> CheckRow] /\ CheckNamesWorker'
    <3>1. PICK b \in BOOLEAN :
              check' = [check EXCEPT ![k] =
                  [phase |-> "done", worker |-> w, generation |-> worker[w].generation,
                   version |-> 0, seen |-> "OFFLINE", severed |-> b]]
      BY <1>17 DEF Reconcile
    <3>2. [phase |-> "done", worker |-> w, generation |-> worker[w].generation, version |-> 0,
           seen |-> "OFFLINE", severed |-> b] \in CheckRow
      BY <2>1, <2>2 DEF CheckRow, WorkerRow, Health
    <3> QED BY <2>1, <3>1, <3>2
  <2> QED BY <1>17, <2>4, <2>5, <2>6 DEF Reconcile
<1> QED
  BY <1>1, <1>2, <1>3, <1>4, <1>5, <1>6, <1>7, <1>8, <1>9, <1>10, <1>11, <1>12, <1>13,
     <1>14, <1>15, <1>16, <1>17, <1>18 DEF Next

(***************************************************************************)
(* What a step does to reservation sets: nothing, one admission, or the    *)
(* end of some ACTIVE ones.                                                *)
(***************************************************************************)
\* Ending the sets of R changes nothing but their state, fence and releaser.
LEMMA EndRows ==
    ASSUME Typed, NEW R \in SUBSET Sets, NEW target \in Ended,
           NEW who \in Callers \cup {"nobody", "sweep", "quarantine", "terminal"},
           End(R, target, who), NEW r \in Sets
    PROVE  /\ r \in R => /\ sets'[r].state = target
                         /\ sets'[r].fence = sets[r].fence + 1
                         /\ sets'[r].by = who
                         /\ ledger'[r].release = ledger[r].release + 1
                         /\ ledger'[r].reserve = ledger[r].reserve
           /\ r \notin R => sets'[r] = sets[r] /\ ledger'[r] = ledger[r]
           /\ sets'[r].worker = sets[r].worker
           /\ sets'[r].session = sets[r].session
           /\ sets'[r].generation = sets[r].generation
           /\ sets'[r].expires = sets[r].expires
<1>1. sets[r] \in SetRow /\ ledger[r] \in LedgerRows
  BY DEF Typed, TypeOK
<1>2. /\ sets'[r] = IF r \in R THEN [sets[r] EXCEPT !.state = target, !.fence = @ + 1, !.by = who]
                    ELSE sets[r]
      /\ ledger'[r] = IF r \in R THEN [ledger[r] EXCEPT !.release = @ + 1] ELSE ledger[r]
  BY DEF End
<1>3. CASE r \in R
  <2>1. sets'[r] = [sets[r] EXCEPT !.state = target, !.fence = @ + 1, !.by = who]
    BY <1>2, <1>3
  <2>2. ledger'[r] = [ledger[r] EXCEPT !.release = @ + 1]
    BY <1>2, <1>3
  <2> QED BY <1>1, <1>3, <2>1, <2>2 DEF SetRow, LedgerRows
<1>4. CASE r \notin R
  BY <1>2, <1>4
<1> QED BY <1>3, <1>4

\* The ACTIVE sets afterwards are those not ended.
LEMMA EndActive ==
    ASSUME Typed, NEW R \in SUBSET Sets, NEW target \in Ended,
           NEW who \in Callers \cup {"nobody", "sweep", "quarantine", "terminal"},
           End(R, target, who)
    PROVE  Active' = Active \ R
<1>1. ASSUME NEW r \in Sets
      PROVE  sets'[r].state = "ACTIVE" <=> sets[r].state = "ACTIVE" /\ r \notin R
  <2>1. target # "ACTIVE"
    BY DEF Ended
  <2>2. CASE r \in R
    BY <2>1, <2>2, EndRows
  <2>3. CASE r \notin R
    BY <2>3, EndRows
  <2> QED BY <2>2, <2>3
<1> QED BY <1>1 DEF Active

EndedBy(R) ==
    \E target \in Ended, who \in Callers \cup {"nobody", "sweep", "quarantine", "terminal"} :
        End(R, target, who)

LEMMA StepShape ==
    ASSUME Typed, [Next]_vars
    PROVE  \/ UNCHANGED <<sets, ledger>>
           \/ \E r \in Sets, w \in Workers, s \in Sessions, e \in Times : Acquire(r, w, s, e)
           \/ \E R \in SUBSET Active : EndedBy(R)
<1> DEFINE Goal == \/ UNCHANGED <<sets, ledger>>
                   \/ \E r \in Sets, w \in Workers, s \in Sessions, e \in Times :
                          Acquire(r, w, s, e)
                   \/ \E R \in SUBSET Active : EndedBy(R)
<1>1. CASE UNCHANGED vars
  BY <1>1 DEF vars
<1>2. CASE Tick
  BY <1>2 DEF Tick
<1>3. CASE \E w \in Workers, s \in Sessions, e \in Times : OpenSession(w, s, e)
  BY <1>3 DEF OpenSession
<1>4. CASE \E s \in Sessions : CloseSession(s)
  BY <1>4 DEF CloseSession
<1>5. CASE \E s \in Sessions, e \in Times : RenewSession(s, e)
  BY <1>5 DEF RenewSession
<1>6. CASE \E w \in Workers, st \in WorkerStatus, n \in Slots : AdvanceGeneration(w, st, n)
  BY <1>6 DEF AdvanceGeneration
<1>7. CASE \E r \in Sets, w \in Workers, s \in Sessions, e \in Times : Acquire(r, w, s, e)
  BY <1>7
<1>8. ASSUME NEW c \in Callers, NEW r \in Sets, NEW target \in Ended, Transition(c, r, target)
      PROVE  Goal
  <2>1. {r} \in SUBSET Active /\ End({r}, target, c)
    BY <1>8 DEF Transition
  <2> QED BY <2>1 DEF EndedBy
<1>9. CASE \E c \in Callers, r \in Sets, target \in Ended : AdoptTransition(c, r, target)
  BY <1>9 DEF AdoptTransition
<1>10. CASE \E c \in Callers : LoseReceipt(c)
  BY <1>10 DEF LoseReceipt
<1>11. CASE \E v \in Sweepers : SweepSelect(v)
  BY <1>11 DEF SweepSelect
<1>12. ASSUME NEW v \in Sweepers, NEW skipped, SweepApply(v, skipped) PROVE Goal
  <2>1. (candidates[v] \cap Elapsed) \ skipped \in SUBSET Active
    BY DEF Elapsed
  <2>2. End((candidates[v] \cap Elapsed) \ skipped, "EXPIRED", "sweep")
    BY <1>12 DEF SweepApply
  <2> QED BY <2>1, <2>2 DEF EndedBy, Ended
<1>13. CASE \E a \in Attempts, w \in Workers : Dispatch(a, w)
  BY <1>13 DEF Dispatch
<1>14. ASSUME NEW a \in Attempts, Terminate(a) PROVE Goal
  <2>1. OfAttempt(a) \in SUBSET Active /\ End(OfAttempt(a), "RELEASED", "terminal")
    BY <1>14 DEF Terminate, OfAttempt
  <2> QED BY <2>1 DEF EndedBy, Ended
<1>15. CASE \E k \in Checks, w \in Workers : RequestCheck(k, w)
  BY <1>15 DEF RequestCheck
<1>16. CASE \E k \in Checks, h \in Health : Probe(k, h)
  BY <1>16 DEF Probe
<1>18. CASE \E w \in Workers : OperatorQuarantine(w)
  BY <1>18 DEF OperatorQuarantine
<1>17. ASSUME NEW k \in Checks, Reconcile(k) PROVE Goal
  <2>1. UNCHANGED <<sets, ledger>> \/ Quarantine(check[k].worker)
    BY <1>17 DEF Reconcile
  <2>2. ASSUME Quarantine(check[k].worker) PROVE Goal
    <3>1. /\ OnWorker(check[k].worker) \in SUBSET Active
          /\ End(OnWorker(check[k].worker), "RELEASED", "quarantine")
      BY <2>2 DEF Quarantine, OnWorker
    <3> QED BY <3>1 DEF EndedBy, Ended
  <2> QED BY <2>1, <2>2
<1> QED
  BY <1>1, <1>2, <1>3, <1>4, <1>5, <1>6, <1>7, <1>8, <1>9, <1>10, <1>11, <1>12, <1>13,
     <1>14, <1>15, <1>16, <1>17, <1>18 DEF Next

\* A set that has ended is never touched again.
LEMMA EndedIsFinal ==
    ASSUME Typed, [Next]_vars, NEW r \in Sets, sets[r].state \in Ended
    PROVE  sets'[r] = sets[r]
<1>1. r \notin Active
  BY DEF Active, Ended
<1>2. CASE UNCHANGED <<sets, ledger>>
  BY <1>2
<1>3. ASSUME NEW q \in Sets, NEW w \in Workers, NEW s \in Sessions, NEW e \in Times,
             Acquire(q, w, s, e)
      PROVE  sets'[r] = sets[r]
  <2>1. sets[q].state = "NONE"
    BY <1>3 DEF Acquire
  <2>2. q # r
    BY <2>1 DEF Ended
  <2> QED BY <1>3, <2>2 DEF Acquire
<1>4. ASSUME NEW R \in SUBSET Active, EndedBy(R) PROVE sets'[r] = sets[r]
  <2>1. r \notin R
    BY <1>1
  <2> QED BY <1>4, <2>1 DEF EndedBy, End
<1> QED BY <1>2, <1>3, <1>4, StepShape

(***************************************************************************)
(* The budget ledger.                                                      *)
(***************************************************************************)
LEMMA BalanceInit == Init => ReleasedExactlyOnce
  BY DEF Init, ReleasedExactlyOnce, Ended

LEMMA BalanceNext == Typed /\ ReleasedExactlyOnce /\ [Next]_vars => ReleasedExactlyOnce'
<1> SUFFICES ASSUME Typed, ReleasedExactlyOnce, [Next]_vars, NEW q \in Sets
             PROVE  /\ ledger'[q].reserve = (IF sets'[q].state = "NONE" THEN 0 ELSE 1)
                    /\ ledger'[q].release = (IF sets'[q].state \in Ended THEN 1 ELSE 0)
                    /\ sets'[q].fence = ledger'[q].reserve + ledger'[q].release
  BY DEF ReleasedExactlyOnce
<1> DEFINE Goal == /\ ledger'[q].reserve = (IF sets'[q].state = "NONE" THEN 0 ELSE 1)
                   /\ ledger'[q].release = (IF sets'[q].state \in Ended THEN 1 ELSE 0)
                   /\ sets'[q].fence = ledger'[q].reserve + ledger'[q].release
<1>0. /\ ledger[q].reserve = (IF sets[q].state = "NONE" THEN 0 ELSE 1)
      /\ ledger[q].release = (IF sets[q].state \in Ended THEN 1 ELSE 0)
      /\ sets[q].fence = ledger[q].reserve + ledger[q].release
  BY DEF ReleasedExactlyOnce
<1>1. CASE sets'[q] = sets[q] /\ ledger'[q] = ledger[q]
  BY <1>0, <1>1
<1>2. CASE UNCHANGED <<sets, ledger>>
  BY <1>1, <1>2
<1>3. ASSUME NEW r \in Sets, NEW w \in Workers, NEW s \in Sessions, NEW e \in Times,
             Acquire(r, w, s, e)
      PROVE  Goal
  <2>1. CASE q # r
    BY <1>1, <1>3, <2>1 DEF Acquire, Typed, TypeOK
  <2>2. CASE q = r
    <3>1. sets[q].state = "NONE" /\ ledger[q] \in LedgerRows
      BY <1>3, <2>2 DEF Acquire, Typed, TypeOK
    <3>2. ledger[q].reserve = 0 /\ ledger[q].release = 0
      BY <1>0, <3>1 DEF Ended
    <3>3. sets'[q].state = "ACTIVE" /\ sets'[q].fence = 1
      BY <1>3, <2>2 DEF Acquire, Typed, TypeOK
    <3>4. ledger'[q] = [ledger[q] EXCEPT !.reserve = @ + 1]
      BY <1>3, <2>2 DEF Acquire, Typed, TypeOK
    <3>5. ledger'[q].reserve = 1 /\ ledger'[q].release = 0
      BY <3>1, <3>2, <3>4 DEF LedgerRows
    <3> QED BY <3>3, <3>5 DEF Ended
  <2> QED BY <2>1, <2>2
<1>4. ASSUME NEW R \in SUBSET Active, EndedBy(R) PROVE Goal
  <2> PICK target \in Ended, who \in Callers \cup {"nobody", "sweep", "quarantine", "terminal"} :
           End(R, target, who)
    BY <1>4 DEF EndedBy
  <2>0. R \in SUBSET Sets
    BY DEF Active
  <2>1. CASE q \notin R
    <3>1. sets'[q] = sets[q] /\ ledger'[q] = ledger[q]
      BY <2>0, <2>1, EndRows
    <3> QED BY <1>1, <3>1
  <2>2. CASE q \in R
    <3>1. sets[q].state = "ACTIVE"
      BY <2>2 DEF Active
    <3>2. ledger[q].reserve = 1 /\ ledger[q].release = 0 /\ sets[q].fence = 1
      BY <1>0, <3>1 DEF Ended
    <3>3. /\ sets'[q].state = target /\ sets'[q].fence = 1 + 1
          /\ ledger'[q].release = 0 + 1 /\ ledger'[q].reserve = 1
      BY <2>0, <2>2, <3>2, EndRows
    <3>4. target \in Ended /\ target # "NONE"
      BY DEF Ended
    <3> QED BY <3>3, <3>4
  <2> QED BY <2>1, <2>2
<1> QED BY <1>2, <1>3, <1>4, StepShape

(***************************************************************************)
(* What owners are told, and what a finished attempt holds.                *)
(***************************************************************************)
LEMMA ReceiptInit == Init => ReceiptIsTrue
  BY DEF Init, ReceiptIsTrue

LEMMA ReceiptNext == Typed /\ ReceiptIsTrue /\ [Next]_vars => ReceiptIsTrue'
<1> SUFFICES ASSUME Typed, ReceiptIsTrue, [Next]_vars, NEW d \in Callers, receipt'[d].set # NoSet
             PROVE  /\ sets'[receipt'[d].set].state = receipt'[d].state
                    /\ sets'[receipt'[d].set].by = d
  BY DEF ReceiptIsTrue
<1> DEFINE Goal == /\ sets'[receipt'[d].set].state = receipt'[d].state
                   /\ sets'[receipt'[d].set].by = d
<1>1. CASE receipt'[d] = receipt[d]
  <2>1. /\ receipt[d].set \in Sets
        /\ sets[receipt[d].set].state = receipt[d].state /\ sets[receipt[d].set].by = d
    BY <1>1 DEF ReceiptIsTrue, Typed, TypeOK, Receipt
  <2>2. sets[receipt[d].set].state \in Ended
    <3>1. receipt[d].state \in {"none"} \cup Ended
      BY DEF Typed, TypeOK, Receipt
    <3>2. sets[receipt[d].set].state \in {"NONE", "ACTIVE"} \cup Ended
      BY <2>1 DEF Typed, TypeOK, SetRow
    <3> QED BY <2>1, <3>1, <3>2 DEF Ended
  <2>3. sets'[receipt[d].set] = sets[receipt[d].set]
    BY <2>1, <2>2, EndedIsFinal
  <2> QED BY <1>1, <2>1, <2>3
<1>2. ASSUME NEW c \in Callers, NEW r \in Sets, NEW target \in Ended, Transition(c, r, target)
      PROVE  Goal
  <2>1. CASE d # c
    BY <1>1, <1>2, <2>1 DEF Transition, Typed, TypeOK
  <2>2. CASE d = c
    <3>1. receipt'[d].set = r /\ receipt'[d].state = target
      BY <1>2, <2>2 DEF Transition, Typed, TypeOK
    <3>2. End({r}, target, c) /\ {r} \in SUBSET Sets
      BY <1>2 DEF Transition
    <3>3. sets'[r].state = target /\ sets'[r].by = c
      BY <3>2, EndRows
    <3> QED BY <2>2, <3>1, <3>3
  <2> QED BY <2>1, <2>2
<1>3. ASSUME NEW c \in Callers, NEW r \in Sets, NEW target \in Ended,
             AdoptTransition(c, r, target)
      PROVE  Goal
  <2>1. CASE d # c
    BY <1>1, <1>3, <2>1 DEF AdoptTransition, Typed, TypeOK
  <2>2. CASE d = c
    BY <1>3, <2>2 DEF AdoptTransition, Typed, TypeOK
  <2> QED BY <2>1, <2>2
<1>4. ASSUME NEW c \in Callers, LoseReceipt(c) PROVE Goal
  <2>1. d # c
    BY <1>4 DEF LoseReceipt, Typed, TypeOK
  <2> QED BY <1>1, <1>4, <2>1 DEF LoseReceipt, Typed, TypeOK
<1>5. \/ UNCHANGED receipt
      \/ \E c \in Callers, r \in Sets, target \in Ended : Transition(c, r, target)
      \/ \E c \in Callers, r \in Sets, target \in Ended : AdoptTransition(c, r, target)
      \/ \E c \in Callers : LoseReceipt(c)
  BY DEF Next, vars, Tick, OpenSession, CloseSession, RenewSession, AdvanceGeneration,
         OperatorQuarantine, Acquire, SweepSelect, SweepApply, Dispatch, Terminate, RequestCheck,
         Probe, Reconcile
<1> QED BY <1>1, <1>2, <1>3, <1>4, <1>5

\* The ACTIVE sets after a step: the same, one more, or fewer; a row that
\* stays ACTIVE is the same row.
LEMMA ActiveStep ==
    ASSUME Typed, [Next]_vars, NEW q \in Active'
    PROVE  /\ q \in Sets
           /\ \/ q \in Active /\ sets'[q] = sets[q]
              \/ \E w \in Workers, s \in Sessions, e \in Times : Acquire(q, w, s, e)
<1>0. q \in Sets /\ sets'[q].state = "ACTIVE"
  BY DEF Active
<1>1. CASE UNCHANGED <<sets, ledger>>
  BY <1>0, <1>1 DEF Active
<1>2. ASSUME NEW r \in Sets, NEW w \in Workers, NEW s \in Sessions, NEW e \in Times,
             Acquire(r, w, s, e), q # r
      PROVE  q \in Active /\ sets'[q] = sets[q]
  BY <1>0, <1>2 DEF Acquire, Active
<1>3. ASSUME NEW R \in SUBSET Active, EndedBy(R) PROVE q \in Active /\ sets'[q] = sets[q]
  <2> PICK target \in Ended, who \in Callers \cup {"nobody", "sweep", "quarantine", "terminal"} :
           End(R, target, who)
    BY <1>3 DEF EndedBy
  <2>1. R \in SUBSET Sets
    BY DEF Active
  <2>2. q \in Active \ R
    BY <2>1, EndActive
  <2> QED BY <1>0, <2>1, <2>2, EndRows
<1> QED BY <1>0, <1>1, <1>2, <1>3, StepShape

LEMMA TerminalInit == Init => TerminalHoldsNothing
  BY DEF Init, TerminalHoldsNothing

LEMMA TerminalNext == Typed /\ TerminalHoldsNothing /\ [Next]_vars => TerminalHoldsNothing'
<1> SUFFICES ASSUME Typed, TerminalHoldsNothing, [Next]_vars,
                    NEW b \in Attempts, attempt'[b].state = "TERMINAL",
                    NEW q \in Active', AttemptOf[q] = b
             PROVE  FALSE
  BY DEF TerminalHoldsNothing, OfAttempt
<1>1. ASSUME attempt[b].state = "TERMINAL" PROVE FALSE
  <2>1. q \notin Active
    BY <1>1 DEF TerminalHoldsNothing, OfAttempt
  <2>2. ASSUME NEW w \in Workers, NEW s \in Sessions, NEW e \in Times, Acquire(q, w, s, e)
        PROVE  FALSE
    BY <1>1, <2>2 DEF Acquire, Admissible
  <2> QED BY <2>1, <2>2, ActiveStep
<1>2. ASSUME NEW a \in Attempts, NEW w \in Workers, Dispatch(a, w) PROVE FALSE
  <2>1. attempt[b].state = "TERMINAL"
    BY <1>2 DEF Dispatch, Typed, TypeOK, AttemptRow
  <2> QED BY <1>1, <2>1
<1>3. ASSUME NEW a \in Attempts, Terminate(a) PROVE FALSE
  <2>1. CASE a # b
    <3>1. attempt[b].state = "TERMINAL"
      BY <1>3, <2>1 DEF Terminate, Typed, TypeOK
    <3> QED BY <1>1, <3>1
  <2>2. CASE a = b
    <3>1. End(OfAttempt(b), "RELEASED", "terminal") /\ OfAttempt(b) \in SUBSET Sets
      BY <1>3, <2>2 DEF Terminate, OfAttempt, Active
    <3>2. Active' = Active \ OfAttempt(b)
      BY <3>1, EndActive DEF Ended
    <3> QED BY <3>2 DEF OfAttempt
  <2> QED BY <2>1, <2>2
<1>4. \/ UNCHANGED attempt
      \/ \E a \in Attempts, w \in Workers : Dispatch(a, w)
      \/ \E a \in Attempts : Terminate(a)
  BY DEF Next, vars, Tick, OpenSession, CloseSession, RenewSession, AdvanceGeneration,
         OperatorQuarantine, Acquire, Transition, AdoptTransition, LoseReceipt, SweepSelect,
         SweepApply, RequestCheck, Probe, Reconcile
<1> QED BY <1>1, <1>2, <1>3, <1>4

(***************************************************************************)
(* Worker authority.                                                       *)
(***************************************************************************)
\* Worker w, at or past generation g, is severed for the rest of g.
Severance(w, g) ==
    /\ g <= worker[w].generation
    /\ g = worker[w].generation => worker[w].status = "QUARANTINED" /\ ActiveSessions(w) = {}

\* A job that reported a quarantine has severed its worker.
QuarantineRevokes ==
    \A k \in Checks : check[k].severed =>
        check[k].worker \in Workers /\ Severance(check[k].worker, check[k].generation)

Authority == AuthorityOutlivesSet /\ QuarantineRevokes

\* What a reconciliation does: no authority is touched, or the worker is
\* quarantined and severed in the same transaction.
LEMMA ReconcileShape ==
    ASSUME Typed, NEW k \in Checks, Reconcile(k)
    PROVE  LET w == check[k].worker
           IN  /\ w \in Workers
               /\ \A x \in Workers : /\ worker'[x].generation = worker[x].generation
                                     /\ worker'[x].slots = worker[x].slots
                                     /\ x # w => worker'[x] = worker[x]
               /\ worker[w].status = "QUARANTINED" => worker'[w].status = "QUARANTINED"
               /\ \/ Quarantine(w) /\ worker'[w].status = "QUARANTINED"
                  \/ /\ UNCHANGED <<session, sets, ledger>>
                     /\ worker'[w].status # "QUARANTINED"
               /\ check'[k].worker = w /\ check'[k].generation = worker[w].generation
               /\ check'[k].severed <=> worker'[w].status = "QUARANTINED"
               /\ \A x \in Checks : x # k => check'[x] = check[x]
<1> DEFINE w == check[k].worker
           forced == Superseded(k) /\ check[k].seen = "QUARANTINED"
           next == IF forced THEN "QUARANTINED"
                   ELSE IF Superseded(k) THEN worker[w].status
                   ELSE Qualify(w, check[k].seen)
           writes == ~Superseded(k) \/ (forced /\ worker[w].status # "QUARANTINED")
<1>1. w \in Workers
  BY DEF Reconcile, Typed, CheckNamesWorker
<1>2. /\ worker' = IF writes THEN [worker EXCEPT ![w].status = next, ![w].version = @ + 1]
                   ELSE worker
      /\ IF next = "QUARANTINED" THEN Quarantine(w) ELSE UNCHANGED <<session, sets, ledger>>
  BY DEF Reconcile
<1>3. worker \in [Workers -> WorkerRow]
  BY DEF Typed, TypeOK
<1>4. worker[w].status = "QUARANTINED" => next = "QUARANTINED"
  BY DEF Qualify
<1>5. ~writes => next = worker[w].status
  OBVIOUS
<1>c. /\ check'[k].worker = w /\ check'[k].generation = worker[w].generation
      /\ check'[k].severed <=> next = "QUARANTINED"
      /\ \A x \in Checks : x # k => check'[x] = check[x]
  <2>1. check \in [Checks -> CheckRow]
    BY DEF Typed, TypeOK
  <2>2. PICK b \in BOOLEAN :
            /\ b <=> next = "QUARANTINED"
            /\ check' = [check EXCEPT ![k] =
                   [phase |-> "done", worker |-> w, generation |-> worker[w].generation,
                    version |-> 0, seen |-> "OFFLINE", severed |-> b]]
    BY DEF Reconcile
  <2> HIDE DEF next, w
  <2> QED BY <2>1, <2>2
<1> HIDE DEF next, writes, w
<1>6. worker'[w].status = IF writes THEN next ELSE worker[w].status
  BY <1>1, <1>2, <1>3 DEF WorkerRow
<1>7. \A x \in Workers : /\ worker'[x].generation = worker[x].generation
                         /\ worker'[x].slots = worker[x].slots
                         /\ x # w => worker'[x] = worker[x]
  BY <1>1, <1>2, <1>3 DEF WorkerRow
<1>8. worker[w].status = "QUARANTINED" => worker'[w].status = "QUARANTINED"
  BY <1>4, <1>6
<1>9. \/ Quarantine(w) /\ worker'[w].status = "QUARANTINED"
      \/ UNCHANGED <<session, sets, ledger>> /\ worker'[w].status # "QUARANTINED"
  BY <1>2, <1>5, <1>6
<1>10. check'[k].severed <=> worker'[w].status = "QUARANTINED"
  BY <1>5, <1>6, <1>c
<1> QED BY <1>1, <1>7, <1>8, <1>9, <1>10, <1>c DEF w

\* The steps that write a worker or a session.
LEMMA AuthorityWriters ==
    ASSUME [Next]_vars
    PROVE  \/ UNCHANGED <<worker, session>>
           \/ \E w \in Workers, s \in Sessions, e \in Times : OpenSession(w, s, e)
           \/ \E s \in Sessions : CloseSession(s)
           \/ \E s \in Sessions, e \in Times : RenewSession(s, e)
           \/ \E w \in Workers, st \in WorkerStatus, n \in Slots : AdvanceGeneration(w, st, n)
           \/ \E w \in Workers : OperatorQuarantine(w)
           \/ \E k \in Checks : Reconcile(k)
  BY DEF Next, vars, Tick, Acquire, Transition, AdoptTransition, LoseReceipt, SweepSelect,
         SweepApply, Dispatch, Terminate, RequestCheck, Probe

\* What an ACTIVE set rests on.
Authorized(q) ==
    /\ sets[q].worker \in Workers
    /\ sets[q].session \in Sessions
    /\ session[sets[q].session].status = "ACTIVE"
    /\ session[sets[q].session].worker = sets[q].worker
    /\ session[sets[q].session].generation = sets[q].generation
    /\ worker[sets[q].worker].generation = sets[q].generation
    /\ sets[q].expires <= session[sets[q].session].expires

LEMMA AuthorizedMeaning == AuthorityOutlivesSet <=> \A q \in Active : Authorized(q)
  BY DEF AuthorityOutlivesSet, Authorized, ActiveSessions

\* An admission is authorized, and nothing takes that away while the set is
\* ACTIVE.
LEMMA AuthorizedNext ==
    ASSUME Typed, Authority, [Next]_vars, NEW q \in Active'
    PROVE  Authorized(q)'
<1>0. q \in Sets
  BY ActiveStep
<1>t. /\ worker \in [Workers -> WorkerRow] /\ session \in [Sessions -> SessionRow]
      /\ sets \in [Sets -> SetRow]
  BY DEF Typed, TypeOK
<1>1. ASSUME NEW w \in Workers, NEW s \in Sessions, NEW e \in Times, Acquire(q, w, s, e)
      PROVE  Authorized(q)'
  <2>1. /\ sets'[q].worker = w /\ sets'[q].session = s
        /\ sets'[q].generation = worker[w].generation /\ sets'[q].expires = e
    BY <1>0, <1>1, <1>t DEF Acquire
  <2>2. /\ session[s].status = "ACTIVE" /\ session[s].worker = w
        /\ session[s].generation = worker[w].generation /\ e <= session[s].expires
        /\ session' = session /\ worker' = worker
    BY <1>1 DEF Acquire, Admissible, LiveSessions, ActiveSessions
  <2> QED BY <2>1, <2>2 DEF Authorized
<1>2. ASSUME q \in Active, sets'[q] = sets[q] PROVE Authorized(q)'
  <2> DEFINE u == sets[q].worker
             z == sets[q].session
  <2>0. /\ u \in Workers /\ z \in Sessions
        /\ session[z].status = "ACTIVE" /\ session[z].worker = u
        /\ session[z].generation = sets[q].generation
        /\ worker[u].generation = sets[q].generation
        /\ sets[q].expires <= session[z].expires
    BY <1>2, AuthorizedMeaning DEF Authority, Authorized
  <2>k. ASSUME /\ session'[z].status = "ACTIVE" /\ session'[z].worker = u
               /\ session'[z].generation = session[z].generation
               /\ worker'[u].generation = worker[u].generation
               /\ sets[q].expires <= session'[z].expires
        PROVE  Authorized(q)'
    BY <1>2, <2>0, <2>k DEF Authorized
  <2> HIDE DEF u, z
  <2>1. CASE UNCHANGED <<worker, session>>
    BY <2>0, <2>1, <2>k
  <2>2. ASSUME NEW w \in Workers, NEW s \in Sessions, NEW e \in Times, OpenSession(w, s, e)
        PROVE  Authorized(q)'
    <3>1. z # s
      BY <2>0, <2>2 DEF OpenSession
    <3>2. session'[z] = session[z] /\ worker' = worker
      BY <1>t, <2>0, <2>2, <3>1 DEF OpenSession
    <3> QED BY <2>0, <2>k, <3>2
  <2>3. ASSUME NEW s \in Sessions, CloseSession(s) PROVE Authorized(q)'
    <3>1. z # s
      BY <1>2, <2>3 DEF CloseSession, z
    <3>2. session'[z] = session[z] /\ worker' = worker
      BY <1>t, <2>0, <2>3, <3>1 DEF CloseSession
    <3> QED BY <2>0, <2>k, <3>2
  <2>4. ASSUME NEW s \in Sessions, NEW e \in Times, RenewSession(s, e) PROVE Authorized(q)'
    <3>1. CASE z # s
      <4>1. session'[z] = session[z] /\ worker' = worker
        BY <1>t, <2>0, <2>4, <3>1 DEF RenewSession
      <4> QED BY <2>0, <2>k, <4>1
    <3>2. CASE z = s
      <4>1. sets[q].expires <= e
        BY <1>2, <2>4, <3>2 DEF RenewSession, Preserves, z
      <4>2. session' = [session EXCEPT ![z].expires = e] /\ worker' = worker
        BY <2>4, <3>2 DEF RenewSession
      <4>3. /\ session'[z].status = session[z].status /\ session'[z].worker = session[z].worker
            /\ session'[z].generation = session[z].generation /\ session'[z].expires = e
        BY <1>t, <2>0, <4>2 DEF SessionRow
      <4> QED BY <2>0, <2>k, <4>1, <4>2, <4>3
    <3> QED BY <3>1, <3>2
  <2>5. ASSUME NEW w \in Workers, NEW st \in WorkerStatus, NEW n \in Slots,
               AdvanceGeneration(w, st, n)
        PROVE  Authorized(q)'
    <3>1. u # w
      BY <2>0, <2>5 DEF AdvanceGeneration, ActiveSessions
    <3>2. worker'[u] = worker[u] /\ session' = session
      BY <1>t, <2>0, <2>5, <3>1 DEF AdvanceGeneration
    <3> QED BY <2>0, <2>k, <3>2
  <2>7. ASSUME NEW w \in Workers, OperatorQuarantine(w) PROVE Authorized(q)'
    <3>1. /\ worker' = [worker EXCEPT ![w].status = "QUARANTINED", ![w].version = @ + 1]
          /\ session' = session
      BY <2>7 DEF OperatorQuarantine
    <3>2. worker'[u].generation = worker[u].generation
      BY <1>t, <2>0, <3>1 DEF WorkerRow
    <3> QED BY <2>0, <2>k, <3>1, <3>2
  <2>6. ASSUME NEW k \in Checks, Reconcile(k) PROVE Authorized(q)'
    <3> DEFINE w == check[k].worker
    <3>1. /\ w \in Workers
          /\ \A x \in Workers : worker'[x].generation = worker[x].generation
          /\ Quarantine(w) \/ UNCHANGED <<session, sets, ledger>>
      BY <2>6, ReconcileShape
    <3> HIDE DEF w
    <3>2. CASE UNCHANGED <<session, sets, ledger>>
      BY <2>0, <2>k, <3>1, <3>2
    <3>3. CASE Quarantine(w)
      <4>1. End(OnWorker(w), "RELEASED", "quarantine") /\ OnWorker(w) \in SUBSET Sets
        BY <3>3 DEF Quarantine, OnWorker, Active
      <4>2. Active' = Active \ OnWorker(w)
        BY <4>1, EndActive DEF Ended
      <4>3. u # w
        BY <1>2, <4>2 DEF OnWorker, u
      <4>4. session'[z] = session[z]
        BY <2>0, <3>3, <4>3 DEF Quarantine, ActiveSessions
      <4> QED BY <2>0, <2>k, <3>1, <4>4
    <3> QED BY <3>1, <3>2, <3>3
  <2> QED BY <2>1, <2>2, <2>3, <2>4, <2>5, <2>6, <2>7, AuthorityWriters
<1> QED BY <1>1, <1>2, ActiveStep

\* No step undoes a severance: what could reopen the worker first ends the
\* generation.
LEMMA SeveranceKept ==
    ASSUME Typed, [Next]_vars, NEW u \in Workers, NEW g \in Nat, Severance(u, g)
    PROVE  Severance(u, g)'
<1>t. worker \in [Workers -> WorkerRow] /\ session \in [Sessions -> SessionRow]
  BY DEF Typed, TypeOK
<1>g. worker[u].generation \in Nat /\ g <= worker[u].generation
  BY <1>t DEF WorkerRow, Severance
<1>0. ASSUME worker'[u].generation = worker[u].generation,
             worker[u].status = "QUARANTINED" => worker'[u].status = "QUARANTINED",
             /\ worker[u].status = "QUARANTINED" /\ ActiveSessions(u) = {}
                 => ActiveSessions(u)' = {}
      PROVE  Severance(u, g)'
  BY <1>0, <1>g DEF Severance
<1>1. CASE UNCHANGED <<worker, session>>
  BY <1>0, <1>1 DEF ActiveSessions
<1>2. ASSUME NEW w \in Workers, NEW s \in Sessions, NEW e \in Times, OpenSession(w, s, e)
      PROVE  Severance(u, g)'
  <2>1. worker' = worker /\ worker[w].status # "QUARANTINED"
    BY <1>2 DEF OpenSession
  <2>2. ASSUME worker[u].status = "QUARANTINED", ActiveSessions(u) = {}, NEW z \in ActiveSessions(u)'
        PROVE  FALSE
    <3>1. z \in Sessions /\ session'[z].status = "ACTIVE" /\ session'[z].worker = u
      BY <2>2 DEF ActiveSessions
    <3>2. CASE z = s
      BY <1>2, <1>t, <2>1, <2>2, <3>1, <3>2 DEF OpenSession
    <3>3. CASE z # s
      <4>1. session'[z] = session[z]
        BY <1>2, <1>t, <3>1, <3>3 DEF OpenSession
      <4> QED BY <2>2, <3>1, <4>1 DEF ActiveSessions
    <3> QED BY <3>2, <3>3
  <2> QED BY <1>0, <2>1, <2>2
<1>3. ASSUME NEW s \in Sessions, CloseSession(s) PROVE Severance(u, g)'
  <2>1. worker' = worker /\ session' = [session EXCEPT ![s].status = "CLOSED"]
    BY <1>3 DEF CloseSession
  <2>2. ActiveSessions(u)' \subseteq ActiveSessions(u)
    BY <1>t, <2>1 DEF ActiveSessions, SessionRow
  <2> QED BY <1>0, <2>1, <2>2
<1>4. ASSUME NEW s \in Sessions, NEW e \in Times, RenewSession(s, e) PROVE Severance(u, g)'
  <2>1. worker' = worker /\ session' = [session EXCEPT ![s].expires = e]
    BY <1>4 DEF RenewSession
  <2>2. ActiveSessions(u)' = ActiveSessions(u)
    BY <1>t, <2>1 DEF ActiveSessions, SessionRow
  <2> QED BY <1>0, <2>1, <2>2
<1>5. ASSUME NEW w \in Workers, NEW st \in WorkerStatus, NEW n \in Slots,
             AdvanceGeneration(w, st, n)
      PROVE  Severance(u, g)'
  <2>1. /\ session' = session
        /\ worker' = [worker EXCEPT ![w].generation = @ + 1, ![w].status = st, ![w].slots = n]
    BY <1>5 DEF AdvanceGeneration
  <2>2. CASE u # w
    <3>1. worker'[u] = worker[u]
      BY <1>t, <2>1, <2>2
    <3> QED BY <1>0, <2>1, <3>1 DEF ActiveSessions
  <2>3. CASE u = w
    <3>1. worker'[u].generation = worker[u].generation + 1
      BY <1>t, <2>1, <2>3 DEF WorkerRow
    <3>2. g < worker'[u].generation
      BY <1>g, <3>1
    <3>3. g <= worker'[u].generation /\ g # worker'[u].generation
      BY <1>g, <3>1, <3>2
    <3> QED BY <3>3 DEF Severance
  <2> QED BY <2>2, <2>3
<1>6. ASSUME NEW w \in Workers, OperatorQuarantine(w) PROVE Severance(u, g)'
  <2>1. /\ worker' = [worker EXCEPT ![w].status = "QUARANTINED", ![w].version = @ + 1]
        /\ session' = session
    BY <1>6 DEF OperatorQuarantine
  <2>2. /\ worker'[u].generation = worker[u].generation
        /\ worker[u].status = "QUARANTINED" => worker'[u].status = "QUARANTINED"
    BY <1>t, <2>1 DEF WorkerRow
  <2> QED BY <1>0, <2>1, <2>2 DEF ActiveSessions
<1>7. ASSUME NEW k \in Checks, Reconcile(k) PROVE Severance(u, g)'
  <2> DEFINE w == check[k].worker
  <2>1. /\ worker'[u].generation = worker[u].generation
        /\ u # w => worker'[u] = worker[u]
        /\ worker[w].status = "QUARANTINED" => worker'[w].status = "QUARANTINED"
        /\ Quarantine(w) \/ UNCHANGED <<session, sets, ledger>>
    BY <1>7, ReconcileShape
  <2> HIDE DEF w
  <2>2. ActiveSessions(u)' \subseteq ActiveSessions(u)
    <3>1. CASE UNCHANGED <<session, sets, ledger>>
      BY <3>1 DEF ActiveSessions
    <3>2. CASE Quarantine(w)
      <4>1. \A z \in Sessions : session'[z] = session[z] \/ session'[z].status = "REVOKED"
        BY <1>t, <3>2 DEF Quarantine, SessionRow
      <4> QED BY <4>1 DEF ActiveSessions
    <3> QED BY <2>1, <3>1, <3>2
  <2> QED BY <1>0, <2>1, <2>2
<1> QED BY <1>1, <1>2, <1>3, <1>4, <1>5, <1>6, <1>7, AuthorityWriters

\* A report of quarantine is made with the severance, and stays true.
LEMMA RevokesNext ==
    ASSUME Typed, Authority, [Next]_vars
    PROVE  QuarantineRevokes'
<1> SUFFICES ASSUME NEW k \in Checks, check'[k].severed
             PROVE  /\ check'[k].worker \in Workers
                    /\ Severance(check[k].worker, check[k].generation)'
  BY DEF QuarantineRevokes
<1>t. /\ worker \in [Workers -> WorkerRow] /\ session \in [Sessions -> SessionRow]
      /\ check \in [Checks -> CheckRow]
  BY DEF Typed, TypeOK
<1>1. ASSUME check[k].severed, check'[k].worker = check[k].worker,
             check'[k].generation = check[k].generation
      PROVE  /\ check'[k].worker \in Workers
             /\ Severance(check[k].worker, check[k].generation)'
  <2>1. check[k].worker \in Workers /\ Severance(check[k].worker, check[k].generation)
    BY <1>1 DEF Authority, QuarantineRevokes
  <2>2. check[k].generation \in Nat
    BY <1>t DEF CheckRow
  <2>3. Severance(check[k].worker, check[k].generation)'
    <3>1. PICK u \in Workers, g \in Nat : u = check[k].worker /\ g = check[k].generation
      BY <2>1, <2>2
    <3>2. Severance(u, g)'
      BY <2>1, <3>1, SeveranceKept
    <3> QED BY <1>1, <3>1, <3>2 DEF Severance, ActiveSessions
  <2> QED BY <1>1, <2>1, <2>3
<1>2. CASE check' = check
  BY <1>1, <1>2
<1>3. ASSUME NEW x \in Checks, NEW w \in Workers, RequestCheck(x, w)
      PROVE  check[k].severed /\ check'[k] = check[k]
  BY <1>3, <1>t DEF RequestCheck
<1>4. ASSUME NEW x \in Checks, NEW h \in Health, Probe(x, h)
      PROVE  /\ check[k].severed /\ check'[k].worker = check[k].worker
             /\ check'[k].generation = check[k].generation
  BY <1>4, <1>t DEF Probe, CheckRow
<1>5. ASSUME NEW x \in Checks, Reconcile(x), x # k
      PROVE  check[k].severed /\ check'[k] = check[k]
  BY <1>5, ReconcileShape
<1>6. ASSUME Reconcile(k)
      PROVE  /\ check'[k].worker \in Workers
             /\ Severance(check[k].worker, check[k].generation)'
  <2>0. PICK w \in Workers : w = check[k].worker
    BY <1>6, ReconcileShape
  <2>1. /\ w \in Workers /\ check'[k].worker = w
        /\ check'[k].generation = worker[w].generation
        /\ worker'[w].generation = worker[w].generation
        /\ worker'[w].status = "QUARANTINED" /\ Quarantine(w)
    BY <1>6, <2>0, ReconcileShape
  <2>2. ActiveSessions(w)' = {}
    BY <1>t, <2>1 DEF Quarantine, ActiveSessions, SessionRow
  <2>3. worker[w].generation \in Nat
    BY <1>t, <2>1 DEF WorkerRow
  <2> QED BY <2>1, <2>2, <2>3 DEF Severance, ActiveSessions
<1>7. \/ check' = check
      \/ \E x \in Checks, w \in Workers : RequestCheck(x, w)
      \/ \E x \in Checks, h \in Health : Probe(x, h)
      \/ \E x \in Checks : Reconcile(x)
  BY DEF Next, vars, Tick, OpenSession, CloseSession, RenewSession, AdvanceGeneration,
         OperatorQuarantine, Acquire, Transition, AdoptTransition, LoseReceipt, SweepSelect,
         SweepApply, Dispatch, Terminate
<1> QED BY <1>1, <1>2, <1>3, <1>4, <1>5, <1>6, <1>7

LEMMA AuthorityInit == Init => Authority
  BY DEF Init, Authority, AuthorityOutlivesSet, QuarantineRevokes, Active, ActiveSessions

LEMMA AuthorityNext == Typed /\ Authority /\ [Next]_vars => Authority'
<1> SUFFICES ASSUME Typed, Authority, [Next]_vars PROVE Authority'
  OBVIOUS
<1>1. \A q \in Active' : Authorized(q)'
  BY AuthorizedNext
<1>2. AuthorityOutlivesSet'
  BY <1>1 DEF AuthorityOutlivesSet, Authorized, ActiveSessions
<1> QED BY <1>2, RevokesNext DEF Authority

(***************************************************************************)
(* Concurrency.                                                            *)
(***************************************************************************)
\* The sets that occupy a slot of w.
Occupying(w) == Counted \cap OnWorker(w)

LEMMA OccupyingFinite ==
    ASSUME NEW w
    PROVE  /\ IsFiniteSet(Occupying(w)) /\ Cardinality(Occupying(w)) \in Nat
           /\ \A T \in SUBSET Occupying(w) : Cardinality(T) <= Cardinality(Occupying(w))
<1>1. Occupying(w) \subseteq Sets /\ IsFiniteSet(Sets)
  BY AdmissionAssumption DEF Occupying, OnWorker, Active
<1>2. IsFiniteSet(Occupying(w))
  BY <1>1, FS_Subset
<1> QED BY <1>2, FS_Subset, FS_CardinalityType

\* A set that occupies a slot after a step did so before, or was admitted.
LEMMA OccupyingStep ==
    ASSUME Typed, [Next]_vars, NEW u \in Workers, NEW q \in Occupying(u)'
    PROVE  \/ q \in Occupying(u)
           \/ \E s \in Sessions, e \in Times : q \in Sets /\ Acquire(q, u, s, e)
<1>0. q \in Active' /\ sets'[q].worker = u /\ ~(sets'[q].expires <= now')
  BY DEF Occupying, Counted, OnWorker, Elapsed
<1>1. now \in Nat /\ now' \in Nat /\ now <= now'
  <2>1. now' = now \/ Tick
    BY DEF Next, vars, OpenSession, CloseSession, RenewSession, AdvanceGeneration,
           OperatorQuarantine, Acquire, Transition, AdoptTransition, LoseReceipt, SweepSelect,
           SweepApply, Dispatch, Terminate, RequestCheck, Probe, Reconcile
  <2>2. now \in Nat
    BY DEF Typed, TypeOK
  <2> QED BY <2>1, <2>2 DEF Tick
<1>2. ASSUME q \in Active, sets'[q] = sets[q] PROVE q \in Occupying(u)
  <2>1. sets[q].expires \in Nat
    BY <1>2 DEF Typed, TypeOK, SetRow, Active
  <2> QED BY <1>0, <1>1, <1>2, <2>1 DEF Occupying, Counted, OnWorker, Elapsed
<1>3. ASSUME NEW w \in Workers, NEW s \in Sessions, NEW e \in Times, Acquire(q, w, s, e), q \in Sets
      PROVE  w = u
  BY <1>0, <1>3 DEF Acquire, Typed, TypeOK
<1> QED BY <1>0, <1>2, <1>3, ActiveStep

LEMMA SlotsInit == Init => SlotsSuffice
<1> SUFFICES ASSUME Init, NEW w \in Workers
             PROVE  Cardinality(Occupying(w)) <= worker[w].slots
  BY DEF SlotsSuffice, Occupying
<1>1. Occupying(w) = {}
  BY DEF Init, Occupying, OnWorker, Active
<1>2. worker[w].slots \in Nat
  BY AdmissionAssumption DEF Init
<1> QED BY <1>1, <1>2, FS_EmptySet

LEMMA SlotsNext == Typed /\ Authority /\ SlotsSuffice /\ [Next]_vars => SlotsSuffice'
<1> SUFFICES ASSUME Typed, Authority, SlotsSuffice, [Next]_vars, NEW u \in Workers
             PROVE  Cardinality(Occupying(u)') <= worker'[u].slots
  BY DEF SlotsSuffice, Occupying
<1> DEFINE Goal == Cardinality(Occupying(u)') <= worker'[u].slots
<1>t. worker \in [Workers -> WorkerRow] /\ worker[u].slots \in Nat
  BY AdmissionAssumption DEF Typed, TypeOK, WorkerRow
<1>f. /\ IsFiniteSet(Occupying(u)) /\ Cardinality(Occupying(u)) \in Nat
      /\ \A T \in SUBSET Occupying(u) : Cardinality(T) <= Cardinality(Occupying(u))
  BY OccupyingFinite
<1>s. Cardinality(Occupying(u)) <= worker[u].slots
  BY DEF SlotsSuffice, Occupying
<1>1. ASSUME Occupying(u)' \subseteq Occupying(u), worker'[u].slots = worker[u].slots PROVE Goal
  <2>1. Cardinality(Occupying(u)') <= Cardinality(Occupying(u))
    BY <1>1, <1>f
  <2>2. IsFiniteSet(Occupying(u)') /\ Cardinality(Occupying(u)') \in Nat
    BY <1>1, <1>f, FS_Subset, FS_CardinalityType
  <2> QED BY <1>1, <1>f, <1>s, <1>t, <2>1, <2>2
<1>2. ASSUME NEW r \in Sets, NEW s \in Sessions, NEW e \in Times, Acquire(r, u, s, e)
      PROVE  Goal
  <2>1. worker' = worker /\ Cardinality(Occupying(u)) + 1 <= worker[u].slots
    BY <1>2 DEF Acquire, SlotFree, Occupying
  <2>2. Occupying(u)' \subseteq Occupying(u) \cup {r}
    <3>1. ASSUME NEW q \in Occupying(u)', q # r PROVE q \in Occupying(u)
      <4>1. ASSUME NEW y \in Sessions, NEW f \in Times, q \in Sets, Acquire(q, u, y, f)
            PROVE  FALSE
        <5>1. sets[q].state = "NONE" /\ sets'[q].state = "ACTIVE"
          BY <4>1 DEF Acquire, Typed, TypeOK
        <5>2. sets'[q] = sets[q]
          BY <1>2, <3>1, <4>1 DEF Acquire, Typed, TypeOK
        <5> QED BY <5>1, <5>2
      <4> QED BY <4>1, OccupyingStep
    <3> QED BY <3>1
  <2>3. r \notin Occupying(u)
    BY <1>2 DEF Acquire, Occupying, OnWorker, Active
  <2>4. /\ IsFiniteSet(Occupying(u) \cup {r})
        /\ Cardinality(Occupying(u) \cup {r}) = Cardinality(Occupying(u)) + 1
    BY <1>f, <2>3, FS_AddElement
  <2>5. /\ IsFiniteSet(Occupying(u)')
        /\ Cardinality(Occupying(u)') <= Cardinality(Occupying(u) \cup {r})
    BY <2>2, <2>4, FS_Subset
  <2>6. Cardinality(Occupying(u)') \in Nat
    BY <2>5, FS_CardinalityType
  <2> QED BY <1>f, <1>t, <2>1, <2>4, <2>5, <2>6
<1>3. ASSUME \A s \in Sessions, e \in Times, r \in Sets : ~Acquire(r, u, s, e)
      PROVE  Occupying(u)' \subseteq Occupying(u)
  BY <1>3, OccupyingStep
<1>4. ASSUME NEW n \in Slots, NEW st \in WorkerStatus, AdvanceGeneration(u, st, n) PROVE Goal
  <2>1. ActiveSessions(u) = {}
    BY <1>4 DEF AdvanceGeneration
  <2>2. OnWorker(u) = {}
    BY <2>1 DEF Authority, AuthorityOutlivesSet, OnWorker
  <2>3. UNCHANGED <<sets, now>>
    BY <1>4 DEF AdvanceGeneration
  <2>4. Occupying(u)' = {}
    BY <2>2, <2>3 DEF Occupying, OnWorker, Active
  <2>5. worker'[u].slots \in Nat
    <3>1. worker' = [worker EXCEPT ![u].generation = @ + 1, ![u].status = st, ![u].slots = n]
      BY <1>4 DEF AdvanceGeneration
    <3>2. worker'[u].slots = n
      BY <1>t, <3>1 DEF WorkerRow
    <3> QED BY <3>2, AdmissionAssumption
  <2> QED BY <2>4, <2>5, FS_EmptySet
<1>5. ASSUME \A st \in WorkerStatus, n \in Slots : ~AdvanceGeneration(u, st, n)
      PROVE  worker'[u].slots = worker[u].slots
  <2>1. CASE UNCHANGED <<worker, session>>
    BY <2>1
  <2>2. CASE \/ \E w \in Workers, s \in Sessions, e \in Times : OpenSession(w, s, e)
             \/ \E s \in Sessions : CloseSession(s)
             \/ \E s \in Sessions, e \in Times : RenewSession(s, e)
    BY <2>2 DEF OpenSession, CloseSession, RenewSession
  <2>3. ASSUME NEW w \in Workers, NEW st \in WorkerStatus, NEW n \in Slots,
               AdvanceGeneration(w, st, n)
        PROVE  worker'[u].slots = worker[u].slots
    <3>1. w # u
      BY <1>5, <2>3
    <3> QED BY <1>t, <2>3, <3>1 DEF AdvanceGeneration
  <2>4. ASSUME NEW k \in Checks, Reconcile(k) PROVE worker'[u].slots = worker[u].slots
    BY <2>4, ReconcileShape
  <2>5. ASSUME NEW w \in Workers, OperatorQuarantine(w)
        PROVE  worker'[u].slots = worker[u].slots
    <3>1. worker' = [worker EXCEPT ![w].status = "QUARANTINED", ![w].version = @ + 1]
      BY <2>5 DEF OperatorQuarantine
    <3> QED BY <1>t, <3>1 DEF WorkerRow
  <2> QED BY <2>1, <2>2, <2>3, <2>4, <2>5, AuthorityWriters
<1> QED BY <1>1, <1>2, <1>3, <1>4, <1>5

(***************************************************************************)
(* The theorems.                                                           *)
(***************************************************************************)
\* The inductive invariant.
IInv ==
    /\ Typed
    /\ ReleasedExactlyOnce
    /\ ReceiptIsTrue
    /\ TerminalHoldsNothing
    /\ Authority
    /\ SlotsSuffice

\* IInv holds of every reachable state of the admission protocol.
THEOREM InductiveInvariant == Spec => []IInv
<1>1. Init => IInv
  BY TypedInit, BalanceInit, ReceiptInit, TerminalInit, AuthorityInit, SlotsInit DEF IInv
<1>2. IInv /\ [Next]_vars => IInv'
  BY TypedNext, BalanceNext, ReceiptNext, TerminalNext, AuthorityNext, SlotsNext DEF IInv
<1> QED BY <1>1, <1>2, PTL DEF Spec

\* The rows of every table keep their domains.
THEOREM TypeCorrect == Spec => []TypeOK
<1>1. IInv => TypeOK
  BY DEF IInv, Typed
<1> QED BY <1>1, InductiveInvariant, PTL

\* Each set is booked once and released once, whichever of the owner, the
\* sweep, a quarantine and a terminal closure ended it, and in any race.
THEOREM BudgetsBalance == Spec => []ReleasedExactlyOnce
<1>1. IInv => ReleasedExactlyOnce
  BY DEF IInv
<1> QED BY <1>1, InductiveInvariant, PTL

\* A transition receipt, repeated or not, is never about somebody else's
\* transition.
THEOREM ReceiptsAreTrue == Spec => []ReceiptIsTrue
<1>1. IInv => ReceiptIsTrue
  BY DEF IInv
<1> QED BY <1>1, InductiveInvariant, PTL

\* A terminal attempt holds no capacity.
THEOREM TerminalIsEmpty == Spec => []TerminalHoldsNothing
<1>1. IInv => TerminalHoldsNothing
  BY DEF IInv
<1> QED BY <1>1, InductiveInvariant, PTL

\* The session and generation that admitted a set stay valid as long as it.
THEOREM AuthorityLasts == Spec => []AuthorityOutlivesSet
<1>1. IInv => AuthorityOutlivesSet
  BY DEF IInv, Authority
<1> QED BY <1>1, InductiveInvariant, PTL

\* A reconciliation that reports a quarantine has severed the worker from its
\* sessions and sets for as long as the generation lasts.
THEOREM QuarantineIsComplete == Spec => []QuarantineSevers
<1>1. IInv => QuarantineSevers
  <2> SUFFICES ASSUME IInv, NEW k \in Checks, check[k].severed,
                      check[k].generation = worker[check[k].worker].generation
               PROVE  /\ worker[check[k].worker].status = "QUARANTINED"
                      /\ ActiveSessions(check[k].worker) = {}
                      /\ OnWorker(check[k].worker) = {}
    BY DEF QuarantineSevers
  <2>1. /\ worker[check[k].worker].status = "QUARANTINED"
        /\ ActiveSessions(check[k].worker) = {}
    BY DEF IInv, Authority, QuarantineRevokes, Severance
  <2>2. OnWorker(check[k].worker) = {}
    BY <2>1 DEF IInv, Authority, AuthorityOutlivesSet, OnWorker
  <2> QED BY <2>1, <2>2
<1> QED BY <1>1, InductiveInvariant, PTL

\* adopt_existing_set refuses the repeated request of a set that counts for one
\* reason only: an operator has quarantined its worker.
THEOREM RetriesAreAnswered == Spec => []RetryIsAnswered
<1>1. IInv => RetryIsAnswered
  <2> SUFFICES ASSUME IInv, NEW r \in Counted, worker[sets[r].worker].status # "QUARANTINED"
               PROVE  Adoptable(r)
    BY DEF RetryIsAnswered
  <2>1. /\ r \in Active /\ r \in Sets /\ sets[r].state = "ACTIVE" /\ ~(sets[r].expires <= now)
    BY DEF Counted, Elapsed, Active
  <2>2. Authorized(r)
    BY <2>1, AuthorizedMeaning DEF IInv, Authority
  <2>4. /\ sets[r].expires \in Nat /\ now \in Nat /\ session[sets[r].session].expires \in Nat
    BY <2>1, <2>2 DEF Authorized, IInv, Typed, TypeOK, SetRow, SessionRow
  <2> QED BY <2>1, <2>2, <2>4 DEF Adoptable, Authorized
<1> QED BY <1>1, InductiveInvariant, PTL

\* No worker is given more counted sets than its generation has slots.
THEOREM NoWorkerOvercommitted == Spec => []SlotsSuffice
<1>1. IInv => SlotsSuffice
  BY DEF IInv
<1> QED BY <1>1, InductiveInvariant, PTL

\* Only a new generation, never a health report, ends a quarantine.
THEOREM NoReportLiftsQuarantine == Spec => QuarantineIsMonotonic
<1> DEFINE A == \A w \in Workers :
                    worker[w].status = "QUARANTINED" /\ worker'[w].status # "QUARANTINED"
                        => worker'[w].generation = worker[w].generation + 1
<1>1. IInv /\ [Next]_vars => A
  <2> SUFFICES ASSUME IInv, [Next]_vars, NEW u \in Workers,
                      worker[u].status = "QUARANTINED", worker'[u].status # "QUARANTINED"
               PROVE  worker'[u].generation = worker[u].generation + 1
    OBVIOUS
  <2>t. worker \in [Workers -> WorkerRow]
    BY DEF IInv, Typed, TypeOK
  <2>1. ASSUME NEW w \in Workers, NEW st \in WorkerStatus, NEW n \in Slots,
               AdvanceGeneration(w, st, n)
        PROVE  worker'[u].generation = worker[u].generation + 1
    <3>1. worker' = [worker EXCEPT ![w].generation = @ + 1, ![w].status = st, ![w].slots = n]
      BY <2>1 DEF AdvanceGeneration
    <3>2. u = w
      BY <2>t, <3>1
    <3> QED BY <2>t, <3>1, <3>2 DEF WorkerRow
  <2>2. ASSUME NEW k \in Checks, Reconcile(k) PROVE FALSE
    BY <2>2, ReconcileShape DEF IInv
  <2>3. CASE \/ UNCHANGED <<worker, session>>
             \/ \E w \in Workers, s \in Sessions, e \in Times : OpenSession(w, s, e)
             \/ \E s \in Sessions : CloseSession(s)
             \/ \E s \in Sessions, e \in Times : RenewSession(s, e)
    BY <2>3 DEF OpenSession, CloseSession, RenewSession
  <2>4. ASSUME NEW w \in Workers, OperatorQuarantine(w) PROVE FALSE
    <3>1. worker' = [worker EXCEPT ![w].status = "QUARANTINED", ![w].version = @ + 1]
      BY <2>4 DEF OperatorQuarantine
    <3> QED BY <2>t, <3>1 DEF WorkerRow
  <2> QED BY <2>1, <2>2, <2>3, <2>4, AuthorityWriters
<1> QED BY <1>1, InductiveInvariant, PTL DEF Spec, QuarantineIsMonotonic

-----------------------------------------------------------------------------
(***************************************************************************)
(* Routes: the inductive invariant.                                        *)
(***************************************************************************)
JobRows ==
    [status : {"PENDING", "RUNNING", "COMPLETED", "DEAD"}, attempts : 0..MaxAttempts,
     envelope : EnvelopeTable, bound : BOOLEAN, timer : Timers \cup {Nobody}]
NoTimer == [status |-> "NONE"]
TimerRows == [status : {"SCHEDULED", "FIRED"}, route : TimerRoutes, due : BOOLEAN]
Places == {"down", "booting", "check", "route", "orphan", "unserviceable", "timers", "claim",
           "run", "stopped"}
Registries == [{} -> Handlers] \cup [Types -> Handlers]

\* The tables hold rows.
RouteTables ==
    /\ registry \in [Processes -> Registries]
    /\ pc \in [Processes -> Places]
    /\ held \in [Processes -> SUBSET Jobs]
    /\ jobs \in [Jobs -> JobRows \cup {NoJob}]
    /\ timers \in [Timers -> TimerRows \cup {NoTimer}]
    /\ crashes \in 0..MaxCrash

\* A registry that was built has a handler for every recognised type, each
\* with this build's contract and the scope its type must have.
RegistryFits(p) ==
    /\ pc[p] # "down" => DOMAIN registry[p] = Types
    /\ \A t \in DOMAIN registry[p] :
          /\ registry[p][t].type = t /\ registry[p][t].contract = Canonical[p][t]
          /\ validate_claim_scope(registry[p][t])

\* This process has the ready handler of exactly this envelope.
Fits(p, e) ==
    /\ e.type \in DOMAIN registry[p]
    /\ registry[p][e.type].ready /\ registry[p][e.type].contract = e.contract
    /\ e.type \in WorkerScoped => registry[p][e.type].scope = <<e.type, e.worker>>

\* A claim is held only while the poll runs handlers, and while it is held
\* nobody else may claim the job.
HoldsExactly(p) ==
    \A j \in held[p] :
        /\ pc[p] = "run" /\ jobs[j].status = "RUNNING"
        /\ Fits(p, jobs[j].envelope)

OneHolder == \A p, q \in Processes : \A j \in held[p] \cap held[q] : p = q

\* The job a timer became.
JobOf(j, k) == jobs[j] # NoJob /\ jobs[j].timer = k

TimersAndJobs ==
    /\ \A k \in Timers : \A j \in Jobs : JobOf(j, k) =>
          timers[k].status = "FIRED" /\ jobs[j].envelope.type \notin WorkerScoped
    /\ \A k \in Timers : \A i, j \in Jobs : JobOf(i, k) /\ JobOf(j, k) => i = j
    /\ \A k \in Timers : timers[k].status = "FIRED" => \E j \in Jobs : JobOf(j, k)

RoutesInv ==
    /\ RouteTables
    /\ \A p \in Processes : RegistryFits(p)
    /\ VerifierCanClose
    /\ \A p \in Processes : HoldsExactly(p)
    /\ OneHolder
    /\ TimersAndJobs

-----------------------------------------------------------------------------
(***************************************************************************)
(* The routes of a registry.                                               *)
(***************************************************************************)
\* What a registry is.
LEMMA RegistryIsTyped ==
    ASSUME RouteTables, NEW p \in Processes
    PROVE  /\ DOMAIN registry[p] \subseteq Types
           /\ \A t \in DOMAIN registry[p] : registry[p][t] \in Handlers
<1>1. registry[p] \in Registries
  BY DEF RouteTables
<1>2. CASE registry[p] \in [{} -> Handlers]
  BY <1>2
<1>3. CASE registry[p] \in [Types -> Handlers]
  BY <1>3
<1> QED BY <1>1, <1>2, <1>3 DEF Registries

\* A type with an unscoped route has a ready handler without a worker, so it
\* is no worker-scoped type.
LEMMA UnscopedRouteFits ==
    ASSUME RouteTables, NEW p \in Processes, RegistryFits(p), NEW t, NEW c,
           <<t, c>> \in UnscopedRoutes(p)
    PROVE  /\ t \in DOMAIN registry[p] /\ registry[p][t].ready
           /\ registry[p][t].contract = c /\ registry[p][t].scope = Unscoped
           /\ t \notin WorkerScoped
<1>1. PICK h \in ReadyHandlers(p) : h.scope = Unscoped /\ <<t, c>> = <<h.type, h.contract>>
  BY DEF UnscopedRoutes
<1>2. PICK u \in DOMAIN registry[p] : registry[p][u].ready /\ h = registry[p][u]
  BY DEF ReadyHandlers
<1>3. u = t /\ h.contract = c
  BY <1>1, <1>2 DEF RegistryFits
<1>4. validate_claim_scope(h)
  BY <1>2 DEF RegistryFits
<1> QED BY <1>1, <1>2, <1>3, <1>4 DEF validate_claim_scope

\* A worker-scoped route is that of the type's one ready handler.
LEMMA WorkerRouteFits ==
    ASSUME RouteTables, NEW p \in Processes, RegistryFits(p), NEW t \in WorkerScoped, NEW w, NEW c,
           <<w, c>> \in WorkerRoutes(p, t)
    PROVE  /\ t \in DOMAIN registry[p] /\ registry[p][t].ready
           /\ registry[p][t].contract = c /\ registry[p][t].scope = <<t, w>>
<1>1. PICK h \in ReadyHandlers(p) : h.scope[1] = t /\ <<w, c>> = <<h.scope[2], h.contract>>
  BY DEF WorkerRoutes
<1>2. PICK u \in DOMAIN registry[p] : registry[p][u].ready /\ h = registry[p][u]
  BY DEF ReadyHandlers
<1>3. h.type = u /\ validate_claim_scope(h) /\ h \in Handlers
  BY <1>2, RegistryIsTyped DEF RegistryFits
<1>4. h.scope # Unscoped
  <2>1. Unscoped[1] = "UNSCOPED"
    BY DEF Unscoped
  <2>2. "UNSCOPED" \notin WorkerScoped
    BY DEF WorkerScoped
  <2> QED BY <1>1, <2>1, <2>2
<1>5. h.scope[1] = u
  BY <1>2, <1>3, <1>4 DEF validate_claim_scope
<1>6. h.scope \in WorkerScoped \X WorkerIds
  BY <1>3, <1>4 DEF Handlers, Scopes
<1>7. h.scope = <<h.scope[1], h.scope[2]>>
  BY <1>6
<1> QED BY <1>1, <1>2, <1>5, <1>7

\* The claim statement, and the recovery of a claim whose last attempt is
\* spent, give a process only jobs it has the exact handler of.
LEMMA ServedFits ==
    ASSUME RouteTables, NEW p \in Processes, RegistryFits(p), NEW j \in Jobs,
           RouteOf(jobs[j].envelope) \in UnscopedRoutes(p) \/ RoutedTo(p, j)
    PROVE  Fits(p, jobs[j].envelope)
<1> DEFINE e == jobs[j].envelope
<1>1. CASE RouteOf(e) \in UnscopedRoutes(p)
  <2>1. <<e.type, e.contract>> \in UnscopedRoutes(p)
    BY <1>1 DEF RouteOf
  <2> QED BY <2>1, UnscopedRouteFits DEF Fits
<1>2. CASE e.type \in WorkerScoped /\ <<e.worker, e.contract>> \in WorkerRoutes(p, e.type)
  BY <1>2, WorkerRouteFits DEF Fits
<1> QED BY <1>1, <1>2 DEF RoutedTo

\* And a handler it has is one it knows.
LEMMA FitsIsKnown ==
    ASSUME NEW p \in Processes, NEW e, Fits(p, e)
    PROVE  RouteOf(e) \in Known(p)
BY DEF Fits, Known, RouteOf

LEMMA FitsMatches ==
    ASSUME RouteTables, NEW p \in Processes, RegistryFits(p), NEW j \in Jobs,
           Fits(p, jobs[j].envelope)
    PROVE  Matches(p, j)
<1> DEFINE e == jobs[j].envelope
<1>1. CASE e.type \in WorkerScoped
  BY <1>1 DEF Fits, Matches
<1>2. CASE e.type \notin WorkerScoped
  <2>1. registry[p][e.type].type = e.type /\ validate_claim_scope(registry[p][e.type])
    BY DEF Fits, RegistryFits
  <2> QED BY <1>2, <2>1 DEF Fits, Matches, validate_claim_scope
<1> QED BY <1>1, <1>2
-----------------------------------------------------------------------------
(***************************************************************************)
(* What the steps keep.                                                    *)
(***************************************************************************)
\* A row that exists stays the same job: its envelope and its timer are
\* never rewritten.
SameJob(j) ==
    /\ jobs'[j] = NoJob <=> jobs[j] = NoJob
    /\ jobs[j] # NoJob => jobs'[j].envelope = jobs[j].envelope /\ jobs'[j].timer = jobs[j].timer

LEMMA TimersKept ==
    ASSUME RouteTables, TimersAndJobs, \A j \in Jobs : SameJob(j), UNCHANGED timers
    PROVE  TimersAndJobs'
<1>1. \A k \in Timers : \A j \in Jobs :
         /\ JobOf(j, k)' <=> JobOf(j, k)
         /\ JobOf(j, k) => jobs'[j].envelope = jobs[j].envelope
  BY DEF JobOf, SameJob
<1>2. \A k \in Timers : timers'[k] = timers[k]
  OBVIOUS
<1>3. \A k \in Timers : \A j \in Jobs : JobOf(j, k)' =>
         timers'[k].status = "FIRED" /\ jobs'[j].envelope.type \notin WorkerScoped
  BY <1>1, <1>2 DEF TimersAndJobs
<1>4. \A k \in Timers : \A i, j \in Jobs : JobOf(i, k)' /\ JobOf(j, k)' => i = j
  BY <1>1 DEF TimersAndJobs
<1>5. \A k \in Timers : timers'[k].status = "FIRED" => \E j \in Jobs : JobOf(j, k)'
  BY <1>1, <1>2 DEF TimersAndJobs
<1> QED BY <1>3, <1>4, <1>5 DEF TimersAndJobs

\* What a process holds stays exact while its handlers, its place and the
\* rows it holds stay.
LEMMA HoldsKept ==
    ASSUME NEW p \in Processes, HoldsExactly(p), registry'[p] = registry[p],
           held'[p] \subseteq held[p], pc'[p] = pc[p] \/ held'[p] = {},
           \A j \in held'[p] : /\ jobs'[j].status = jobs[j].status
                               /\ jobs'[j].envelope = jobs[j].envelope
    PROVE  HoldsExactly(p)'
<1> SUFFICES ASSUME NEW j \in held'[p]
             PROVE  /\ pc'[p] = "run" /\ jobs'[j].status = "RUNNING"
                    /\ Fits(p, jobs[j].envelope)' /\ jobs'[j].envelope = jobs[j].envelope
  BY DEF HoldsExactly, Fits
<1>1. pc'[p] = pc[p] /\ j \in held[p]
  OBVIOUS
<1>2. pc[p] = "run" /\ jobs[j].status = "RUNNING" /\ Fits(p, jobs[j].envelope)
  BY <1>1 DEF HoldsExactly
<1>3. Fits(p, jobs'[j].envelope)
  BY <1>2
<1> QED BY <1>1, <1>2, <1>3 DEF Fits

\* A registry fits as long as it is not rebuilt.
LEMMA RegistryKept ==
    ASSUME NEW p \in Processes, RegistryFits(p), registry'[p] = registry[p],
           pc'[p] # "down" => pc[p] # "down"
    PROVE  RegistryFits(p)'
BY DEF RegistryFits, validate_claim_scope

LEMMA VerifierKept ==
    ASSUME VerifierCanClose, UNCHANGED registry
    PROVE  VerifierCanClose'
BY DEF VerifierCanClose, handler_is_ready

\* A process that runs no handlers holds nothing.
LEMMA IdleHoldsNothing ==
    ASSUME RoutesInv, NEW p \in Processes, pc[p] # "run"
    PROVE  held[p] = {}
BY DEF RoutesInv, HoldsExactly

\* A job that is due is in nobody's hands.
LEMMA DueIsUnheld ==
    ASSUME RoutesInv, NEW j \in Jobs, Due(j), NEW p \in Processes
    PROVE  j \notin held[p]
BY DEF RoutesInv, Due, HoldsExactly

\* A step that only takes a process without claims to another place.
LEMMA PlaceMoves ==
    ASSUME RoutesInv, NEW p \in Processes, NEW l \in Places, Goto(p, l), held[p] = {},
           pc[p] # "down", UNCHANGED <<registry, held, jobs, timers>>, crashes' \in 0..MaxCrash
    PROVE  RoutesInv'
<1>1. RouteTables'
  BY DEF RoutesInv, RouteTables, Goto
<1>2. \A q \in Processes : pc'[q] = pc[q] \/ q = p
  BY DEF RoutesInv, RouteTables, Goto
<1>3. ASSUME NEW q \in Processes PROVE RegistryFits(q)'
  BY <1>2, RegistryKept DEF RoutesInv
<1>4. ASSUME NEW q \in Processes PROVE HoldsExactly(q)'
  <2>1. HoldsExactly(q) /\ (pc'[q] = pc[q] \/ held'[q] = {})
    BY <1>2 DEF RoutesInv
  <2> QED BY <2>1, HoldsKept
<1>5. OneHolder'
  BY DEF RoutesInv, OneHolder
<1>6. VerifierCanClose'
  BY VerifierKept DEF RoutesInv
<1>7. TimersAndJobs'
  BY TimersKept DEF RoutesInv, SameJob
<1> QED BY <1>1, <1>3, <1>4, <1>5, <1>6, <1>7 DEF RoutesInv

\* A step that changes the status, the attempts or the binding of one row
\* nobody holds, and may bring a process without claims down.
LEMMA UnheldRowMoves ==
    ASSUME RoutesInv, NEW j \in Jobs, jobs[j] # NoJob, NEW row \in JobRows,
           \A p \in Processes : j \in held[p] => row.status = jobs[j].status,
           row.envelope = jobs[j].envelope, row.timer = jobs[j].timer,
           jobs' = [jobs EXCEPT ![j] = row],
           pc' \in [Processes -> Places],
           \A p \in Processes : pc'[p] = pc[p] \/ (held[p] = {} /\ pc'[p] = "down"),
           UNCHANGED <<registry, held, timers>>, crashes' \in 0..MaxCrash
    PROVE  RoutesInv'
<1>0. jobs \in [Jobs -> JobRows \cup {NoJob}]
  BY DEF RoutesInv, RouteTables
<1>n. row # NoJob
  BY DEF JobRows, NoJob
<1>1. RouteTables'
  BY <1>0 DEF RoutesInv, RouteTables
<1>2. \A i \in Jobs : SameJob(i)
  BY <1>0, <1>n DEF SameJob
<1>3. ASSUME NEW q \in Processes PROVE RegistryFits(q)'
  BY RegistryKept DEF RoutesInv
<1>4. ASSUME NEW q \in Processes PROVE HoldsExactly(q)'
  <2>1. \A i \in held[q] : jobs'[i].status = jobs[i].status /\ jobs'[i].envelope = jobs[i].envelope
    <3>1. held[q] \subseteq Jobs
      BY DEF RoutesInv, RouteTables
    <3> QED BY <1>0, <3>1
  <2>2. HoldsExactly(q) /\ registry'[q] = registry[q] /\ held'[q] = held[q]
        /\ (pc'[q] = pc[q] \/ held'[q] = {})
    BY DEF RoutesInv
  <2> QED BY <2>1, <2>2, HoldsKept
<1>5. OneHolder'
  BY DEF RoutesInv, OneHolder
<1>6. VerifierCanClose'
  BY VerifierKept DEF RoutesInv
<1>7. TimersAndJobs'
  BY <1>2, TimersKept DEF RoutesInv
<1> QED BY <1>1, <1>3, <1>4, <1>5, <1>6, <1>7 DEF RoutesInv
-----------------------------------------------------------------------------
(***************************************************************************)
(* Each step keeps the invariant.                                          *)
(***************************************************************************)
USE RoutesAssumption

LEMMA RoutesInvInit == RoutesInit => RoutesInv
<1> SUFFICES ASSUME RoutesInit PROVE RoutesInv
  OBVIOUS
<1>1. RouteTables
  <2>1. [t \in {} |-> {}] \in [{} -> Handlers]
    OBVIOUS
  <2> QED BY <2>1 DEF RoutesInit, RouteTables, Registries, Places, NoTimer
<1>2. \A p \in Processes : registry[p] = [t \in {} |-> {}] /\ pc[p] = "down" /\ held[p] = {}
  BY DEF RoutesInit
<1>3. \A p \in Processes : RegistryFits(p) /\ HoldsExactly(p)
  BY <1>2 DEF RegistryFits, HoldsExactly
<1>4. VerifierCanClose
  BY <1>2 DEF VerifierCanClose, handler_is_ready
<1>5. OneHolder
  BY <1>2 DEF OneHolder
<1>6. TimersAndJobs
  BY DEF RoutesInit, TimersAndJobs, JobOf
<1> QED BY <1>1, <1>3, <1>4, <1>5, <1>6 DEF RoutesInv

\* Placeholders of every recognised type, none of them ready.
LEMMA BootStep ==
    ASSUME RoutesInv, NEW p \in Processes, Boot(p)
    PROVE  RoutesInv'
<1>1. fail_closed_production(p) \in [Types -> Handlers]
  BY DEF fail_closed_production, UnavailableJobHandler, Handlers, Scopes
<1>2. RouteTables'
  BY <1>1 DEF RoutesInv, RouteTables, Boot, Registries, Places
<1>3. /\ registry'[p] = fail_closed_production(p) /\ pc'[p] = "booting" /\ held'[p] = {}
      /\ \A q \in Processes \ {p} :
            registry'[q] = registry[q] /\ pc'[q] = pc[q] /\ held'[q] = held[q]
  BY DEF RoutesInv, RouteTables, Boot
<1>4. RegistryFits(p)'
  BY <1>1, <1>3 DEF RegistryFits, fail_closed_production, UnavailableJobHandler, validate_claim_scope
<1>5. ASSUME NEW q \in Processes \ {p} PROVE RegistryFits(q)' /\ HoldsExactly(q)'
  <2>1. RegistryFits(q) /\ HoldsExactly(q)
    BY DEF RoutesInv
  <2>2. UNCHANGED jobs
    BY DEF Boot
  <2> QED BY <1>3, <2>1, <2>2, RegistryKept, HoldsKept
<1>6. HoldsExactly(p)'
  BY <1>3 DEF HoldsExactly
<1>7. OneHolder'
  BY <1>3 DEF RoutesInv, OneHolder
<1>8. VerifierCanClose'
  <2>1. ~handler_is_ready(registry'[p], "VERIFY_EVIDENCE")
    BY <1>3 DEF handler_is_ready, fail_closed_production, UnavailableJobHandler
  <2>2. ASSUME NEW q \in Processes \ {p}, handler_is_ready(registry'[q], "VERIFY_EVIDENCE")
        PROVE  handler_is_ready(registry'[q], "CLOSE_SOURCE")
    BY <1>3, <2>2 DEF RoutesInv, VerifierCanClose
  <2> QED BY <2>1, <2>2 DEF VerifierCanClose
<1>9. TimersAndJobs'
  BY TimersKept DEF RoutesInv, SameJob, Boot
<1> QED BY <1>2, <1>4, <1>5, <1>6, <1>7, <1>8, <1>9 DEF RoutesInv

\* A handler takes the place of its placeholder.
LEMMA ReplaceStep ==
    ASSUME RoutesInv, NEW p \in Processes, NEW h \in Offered, replace_unavailable(p, h)
    PROVE  RoutesInv'
<1>0. /\ pc[p] = "booting" /\ h \in Handlers /\ h.ready
      /\ h.type \in DOMAIN registry[p] /\ UNCHANGED <<pc, held, jobs, timers, crashes>>
      /\ validate_claim_scope(h) /\ h.contract = Canonical[p][h.type]
  BY DEF replace_unavailable, validate_activity_contract_id
<1>t. RouteTables /\ RegistryFits(p)
  BY DEF RoutesInv
<1>1. registry[p] \in [Types -> Handlers] /\ h.type \in Types
  <2>1. registry[p] \in Registries /\ DOMAIN registry[p] = Types
    BY <1>0, <1>t DEF RouteTables, RegistryFits
  <2> QED BY <1>0, <2>1 DEF Registries
<1>2. PICK reg : reg = [registry[p] EXCEPT ![h.type] = h]
  OBVIOUS
<1>3. /\ reg \in [Types -> Handlers] /\ reg[h.type] = h
      /\ \A t \in Types \ {h.type} : reg[t] = registry[p][t]
  BY <1>0, <1>1, <1>2
<1>4. /\ registry' = [registry EXCEPT ![p] = reg] /\ registry'[p] = reg
      /\ \A q \in Processes \ {p} : registry'[q] = registry[q]
  BY <1>t, <1>2 DEF replace_unavailable, RouteTables
<1>5. RouteTables'
  BY <1>0, <1>t, <1>3, <1>4 DEF RouteTables, Registries
<1>6. RegistryFits(p)'
  <2>1. ASSUME NEW t \in Types
        PROVE  reg[t].type = t /\ reg[t].contract = Canonical[p][t] /\ validate_claim_scope(reg[t])
    <3>1. CASE t = h.type
      BY <1>0, <1>3, <3>1
    <3>2. CASE t # h.type
      BY <1>1, <1>t, <1>3, <3>2 DEF RegistryFits
    <3> QED BY <3>1, <3>2
  <2>2. DOMAIN reg = Types
    BY <1>3
  <2> QED BY <1>4, <2>1, <2>2 DEF RegistryFits
<1>7. ASSUME NEW q \in Processes \ {p} PROVE RegistryFits(q)' /\ HoldsExactly(q)'
  <2>1. RegistryFits(q) /\ HoldsExactly(q)
    BY DEF RoutesInv
  <2> QED BY <1>0, <1>4, <2>1, RegistryKept, HoldsKept
<1>8. HoldsExactly(p)'
  <2>1. held'[p] = {}
    BY <1>0, IdleHoldsNothing
  <2> QED BY <2>1 DEF HoldsExactly
<1>9. OneHolder'
  BY <1>0 DEF RoutesInv, OneHolder
<1>10. VerifierCanClose'
  <2>1. ASSUME handler_is_ready(reg, "VERIFY_EVIDENCE")
        PROVE  handler_is_ready(reg, "CLOSE_SOURCE")
    <3>1. CASE h.type = "VERIFY_EVIDENCE"
      <4>1. handler_is_ready(registry[p], "CLOSE_SOURCE")
        BY <1>0, <3>1 DEF replace_unavailable, validate_activity_dependencies
      <4> QED BY <4>1, <1>1, <1>3, <3>1 DEF handler_is_ready
    <3>2. CASE h.type = "CLOSE_SOURCE"
      BY <1>0, <1>1, <1>3, <3>2 DEF handler_is_ready
    <3>3. CASE h.type # "VERIFY_EVIDENCE" /\ h.type # "CLOSE_SOURCE"
      <4>1. handler_is_ready(registry[p], "VERIFY_EVIDENCE")
        BY <1>1, <1>3, <2>1, <3>3 DEF handler_is_ready
      <4>2. handler_is_ready(registry[p], "CLOSE_SOURCE")
        BY <4>1 DEF RoutesInv, VerifierCanClose
      <4> QED BY <4>2, <1>1, <1>3, <3>3 DEF handler_is_ready
    <3> QED BY <3>1, <3>2, <3>3
  <2> QED BY <1>4, <2>1 DEF RoutesInv, VerifierCanClose
<1>11. TimersAndJobs'
  BY <1>0, TimersKept DEF RoutesInv, SameJob
<1> QED BY <1>5, <1>6, <1>7, <1>8, <1>9, <1>10, <1>11 DEF RoutesInv

LEMMA StartStep ==
    ASSUME RoutesInv, NEW p \in Processes, Start(p)
    PROVE  RoutesInv'
<1>1. held[p] = {}
  BY IdleHoldsNothing DEF Start
<1> QED BY <1>1, PlaceMoves DEF Start, Goto, Places, RoutesInv, RouteTables

LEMMA CheckStep ==
    ASSUME RoutesInv, NEW p \in Processes, reject_unknown_or_incompatible_due_job(p)
    PROVE  RoutesInv'
<1>1. held[p] = {}
  BY IdleHoldsNothing DEF reject_unknown_or_incompatible_due_job
<1>2. PICK l \in {"stopped", "route"} : Goto(p, l)
  BY DEF reject_unknown_or_incompatible_due_job
<1> QED BY <1>1, <1>2, PlaceMoves
        DEF reject_unknown_or_incompatible_due_job, Places, RoutesInv, RouteTables

LEMMA EndStep ==
    ASSUME RoutesInv, NEW p \in Processes, EndOfPoll(p)
    PROVE  RoutesInv'
BY PlaceMoves DEF EndOfPoll, Places, RoutesInv, RouteTables

\* The three scans end rows that are due, which nobody holds.
LEMMA DoomStep ==
    ASSUME RoutesInv, NEW p \in Processes, NEW S, \A j \in S : j \in Jobs /\ Live(j) /\ Due(j),
           NEW l, l \notin {"down", "run"}, NEW n \in Places, Doom(p, S, l, n)
    PROVE  RoutesInv'
<1>0. held[p] = {} /\ pc[p] # "down" /\ UNCHANGED <<registry, held, timers>> /\ pc[p] = l
  BY IdleHoldsNothing DEF Doom
<1>t. /\ pc \in [Processes -> Places] /\ jobs \in [Jobs -> JobRows \cup {NoJob}]
      /\ crashes \in 0..MaxCrash
  BY DEF RoutesInv, RouteTables
<1>1. ASSUME NEW j \in S, NEW s \in {"DEAD", "RUNNING"}, jobs' = Exhausted(j, s),
             \/ UNCHANGED <<pc, crashes>>
             \/ crashes < MaxCrash /\ crashes' = crashes + 1 /\ Goto(p, "down")
      PROVE  RoutesInv'
  <2>1. j \in Jobs /\ Live(j) /\ Due(j)
    OBVIOUS
  <2>2. jobs[j] \in JobRows /\ jobs[j] # NoJob
    BY <1>t, <2>1 DEF Live, NoJob, JobRows
  <2>3. PICK row : row = [jobs[j] EXCEPT !.status = s, !.attempts = MaxAttempts]
    OBVIOUS
  <2>4. row \in JobRows /\ row.envelope = jobs[j].envelope /\ row.timer = jobs[j].timer
    <3>1. MaxAttempts \in 0..MaxAttempts
      OBVIOUS
    <3>2. s \in {"PENDING", "RUNNING", "COMPLETED", "DEAD"}
      OBVIOUS
    <3> HIDE RoutesAssumption
    <3> QED BY <2>2, <2>3, <3>1, <3>2 DEF JobRows
  <2>5. jobs' = [jobs EXCEPT ![j] = row]
    BY <1>1, <2>3 DEF Exhausted
  <2>6. \A q \in Processes : j \notin held[q]
    BY <2>1, DueIsUnheld
  <2>7. /\ pc' \in [Processes -> Places] /\ crashes' \in 0..MaxCrash
        /\ \A q \in Processes : pc'[q] = pc[q] \/ (held[q] = {} /\ pc'[q] = "down")
    BY <1>0, <1>t, <1>1 DEF Goto, Places
  <2> QED BY <1>0, <2>1, <2>2, <2>4, <2>5, <2>6, <2>7, UnheldRowMoves
<1>2. CASE S = {} /\ Goto(p, n) /\ UNCHANGED <<jobs, crashes>>
  BY <1>0, <1>t, <1>2, PlaceMoves
<1> QED BY <1>1, <1>2 DEF Doom

\* Each of their rows is due, and one whose route the process knows.
LEMMA ScannedIsKnown ==
    ASSUME RoutesInv, NEW p \in Processes, pc[p] # "down"
    PROVE  /\ \A j \in RouteInvalid(p) :
                 j \in Jobs /\ Live(j) /\ Due(j) /\ RouteOf(jobs[j].envelope) \in Known(p)
           /\ \A j \in Orphaned(p) :
                 j \in Jobs /\ Live(j) /\ Due(j) /\ RouteOf(jobs[j].envelope) \in Known(p)
           /\ \A j \in KnownUnserviceable(p) :
                 j \in Jobs /\ Live(j) /\ Due(j) /\ RouteOf(jobs[j].envelope) \in Known(p)
<1>t. RouteTables /\ RegistryFits(p)
  BY DEF RoutesInv
<1>1. ASSUME NEW j \in RouteInvalid(p) PROVE RouteOf(jobs[j].envelope) \in Known(p)
  <2> DEFINE t == jobs[j].envelope.type
  <2>1. t \in DOMAIN registry[p] /\ jobs[j].envelope.contract = Canonical[p][t]
    BY <1>t DEF RouteInvalid, RegistryFits
  <2>2. registry[p][t].contract = Canonical[p][t]
    BY <1>t, <2>1 DEF RegistryFits
  <2> QED BY <2>1, <2>2 DEF Known, RouteOf
<1>2. ASSUME NEW j \in Orphaned(p) PROVE RouteOf(jobs[j].envelope) \in Known(p)
  <2>1. j \in Jobs /\ (RouteOf(jobs[j].envelope) \in UnscopedRoutes(p) \/ RoutedTo(p, j))
    BY DEF Orphaned
  <2> QED BY <1>t, <2>1, ServedFits, FitsIsKnown
<1>3. ASSUME NEW j \in KnownUnserviceable(p) PROVE RouteOf(jobs[j].envelope) \in Known(p)
  BY DEF KnownUnserviceable
<1> QED BY <1>1, <1>2, <1>3 DEF RouteInvalid, Orphaned, KnownUnserviceable, Live

LEMMA ScanSteps ==
    ASSUME RoutesInv, NEW p \in Processes,
           \/ claim_one_route_invalid_scoped_job(p)
           \/ claim_one_orphaned_exhausted_job(p)
           \/ claim_one_known_unserviceable_due_job(p)
    PROVE  RoutesInv'
<1>1. pc[p] # "down"
  BY DEF claim_one_route_invalid_scoped_job, claim_one_orphaned_exhausted_job,
         claim_one_known_unserviceable_due_job, Doom
<1>2. {"orphan", "unserviceable", "timers"} \subseteq Places
  BY DEF Places
<1>3. CASE claim_one_route_invalid_scoped_job(p)
  BY <1>1, <1>2, <1>3, ScannedIsKnown, DoomStep DEF claim_one_route_invalid_scoped_job
<1>4. CASE claim_one_orphaned_exhausted_job(p)
  BY <1>1, <1>2, <1>4, ScannedIsKnown, DoomStep DEF claim_one_orphaned_exhausted_job
<1>5. CASE claim_one_known_unserviceable_due_job(p)
  BY <1>1, <1>2, <1>5, ScannedIsKnown, DoomStep DEF claim_one_known_unserviceable_due_job
<1> QED BY <1>3, <1>4, <1>5

\* A new row that nobody holds.
LEMMA NewRow ==
    ASSUME RoutesInv, NEW j \in Jobs, jobs[j] = NoJob, NEW row \in JobRows,
           jobs' = [jobs EXCEPT ![j] = row], timers' \in [Timers -> TimerRows \cup {NoTimer}],
           UNCHANGED <<registry, pc, held, crashes>>, TimersAndJobs'
    PROVE  RoutesInv'
<1>0. jobs \in [Jobs -> JobRows \cup {NoJob}]
  BY DEF RoutesInv, RouteTables
<1>1. RouteTables'
  BY <1>0 DEF RoutesInv, RouteTables
<1>2. ASSUME NEW q \in Processes PROVE RegistryFits(q)' /\ HoldsExactly(q)'
  <2>1. RegistryFits(q) /\ HoldsExactly(q) /\ held[q] \subseteq Jobs
    BY DEF RoutesInv, RouteTables
  <2>2. j \notin held[q]
    BY <2>1 DEF HoldsExactly, NoJob
  <2>3. \A i \in held[q] : jobs'[i] = jobs[i]
    BY <1>0, <2>1, <2>2
  <2> QED BY <2>1, <2>3, RegistryKept, HoldsKept
<1>3. OneHolder'
  BY DEF RoutesInv, OneHolder
<1>4. VerifierCanClose'
  BY VerifierKept DEF RoutesInv
<1> QED BY <1>1, <1>2, <1>3, <1>4 DEF RoutesInv

LEMMA EnqueueKeeps ==
    ASSUME RoutesInv, NEW j \in Jobs, NEW e \in Envelopes, NEW b \in BOOLEAN, Enqueue(j, e, b)
    PROVE  RoutesInv'
<1>0. jobs \in [Jobs -> JobRows \cup {NoJob}] /\ timers \in [Timers -> TimerRows \cup {NoTimer}]
  BY DEF RoutesInv, RouteTables
<1>1. PICK row : row = NewJob(e, b, Nobody)
  OBVIOUS
<1>2. row \in JobRows /\ row.timer = Nobody
  <2>1. 0 \in 0..MaxAttempts /\ e \in EnvelopeTable
    OBVIOUS
  <2> HIDE RoutesAssumption
  <2> QED BY <1>1, <2>1 DEF NewJob, JobRows
<1>3. jobs' = [jobs EXCEPT ![j] = row] /\ jobs[j] = NoJob
      /\ UNCHANGED <<registry, pc, held, timers, crashes>>
  BY <1>1 DEF Enqueue, Free
<1>4. \A i \in Jobs : \A k \in Timers :
         (JobOf(i, k)' <=> JobOf(i, k)) /\ (JobOf(i, k) => jobs'[i] = jobs[i])
  <2>1. \A k \in Timers : ~JobOf(j, k) /\ ~JobOf(j, k)'
    BY <1>0, <1>2, <1>3 DEF JobOf
  <2>2. \A i \in Jobs \ {j} : jobs'[i] = jobs[i]
    BY <1>0, <1>3
  <2> QED BY <2>1, <2>2 DEF JobOf
<1>5. TimersAndJobs'
  <2>1. TimersAndJobs
    BY DEF RoutesInv
  <2> QED BY <1>3, <1>4, <2>1 DEF TimersAndJobs
<1> QED BY <1>0, <1>2, <1>3, <1>5, NewRow

\* The one new job of a timer that had none.
LEMMA PromoteKeeps ==
    ASSUME RoutesInv, NEW p \in Processes, NEW k \in Promotable(p), NEW j \in Jobs,
           promote_timer(k, j), UNCHANGED <<registry, pc, held, crashes>>
    PROVE  RoutesInv'
<1>0. jobs \in [Jobs -> JobRows \cup {NoJob}] /\ timers \in [Timers -> TimerRows \cup {NoTimer}]
  BY DEF RoutesInv, RouteTables
<1>1. /\ k \in Timers /\ timers[k].status = "SCHEDULED"
      /\ RouteOf(timers[k].route) \in UnscopedRoutes(p)
  BY DEF Promotable, DueTimers
<1>2. timers[k] \in TimerRows
  BY <1>0, <1>1 DEF NoTimer
<1>3. PICK t \in PRODUCTION_JOB_TYPES, c \in Nat : t = timers[k].route.type /\ c = timers[k].route.contract
  BY <1>2 DEF TimerRows
<1>4. t \notin WorkerScoped
  <2>1. <<t, c>> \in UnscopedRoutes(p)
    BY <1>1, <1>3 DEF RouteOf
  <2> QED BY <2>1, UnscopedRouteFits DEF RoutesInv
<1>5. PICK row : row = NewJob(EnvelopeOf(t, c, Nobody), FALSE, k)
  OBVIOUS
<1>6. row \in JobRows /\ row.timer = k /\ row.envelope.type = t
  <2>1. 0 \in 0..MaxAttempts
    OBVIOUS
  <2>2. EnvelopeOf(t, c, Nobody) \in EnvelopeTable
    BY DEF EnvelopeOf, EnvelopeTable
  <2>3. EnvelopeOf(t, c, Nobody).type = t
    BY DEF EnvelopeOf
  <2> HIDE RoutesAssumption
  <2> QED BY <1>1, <1>5, <2>1, <2>2, <2>3 DEF NewJob, JobRows
<1>7. /\ jobs' = [jobs EXCEPT ![j] = row] /\ jobs[j] = NoJob
      /\ \A i \in Jobs : ~JobOf(i, k)
      /\ timers' = [timers EXCEPT ![k] = [timers[k] EXCEPT !.status = "FIRED"]]
  BY <1>3, <1>5 DEF promote_timer, Fired, JobOf
<1>8. timers' \in [Timers -> TimerRows \cup {NoTimer}] /\ timers'[k].status = "FIRED"
      /\ \A m \in Timers \ {k} : timers'[m] = timers[m]
  <2>1. PICK tr : tr = [timers[k] EXCEPT !.status = "FIRED"]
    OBVIOUS
  <2>2. tr \in TimerRows /\ tr.status = "FIRED"
    <3> HIDE RoutesAssumption
    <3> QED BY <1>2, <2>1 DEF TimerRows
  <2> QED BY <1>0, <1>1, <1>7, <2>1, <2>2
<1>9. /\ JobOf(j, k)' /\ jobs'[j].envelope.type \notin WorkerScoped
      /\ \A i \in Jobs \ {j} : ~JobOf(i, k)'
      /\ \A m \in Timers \ {k} : \A i \in Jobs :
            (JobOf(i, m)' <=> JobOf(i, m)) /\ (JobOf(i, m) => jobs'[i] = jobs[i])
  <2>1. jobs'[j] = row /\ \A i \in Jobs \ {j} : jobs'[i] = jobs[i]
    BY <1>0, <1>7
  <2>2. row # NoJob
    BY <1>6 DEF JobRows, NoJob
  <2> QED BY <1>4, <1>6, <1>7, <2>1, <2>2 DEF JobOf
<1>10. TimersAndJobs'
  <2>0. TimersAndJobs
    BY DEF RoutesInv
  <2>1. ASSUME NEW m \in Timers, NEW i \in Jobs, JobOf(i, m)'
        PROVE  timers'[m].status = "FIRED" /\ jobs'[i].envelope.type \notin WorkerScoped
    BY <1>8, <1>9, <2>0, <2>1 DEF TimersAndJobs
  <2>2. ASSUME NEW m \in Timers, NEW h \in Jobs, NEW i \in Jobs, JobOf(h, m)', JobOf(i, m)'
        PROVE  h = i
    BY <1>9, <2>0, <2>2 DEF TimersAndJobs
  <2>3. ASSUME NEW m \in Timers, timers'[m].status = "FIRED"
        PROVE  \E i \in Jobs : JobOf(i, m)'
    BY <1>8, <1>9, <2>0, <2>3 DEF TimersAndJobs
  <2> QED BY <2>1, <2>2, <2>3 DEF TimersAndJobs
<1> QED BY <1>6, <1>7, <1>8, <1>10, NewRow

LEMMA PromoteStep ==
    ASSUME RoutesInv, NEW p \in Processes, promote_due_timers(p)
    PROVE  RoutesInv'
<1>0. /\ held[p] = {} /\ pc[p] # "down" /\ UNCHANGED <<registry, held, crashes>>
      /\ {"stopped", "claim"} \subseteq Places /\ crashes \in 0..MaxCrash
  BY IdleHoldsNothing DEF promote_due_timers, Places, RoutesInv, RouteTables
<1>1. ASSUME NEW l \in {"stopped", "claim"}, Goto(p, l), UNCHANGED <<jobs, timers>>
      PROVE  RoutesInv'
  BY <1>0, <1>1, PlaceMoves
<1>2. ASSUME NEW k \in Promotable(p), NEW j \in Jobs, promote_timer(k, j), UNCHANGED pc
      PROVE  RoutesInv'
  BY <1>0, <1>2, PromoteKeeps
<1> QED BY <1>1, <1>2 DEF promote_due_timers

\* Every claimed row has a handler that matches it, so the poll goes on.
LEMMA ClaimedMatch ==
    ASSUME RoutesInv, NEW p \in Processes, NEW j \in Claimable(p)
    PROVE  /\ j \in Jobs /\ Live(j) /\ Due(j) /\ jobs[j].attempts < MaxAttempts
           /\ Fits(p, jobs[j].envelope) /\ Matches(p, j)
<1>1. j \in Jobs /\ Live(j) /\ Due(j) /\ jobs[j].attempts < MaxAttempts /\ Served(p, j)
  BY DEF Claimable
<1>2. RouteTables /\ RegistryFits(p)
  BY DEF RoutesInv
<1>3. RouteOf(jobs[j].envelope) \in UnscopedRoutes(p) \/ RoutedTo(p, j)
  BY <1>1 DEF Served
<1> QED BY <1>1, <1>2, <1>3, ServedFits, FitsMatches

LEMMA ClaimStep ==
    ASSUME RoutesInv, NEW p \in Processes, claim_ready_jobs(p)
    PROVE  RoutesInv'
<1>0. /\ jobs \in [Jobs -> JobRows \cup {NoJob}] /\ pc \in [Processes -> Places]
      /\ held \in [Processes -> SUBSET Jobs]
  BY DEF RoutesInv, RouteTables
<1>1. PICK S : S = Claimable(p)
  OBVIOUS
<1>2. /\ S \subseteq Jobs
      /\ \A j \in S : /\ Live(j) /\ Due(j) /\ jobs[j].attempts < MaxAttempts
                      /\ Fits(p, jobs[j].envelope)
  BY <1>1, ClaimedMatch
<1>3. Goto(p, "run") /\ pc[p] = "claim" /\ UNCHANGED <<registry, timers, crashes>>
      /\ held' = [held EXCEPT ![p] = S]
  BY <1>1, ClaimedMatch DEF claim_ready_jobs
<1>4. PICK row : row = [j \in Jobs |-> [jobs[j] EXCEPT !.status = "RUNNING",
                                                     !.attempts = jobs[j].attempts + 1]]
  OBVIOUS
<1>5. jobs' = [j \in Jobs |-> IF j \in S THEN row[j] ELSE jobs[j]]
  <2>1. jobs' = [j \in Jobs |-> IF j \in S
                                THEN [jobs[j] EXCEPT !.status = "RUNNING",
                                                     !.attempts = jobs[j].attempts + 1]
                                ELSE jobs[j]]
    BY <1>1 DEF claim_ready_jobs
  <2> QED BY <1>4, <2>1
<1>6. ASSUME NEW j \in S
      PROVE  /\ jobs[j] \in JobRows /\ row[j] \in JobRows /\ row[j].status = "RUNNING"
             /\ row[j].envelope = jobs[j].envelope /\ row[j].timer = jobs[j].timer
  <2>1. jobs[j] \in JobRows
    BY <1>0, <1>2 DEF Live, NoJob
  <2>2. jobs[j].attempts + 1 \in 0..MaxAttempts
    BY <1>2, <2>1 DEF JobRows
  <2>3. row[j] = [jobs[j] EXCEPT !.status = "RUNNING", !.attempts = jobs[j].attempts + 1]
    BY <1>2, <1>4
  <2> HIDE RoutesAssumption
  <2> QED BY <2>1, <2>2, <2>3 DEF JobRows
<1>7. RouteTables'
  <2>1. jobs' \in [Jobs -> JobRows \cup {NoJob}]
    BY <1>0, <1>5, <1>6
  <2>2. pc' \in [Processes -> Places] /\ held' \in [Processes -> SUBSET Jobs]
    BY <1>0, <1>2, <1>3 DEF Goto, Places
  <2> QED BY <1>3, <2>1, <2>2 DEF RoutesInv, RouteTables
<1>8. \A j \in Jobs : SameJob(j)
  <2>1. \A j \in S : row[j] # NoJob /\ jobs[j] # NoJob
    BY <1>6 DEF JobRows, NoJob
  <2> QED BY <1>5, <1>6, <2>1 DEF SameJob
<1>9. /\ pc'[p] = "run" /\ held'[p] = S
      /\ \A q \in Processes \ {p} : pc'[q] = pc[q] /\ held'[q] = held[q]
  BY <1>0, <1>3 DEF Goto
<1>10. ASSUME NEW q \in Processes PROVE RegistryFits(q)'
  BY <1>3, <1>9, RegistryKept DEF RoutesInv
<1>11. \A q \in Processes : S \cap held[q] = {}
  BY <1>2, DueIsUnheld
<1>12. HoldsExactly(p)'
  <2>1. ASSUME NEW j \in S
        PROVE  /\ jobs'[j].status = "RUNNING" /\ jobs'[j].envelope = jobs[j].envelope
               /\ Fits(p, jobs[j].envelope)
    BY <1>2, <1>5, <1>6
  <2>2. registry'[p] = registry[p]
    BY <1>3
  <2> QED BY <1>9, <2>1, <2>2 DEF HoldsExactly, Fits
<1>13. ASSUME NEW q \in Processes \ {p} PROVE HoldsExactly(q)'
  <2>1. HoldsExactly(q) /\ held'[q] = held[q] /\ pc'[q] = pc[q] /\ registry'[q] = registry[q]
    BY <1>3, <1>9 DEF RoutesInv
  <2>2. \A j \in held'[q] : jobs'[j] = jobs[j]
    BY <1>0, <1>5, <1>11, <2>1
  <2> QED BY <2>1, <2>2, HoldsKept
<1>14. OneHolder'
  BY <1>9, <1>11 DEF RoutesInv, OneHolder
<1>15. VerifierCanClose' /\ TimersAndJobs'
  BY <1>3, <1>8, VerifierKept, TimersKept DEF RoutesInv
<1> QED BY <1>7, <1>10, <1>12, <1>13, <1>14, <1>15 DEF RoutesInv

\* A handler ends a claim only its process holds.
LEMMA ExecuteStep ==
    ASSUME RoutesInv, NEW p \in Processes, NEW j \in Jobs, execute_claimed_job(p, j)
    PROVE  RoutesInv'
<1>0. /\ jobs \in [Jobs -> JobRows \cup {NoJob}] /\ held \in [Processes -> SUBSET Jobs]
      /\ j \in held[p] /\ HoldsExactly(p)
  BY DEF RoutesInv, RouteTables, execute_claimed_job
<1>1. jobs[j] \in JobRows /\ jobs[j] # NoJob
  BY <1>0 DEF HoldsExactly, NoJob, JobRows
<1>2. /\ held' = [held EXCEPT ![p] = held[p] \ {j}]
      /\ UNCHANGED <<registry, pc, timers, crashes>>
  BY DEF execute_claimed_job
<1>3. PICK s \in {"COMPLETED", "PENDING", "DEAD"} :
         jobs' = [jobs EXCEPT ![j] = [jobs[j] EXCEPT !.status = s]]
  BY DEF execute_claimed_job
<1>4. PICK row : row = [jobs[j] EXCEPT !.status = s]
  OBVIOUS
<1>5. row \in JobRows /\ row.envelope = jobs[j].envelope /\ row.timer = jobs[j].timer
  <2> HIDE RoutesAssumption
  <2> QED BY <1>1, <1>4 DEF JobRows
<1>6. jobs'[j] = row /\ \A i \in Jobs \ {j} : jobs'[i] = jobs[i]
  BY <1>0, <1>3, <1>4
<1>7. RouteTables'
  <2>1. jobs' \in [Jobs -> JobRows \cup {NoJob}]
    BY <1>0, <1>3, <1>4, <1>5
  <2>2. held' \in [Processes -> SUBSET Jobs]
    BY <1>0, <1>2
  <2> QED BY <1>2, <2>1, <2>2 DEF RoutesInv, RouteTables
<1>8. \A i \in Jobs : SameJob(i)
  <2>1. row # NoJob
    BY <1>5 DEF JobRows, NoJob
  <2> QED BY <1>1, <1>5, <1>6, <2>1 DEF SameJob
<1>9. ASSUME NEW q \in Processes PROVE RegistryFits(q)' /\ HoldsExactly(q)'
  <2>1. RegistryFits(q) /\ HoldsExactly(q) /\ held'[q] \subseteq held[q]
        /\ pc'[q] = pc[q] /\ registry'[q] = registry[q]
    BY <1>0, <1>2 DEF RoutesInv
  <2>2. j \notin held'[q]
    <3>1. CASE q = p
      BY <1>0, <1>2, <3>1
    <3>2. CASE q # p
      BY <1>0, <1>2, <3>2 DEF RoutesInv, OneHolder
    <3> QED BY <3>1, <3>2
  <2>3. \A i \in held'[q] : jobs'[i] = jobs[i]
    BY <1>0, <1>6, <2>1, <2>2
  <2> QED BY <2>1, <2>3, RegistryKept, HoldsKept
<1>10. OneHolder'
  BY <1>0, <1>2 DEF RoutesInv, OneHolder
<1>11. VerifierCanClose' /\ TimersAndJobs'
  BY <1>2, <1>8, VerifierKept, TimersKept DEF RoutesInv
<1> QED BY <1>7, <1>9, <1>10, <1>11 DEF RoutesInv

LEMMA LoseRouteStep ==
    ASSUME RoutesInv, NEW j \in Jobs, LoseRoute(j)
    PROVE  RoutesInv'
<1>0. jobs[j] \in JobRows /\ jobs[j] # NoJob /\ pc \in [Processes -> Places]
      /\ crashes \in 0..MaxCrash
  BY DEF RoutesInv, RouteTables, LoseRoute, Live, NoJob, JobRows
<1>1. PICK row : row = [jobs[j] EXCEPT !.bound = FALSE]
  OBVIOUS
<1>2. /\ row \in JobRows /\ row.status = jobs[j].status
      /\ row.envelope = jobs[j].envelope /\ row.timer = jobs[j].timer
  <2> HIDE RoutesAssumption
  <2> QED BY <1>0, <1>1 DEF JobRows
<1>3. jobs' = [jobs EXCEPT ![j] = row] /\ UNCHANGED <<registry, pc, held, timers, crashes>>
  BY <1>1 DEF LoseRoute
<1> QED BY <1>0, <1>2, <1>3, UnheldRowMoves

\* A timer that has not fired.
LEMMA TimerSteps ==
    ASSUME RoutesInv, TimerStep
    PROVE  RoutesInv'
<1>0. timers \in [Timers -> TimerRows \cup {NoTimer}]
  BY DEF RoutesInv, RouteTables
<1>1. ASSUME NEW k \in Timers, NEW row \in TimerRows, timers[k].status # "FIRED",
             row.status = "SCHEDULED", timers' = [timers EXCEPT ![k] = row],
             UNCHANGED <<registry, pc, held, jobs, crashes>>
      PROVE  RoutesInv'
  <2>1. RouteTables'
    BY <1>0, <1>1 DEF RoutesInv, RouteTables
  <2>2. ASSUME NEW q \in Processes PROVE RegistryFits(q)' /\ HoldsExactly(q)'
    <3>1. RegistryFits(q) /\ HoldsExactly(q) /\ registry'[q] = registry[q]
          /\ held'[q] = held[q] /\ pc'[q] = pc[q]
      BY <1>1 DEF RoutesInv
    <3> QED BY <1>1, <3>1, RegistryKept, HoldsKept
  <2>3. OneHolder' /\ VerifierCanClose'
    BY <1>1, VerifierKept DEF RoutesInv, OneHolder
  <2>4. TimersAndJobs'
    <3>1. \A m \in Timers : timers'[m].status = "FIRED" <=> timers[m].status = "FIRED"
      BY <1>0, <1>1
    <3>2. \A i \in Jobs, m \in Timers : JobOf(i, m)' <=> JobOf(i, m)
      BY <1>1 DEF JobOf
    <3> QED BY <1>1, <3>1, <3>2 DEF RoutesInv, TimersAndJobs
  <2> QED BY <2>1, <2>2, <2>3, <2>4 DEF RoutesInv
<1>2. ASSUME NEW k \in Timers, FallDue(k) PROVE RoutesInv'
  <2>1. timers[k] \in TimerRows /\ timers[k].status = "SCHEDULED"
    BY <1>0, <1>2 DEF FallDue, NoTimer
  <2>2. PICK row : row = [timers[k] EXCEPT !.due = TRUE]
    OBVIOUS
  <2>3. row \in TimerRows /\ row.status = "SCHEDULED"
    <3> HIDE RoutesAssumption
    <3> QED BY <2>1, <2>2 DEF TimerRows
  <2> QED BY <1>1, <1>2, <2>1, <2>2, <2>3 DEF FallDue
<1>3. ASSUME NEW k \in Timers, NEW r \in TimerRoutes, Schedule(k, r) PROVE RoutesInv'
  <2>1. PICK row : row = [status |-> "SCHEDULED", route |-> r, due |-> FALSE]
    OBVIOUS
  <2>2. row \in TimerRows /\ row.status = "SCHEDULED"
    <3> HIDE RoutesAssumption
    <3> QED BY <2>1 DEF TimerRows
  <2> QED BY <1>1, <1>3, <2>1, <2>2 DEF Schedule
<1> QED BY <1>2, <1>3 DEF TimerStep

LEMMA CrashStep ==
    ASSUME RoutesInv, NEW p \in Processes, Crash(p)
    PROVE  RoutesInv'
<1>0. /\ pc \in [Processes -> Places] /\ held \in [Processes -> SUBSET Jobs]
      /\ UNCHANGED <<registry, jobs, timers>> /\ crashes' \in 0..MaxCrash
  BY DEF RoutesInv, RouteTables, Crash
<1>1. /\ pc' \in [Processes -> Places] /\ held' \in [Processes -> SUBSET Jobs]
      /\ pc'[p] = "down" /\ held'[p] = {}
      /\ \A q \in Processes \ {p} : pc'[q] = pc[q] /\ held'[q] = held[q]
  BY <1>0 DEF Crash, Goto, Places
<1>2. RouteTables'
  BY <1>0, <1>1 DEF RoutesInv, RouteTables
<1>3. ASSUME NEW q \in Processes PROVE RegistryFits(q)' /\ HoldsExactly(q)'
  <2>1. /\ RegistryFits(q) /\ HoldsExactly(q) /\ registry'[q] = registry[q]
        /\ held'[q] \subseteq held[q] /\ (pc'[q] = pc[q] \/ held'[q] = {})
        /\ (pc'[q] # "down" => pc[q] # "down")
    BY <1>0, <1>1 DEF RoutesInv
  <2> QED BY <1>0, <2>1, RegistryKept, HoldsKept
<1>4. OneHolder'
  BY <1>1 DEF RoutesInv, OneHolder
<1>5. VerifierCanClose' /\ TimersAndJobs'
  BY <1>0, VerifierKept, TimersKept DEF RoutesInv, SameJob
<1> QED BY <1>2, <1>3, <1>4, <1>5 DEF RoutesInv

-----------------------------------------------------------------------------
(***************************************************************************)
(* Theorems.                                                               *)
(***************************************************************************)
\* The tables, the registries, the hands and the timers agree in every state.
THEOREM RoutesInvariant == RoutesSpec => []RoutesInv
<1>1. RoutesInit => RoutesInv
  BY RoutesInvInit
<1>2. RoutesInv /\ [RoutesNext]_routeVars => RoutesInv'
  <2> SUFFICES ASSUME RoutesInv, [RoutesNext]_routeVars PROVE RoutesInv'
    OBVIOUS
  <2>1. ASSUME NEW p \in Processes, PollStep(p) PROVE RoutesInv'
    BY <2>1, CheckStep, ScanSteps, PromoteStep, ClaimStep, ExecuteStep, EndStep DEF PollStep
  <2>2. ASSUME NEW p \in Processes, ProcessStep(p, Offered) PROVE RoutesInv'
    BY <2>1, <2>2, BootStep, StartStep, ReplaceStep DEF ProcessStep
  <2>3. ASSUME NEW j \in Jobs, EnqueueStep(j, Envelopes) PROVE RoutesInv'
    BY <2>3, EnqueueKeeps, LoseRouteStep DEF EnqueueStep
  <2>4. CASE UNCHANGED routeVars
    <3>1. UNCHANGED <<registry, pc, held, jobs, timers, crashes>>
      BY <2>4 DEF routeVars
    <3>2. ASSUME NEW q \in Processes PROVE RegistryFits(q)' /\ HoldsExactly(q)'
      BY <3>1, RegistryKept, HoldsKept DEF RoutesInv
    <3>3. RouteTables' /\ OneHolder' /\ VerifierCanClose' /\ TimersAndJobs'
      BY <3>1, VerifierKept, TimersKept DEF RoutesInv, RouteTables, OneHolder, SameJob
    <3> QED BY <3>2, <3>3 DEF RoutesInv
  <2> QED BY <2>2, <2>3, <2>4, CrashStep, TimerSteps DEF RoutesNext
<1> QED BY <1>1, <1>2, PTL DEF RoutesSpec

\* The invariant gives the five state properties.
LEMMA RoutesInvSuffices ==
    ASSUME RoutesInv
    PROVE  /\ RoutesTypeOK /\ ServedByItsRoute /\ ClaimsAreServiceable
           /\ VerifierCanClose /\ TimerOwesOneJob
<1>1. RoutesTypeOK
  <2>1. RouteTables
    BY DEF RoutesInv
  <2>2. ASSUME NEW j \in Jobs, jobs[j] # NoJob
        PROVE  /\ jobs[j].status \in {"PENDING", "RUNNING", "COMPLETED", "DEAD"}
               /\ jobs[j].attempts \in 0..MaxAttempts /\ jobs[j].bound \in BOOLEAN
    <3>1. jobs[j] \in JobRows
      BY <2>1, <2>2 DEF RouteTables
    <3> HIDE RoutesAssumption
    <3> QED BY <3>1 DEF JobRows
  <2>3. ASSUME NEW k \in Timers PROVE timers[k].status \in {"NONE", "SCHEDULED", "FIRED"}
    <3>1. timers[k] \in TimerRows \/ timers[k] = NoTimer
      BY <2>1 DEF RouteTables
    <3> HIDE RoutesAssumption
    <3> QED BY <3>1 DEF TimerRows, NoTimer
  <2> QED BY <2>1, <2>2, <2>3, RegistryIsTyped DEF RouteTables, RoutesTypeOK, Places
<1>2. ServedByItsRoute
  BY DEF RoutesInv, HoldsExactly, Fits, ServedByItsRoute
<1>3. ClaimsAreServiceable
  BY DEF RoutesInv, HoldsExactly, ClaimsAreServiceable
<1>4. TimerOwesOneJob
  <2> SUFFICES ASSUME NEW k \in Timers, NEW made,
                      made = {j \in Jobs : jobs[j] # NoJob /\ jobs[j].timer = k}
               PROVE  /\ Cardinality(made) = IF timers[k].status = "FIRED" THEN 1 ELSE 0
                      /\ \A j \in made : jobs[j].envelope.type \notin WorkerScoped
    BY DEF TimerOwesOneJob
  <2>0. TimersAndJobs
    BY DEF RoutesInv
  <2>1. \A j \in made : j \in Jobs /\ JobOf(j, k)
    BY DEF JobOf
  <2>2. \A j \in made : timers[k].status = "FIRED" /\ jobs[j].envelope.type \notin WorkerScoped
    BY <2>0, <2>1 DEF TimersAndJobs
  <2>3. CASE timers[k].status = "FIRED"
    <3>1. PICK j \in Jobs : JobOf(j, k)
      BY <2>0, <2>3 DEF TimersAndJobs
    <3>2. j \in made
      BY <3>1 DEF JobOf
    <3>3. \A i \in made : i = j
      BY <2>0, <2>1, <3>1 DEF TimersAndJobs
    <3>4. made = {j}
      BY <3>2, <3>3
    <3> QED BY <2>2, <2>3, <3>4, FS_Singleton
  <2>4. CASE timers[k].status # "FIRED"
    <3>1. made = {}
      BY <2>2, <2>4
    <3> QED BY <2>4, <3>1, FS_EmptySet
  <2> QED BY <2>3, <2>4
<1> QED BY <1>1, <1>2, <1>3, <1>4 DEF RoutesInv

\* Every poll step moves only jobs whose exact route the process knows.
LEMMA PollTouchesKnown ==
    ASSUME RoutesInv, NEW p \in Processes, PollStep(p), NEW j \in Jobs,
           jobs[j] # NoJob, jobs'[j] # jobs[j]
    PROVE  RouteOf(jobs[j].envelope) \in Known(p)
<1>0. jobs \in [Jobs -> JobRows \cup {NoJob}]
  BY DEF RoutesInv, RouteTables
<1>1. ASSUME NEW S, NEW l, NEW n, Doom(p, S, l, n) PROVE j \in S
  <2>1. jobs' # jobs
    OBVIOUS
  <2>2. PICK i \in S : \E s \in {"DEAD", "RUNNING"} : jobs' = Exhausted(i, s)
    BY <1>1, <2>1 DEF Doom
  <2>3. j = i
    BY <1>0, <2>2 DEF Exhausted
  <2> QED BY <2>3
<1>2. CASE \/ claim_one_route_invalid_scoped_job(p)
           \/ claim_one_orphaned_exhausted_job(p)
           \/ claim_one_known_unserviceable_due_job(p)
  <2>1. pc[p] # "down"
    BY <1>2 DEF claim_one_route_invalid_scoped_job, claim_one_orphaned_exhausted_job,
                claim_one_known_unserviceable_due_job, Doom
  <2>2. j \in RouteInvalid(p) \/ j \in Orphaned(p) \/ j \in KnownUnserviceable(p)
    BY <1>1, <1>2 DEF claim_one_route_invalid_scoped_job, claim_one_orphaned_exhausted_job,
                      claim_one_known_unserviceable_due_job
  <2> QED BY <2>1, <2>2, ScannedIsKnown
<1>3. CASE promote_due_timers(p)
  <2>1. PICK k \in Promotable(p), i \in Jobs : promote_timer(k, i)
    BY <1>3 DEF promote_due_timers
  <2>2. jobs[i] = NoJob /\ \A m \in Jobs \ {i} : jobs'[m] = jobs[m]
    BY <1>0, <2>1 DEF promote_timer
  <2> QED BY <2>2
<1>4. CASE claim_ready_jobs(p)
  <2>1. j \in Claimable(p)
    BY <1>0, <1>4 DEF claim_ready_jobs
  <2> QED BY <2>1, ClaimedMatch, FitsIsKnown
<1>5. ASSUME NEW i \in Jobs, execute_claimed_job(p, i)
      PROVE  RouteOf(jobs[j].envelope) \in Known(p)
  <2>1. j = i /\ j \in held[p]
    BY <1>0, <1>5 DEF execute_claimed_job
  <2>2. Fits(p, jobs[j].envelope)
    BY <2>1 DEF RoutesInv, HoldsExactly
  <2> QED BY <2>2, FitsIsKnown
<1> QED BY <1>2, <1>3, <1>4, <1>5
        DEF PollStep, reject_unknown_or_incompatible_due_job, EndOfPoll

\* A job runs only under the handler of its exact type, contract and worker;
\* nobody stops with claims in hand; a verifier can close; a timer owes one
\* job; and a poll leaves another build's jobs as they are.
THEOREM RoutesStayKept == RoutesSpec => RoutesAreKept
<1>1. RoutesInv => /\ RoutesTypeOK
                   /\ ServedByItsRoute
                   /\ ClaimsAreServiceable
                   /\ VerifierCanClose
                   /\ TimerOwesOneJob
  BY RoutesInvSuffices
<1>2. RoutesInv => \A p \in Processes : PollStep(p) => \A j \in Jobs :
          jobs[j] # NoJob /\ jobs'[j] # jobs[j] => RouteOf(jobs[j].envelope) \in Known(p)
  BY PollTouchesKnown
<1> QED BY <1>1, <1>2, RoutesInvariant, PTL DEF RoutesAreKept, UnknownIsUntouched
=============================================================================
