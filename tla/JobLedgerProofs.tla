-------------------------- MODULE JobLedgerProofs --------------------------
(***************************************************************************)
(* Theorems about JobLedger, for every set of jobs, reactors and effects,  *)
(* every attempt budget, lease length, batch size and route table.         *)
(***************************************************************************)
EXTENDS JobLedger, TLAPS

(***************************************************************************)
(* The strengthening: a claim some process remembers never carries a fence *)
(* the job has not reached yet.  Without it a new fence could collide with *)
(* a remembered one.                                                       *)
(***************************************************************************)
FencesArePast ==
    \A r \in Reactors : \A c \in tasks[r] : c.fence <= fence[c.job]

(***************************************************************************)
(* The same for attempts: a claim whose handler runs carries an attempt    *)
(* within the budget that the row has counted already.                     *)
(***************************************************************************)
AttemptsArePast ==
    \A r \in Reactors : \A c \in tasks[r] : ~c.doomed =>
        c.attempt \in 1..MaxAttempts[c.job] /\ c.attempt <= attempts[c.job]

\* The invariant that is inductive.
IInv ==
    /\ TypeOK /\ FencesArePast /\ ClaimsAreUnique /\ InFlightCitesExactClaim
    /\ AttemptsArePast /\ AttemptBudget

USE MaxAttemptsAssumption, BoundsAssumption, RoutesAssumption, NullsAssumption

\* The row an effect is left with when its claim is released or settled.
LEMMA UnownedIsRow ==
    ASSUME NEW s \in EffectStatus
    PROVE  Unowned(s) \in EffectRow
BY DEF Unowned, EffectRow

\* The four claiming statements keep the types.
LEMMA RefenceType ==
    ASSUME TypeOK, NEW r \in Reactors, NEW S \in SUBSET Jobs,
           NEW count \in [Jobs -> Nat], NEW d \in BOOLEAN,
           Refence(r, S, count, d)
    PROVE  TypeOK'
<1>1. status' \in [Jobs -> JobStatus]
  BY DEF TypeOK, Refence, JobStatus
<1>2. attempts' \in [Jobs -> Nat]
  BY DEF TypeOK, Refence
<1>3. fence' \in [Jobs -> Nat]
  BY DEF TypeOK, Refence, NextFence
<1>4. owner' \in [Jobs -> Reactors \cup {NoOwner}]
  BY DEF TypeOK, Refence
<1>5. lease' \in [Jobs -> 0..LeaseTicks]
  BY DEF TypeOK, Refence
<1>6. effect' \in [Effects -> EffectRow]
  <2>1. Unowned("AMBIGUOUS") \in EffectRow
    BY UnownedIsRow DEF EffectStatus
  <2> QED BY <2>1 DEF TypeOK, Refence, ReleasedEffects
<1>7. tasks' \in [Reactors -> SUBSET Claim]
  <2> DEFINE new == {[job |-> j, fence |-> NextFence(j),
                      attempt |-> count[j], doomed |-> d] : j \in S}
  <2>1. new \in SUBSET Claim
    BY DEF TypeOK, Claim, NextFence
  <2>2. tasks' = [tasks EXCEPT ![r] = new]
    BY DEF Refence
  <2> QED BY <2>1, <2>2 DEF TypeOK
<1>8. due' \in [Jobs -> BOOLEAN]
  BY DEF TypeOK, Refence
<1>9. \A j \in Jobs : status'[j] = "RUNNING" <=> owner'[j] \in Reactors
  BY DEF TypeOK, Refence
<1> QED BY <1>1, <1>2, <1>3, <1>4, <1>5, <1>6, <1>7, <1>8, <1>9 DEF TypeOK

\* A claimant's settling transaction keeps the types, given those of the
\* effects it may touch.
LEMMA SettleType ==
    ASSUME TypeOK, NEW r \in Reactors, NEW c \in tasks[r],
           NEW s \in JobStatus \ {"RUNNING"}, NEW N \in SUBSET Jobs, Settle(r, c, s, N),
           effect' \in [Effects -> EffectRow]
    PROVE  TypeOK'
<1>1. c \in Claim /\ c.job \in Jobs
  BY DEF TypeOK, Claim
<1>2. tasks' \in [Reactors -> SUBSET Claim]
  BY DEF TypeOK, Settle
<1>3. status' \in [Jobs -> JobStatus] /\ owner' \in [Jobs -> Reactors \cup {NoOwner}]
  BY <1>1 DEF TypeOK, Settle, JobStatus
<1>4. lease' \in [Jobs -> 0..LeaseTicks]
  BY <1>1 DEF TypeOK, Settle
<1>5. due' \in [Jobs -> BOOLEAN]
  BY <1>1 DEF TypeOK, Settle
<1>6. \A j \in Jobs : status'[j] = "RUNNING" <=> owner'[j] \in Reactors
  BY <1>1 DEF TypeOK, Settle, LiveClaim
<1>7. attempts' \in [Jobs -> Nat] /\ fence' \in [Jobs -> Nat]
  BY DEF TypeOK, Settle
<1> QED BY <1>2, <1>3, <1>4, <1>5, <1>6, <1>7 DEF TypeOK

\* What a claiming statement leaves in attempt_count: never less than before,
\* and for a claim that will run, one more within the budget.
Counts(S, count, d) ==
    \A j \in S : /\ count[j] >= attempts[j]
                 /\ ~d => count[j] = attempts[j] + 1 /\ count[j] <= MaxAttempts[j]

\* Every claiming statement is a re-fencing of due jobs by an idle reactor.
LEMMA ClaimStepIsRefence ==
    ASSUME TypeOK, NEW r \in Reactors, ClaimStep(r)
    PROVE  /\ tasks[r] = {}
           /\ \E S \in SUBSET Jobs, count \in [Jobs -> Nat], d \in BOOLEAN :
                  Refence(r, S, count, d) /\ (\A j \in S : Due(j)) /\ Counts(S, count, d)
<1> DEFINE Goal == /\ tasks[r] = {}
                   /\ \E S \in SUBSET Jobs, count \in [Jobs -> Nat], d \in BOOLEAN :
                          /\ Refence(r, S, count, d) /\ (\A j \in S : Due(j))
                          /\ Counts(S, count, d)
<1>1. Incremented \in [Jobs -> Nat] /\ Exhausted \in [Jobs -> Nat] /\ attempts \in [Jobs -> Nat]
  BY DEF TypeOK, Incremented, Exhausted
<1>2. CASE ClaimReadyJobs(r)
  <2>1. tasks[r] = {}
    BY <1>2 DEF ClaimReadyJobs
  <2>2. PICK S \in SUBSET {j \in Jobs : Claimable(r, j)} : Refence(r, S, Incremented, FALSE)
    BY <1>2 DEF ClaimReadyJobs
  <2>3. S \in SUBSET Jobs /\ FALSE \in BOOLEAN /\ \A j \in S : Due(j)
    BY DEF Claimable
  <2>4. Counts(S, Incremented, FALSE)
    BY DEF Counts, Incremented, Claimable, TypeOK
  <2> QED BY <1>1, <2>1, <2>2, <2>3, <2>4, Zenon
<1>3. ASSUME NEW j \in Jobs, ClaimRouteInvalid(r, j) PROVE Goal
  <2>1. {j} \in SUBSET Jobs /\ TRUE \in BOOLEAN
    OBVIOUS
  <2>2. tasks[r] = {} /\ Refence(r, {j}, Exhausted, TRUE) /\ \A k \in {j} : Due(k)
    BY <1>3 DEF ClaimRouteInvalid
  <2>3. Counts({j}, Exhausted, TRUE)
    BY DEF Counts, Exhausted, TypeOK
  <2> QED BY <1>1, <2>1, <2>2, <2>3, Zenon
<1>4. ASSUME NEW j \in Jobs, ClaimOrphanedExhausted(r, j) PROVE Goal
  <2>1. {j} \in SUBSET Jobs /\ TRUE \in BOOLEAN
    OBVIOUS
  <2>2. tasks[r] = {} /\ Refence(r, {j}, attempts, TRUE) /\ \A k \in {j} : Due(k)
    BY <1>4 DEF ClaimOrphanedExhausted, Orphaned, Due
  <2>3. Counts({j}, attempts, TRUE)
    BY DEF Counts, TypeOK
  <2> QED BY <1>1, <2>1, <2>2, <2>3, Zenon
<1>5. ASSUME NEW j \in Jobs, ClaimKnownUnserviceable(r, j) PROVE Goal
  <2>1. {j} \in SUBSET Jobs /\ TRUE \in BOOLEAN
    OBVIOUS
  <2>2. tasks[r] = {} /\ Refence(r, {j}, Exhausted, TRUE) /\ \A k \in {j} : Due(k)
    BY <1>5 DEF ClaimKnownUnserviceable
  <2>3. Counts({j}, Exhausted, TRUE)
    BY DEF Counts, Exhausted, TypeOK
  <2> QED BY <1>1, <2>1, <2>2, <2>3, Zenon
<1> QED BY <1>2, <1>3, <1>4, <1>5 DEF ClaimStep

\* The empty ledger has the types.
LEMMA InitType == Init => TypeOK
BY UnownedIsRow DEF Init, TypeOK, JobStatus, EffectStatus

\* Every step keeps the types.
LEMMA TypeStep == TypeOK /\ [Next]_vars => TypeOK'
<1> SUFFICES ASSUME TypeOK, [Next]_vars PROVE TypeOK'
  OBVIOUS
<1>1. ASSUME NEW j \in Jobs, TimeStep(j) PROVE TypeOK'
  <2>1. CASE EnqueueJob(j)
    BY <2>1 DEF TypeOK, EnqueueJob, JobStatus
  <2>2. CASE BecomeDue(j)
    BY <2>2 DEF TypeOK, BecomeDue
  <2>3. CASE LeaseTick(j)
    BY <2>3 DEF TypeOK, LeaseTick
  <2> QED BY <1>1, <2>1, <2>2, <2>3 DEF TimeStep
<1>2. ASSUME NEW r \in Reactors, ClaimStep(r) PROVE TypeOK'
  BY <1>2, ClaimStepIsRefence, RefenceType
<1>3. ASSUME NEW r \in Reactors, PollAborts(r) PROVE TypeOK'
  BY <1>3 DEF TypeOK, PollAborts, jobVars
<1>4. ASSUME NEW r \in Reactors, NEW c \in tasks[r], HolderStep(r, c) PROVE TypeOK'
  <2>0. c \in Claim /\ c.job \in Jobs /\ c.fence \in Nat
    BY DEF TypeOK, Claim
  <2>1. CASE RenewJobLease(r, c)
    BY <2>0, <2>1 DEF TypeOK, RenewJobLease
  <2>2. ASSUME NEW N \in SUBSET Jobs, CompleteJob(r, c, N) PROVE TypeOK'
    <3>1. Settle(r, c, "COMPLETED", N) /\ effect' \in [Effects -> EffectRow]
      BY <2>2 DEF TypeOK, CompleteJob
    <3> QED BY <3>1, SettleType DEF JobStatus
  <2>3. CASE FailJob(r, c)
    <3>1. Settle(r, c, "RETRY", {}) /\ effect' \in [Effects -> EffectRow]
      BY <2>3 DEF TypeOK, FailJob
    <3> QED BY <3>1, SettleType DEF JobStatus
  <2>4. CASE DeadLetter(r, c) \/ FailTerminally(r, c)
    <3>1. Settle(r, c, "DEAD", {}) /\ effect' \in [Effects -> EffectRow]
      BY <2>4 DEF TypeOK, DeadLetter, FailTerminally
    <3> QED BY <3>1, SettleType DEF JobStatus
  <2>5. CASE ClaimRefused(r, c)
    BY <2>5 DEF TypeOK, ClaimRefused, jobVars
  <2>6. ASSUME NEW e \in Effects, BeginEffect(r, c, e) PROVE TypeOK'
    <3>1. [status |-> "IN_FLIGHT", job |-> c.job, owner |-> r, fence |-> c.fence] \in EffectRow
      BY <2>0 DEF EffectRow, EffectStatus
    <3> QED BY <2>6, <3>1 DEF TypeOK, BeginEffect, jobVars
  <2>7. ASSUME NEW e \in Effects, NEW s \in {"FAILED", "AMBIGUOUS"}, ReleaseEffect(r, c, e, s)
        PROVE  TypeOK'
    <3>1. Unowned(s) \in EffectRow
      BY UnownedIsRow DEF EffectStatus
    <3> QED BY <2>7, <3>1 DEF TypeOK, ReleaseEffect, jobVars
  <2>8. ASSUME NEW e \in Effects, NEW N \in SUBSET Jobs, ObserveEffect(r, c, e, N)
        PROVE  TypeOK'
    <3>1. Unowned("OBSERVED") \in EffectRow
      BY UnownedIsRow DEF EffectStatus
    <3>2. Settle(r, c, "COMPLETED", N) /\ effect' \in [Effects -> EffectRow]
      BY <2>8, <3>1 DEF TypeOK, ObserveEffect
    <3> QED BY <3>2, SettleType DEF JobStatus
  <2> QED BY <1>4, <2>1, <2>2, <2>3, <2>4, <2>5, <2>6, <2>7, <2>8 DEF HolderStep
<1>5. CASE UNCHANGED vars
  BY <1>5 DEF TypeOK, vars
<1> QED BY <1>1, <1>2, <1>3, <1>4, <1>5 DEF Next

----------------------------------------------------------------------------
(* What a step does to the remembered claims.  A step that is not a claim  *)
(* only forgets tasks and leaves every fence and attempt count alone.      *)

Forgets ==
    /\ fence' = fence /\ attempts' = attempts
    /\ \A r \in Reactors : tasks'[r] \subseteq tasks[r]

\* Every step but a claim is such a step.
LEMMA OtherStepsForget ==
    ASSUME TypeOK, Next, ~\E r \in Reactors : ClaimStep(r)
    PROVE  Forgets
<1>1. ASSUME NEW j \in Jobs, TimeStep(j) PROVE Forgets
  BY <1>1 DEF Forgets, TimeStep, EnqueueJob, BecomeDue, LeaseTick
<1>2. ASSUME NEW r \in Reactors, PollAborts(r) PROVE Forgets
  BY <1>2 DEF TypeOK, Forgets, PollAborts, jobVars
<1>3. ASSUME NEW r \in Reactors, NEW c \in tasks[r], HolderStep(r, c) PROVE Forgets
  <2>1. ASSUME NEW s, NEW N, Settle(r, c, s, N) PROVE Forgets
    BY <2>1 DEF TypeOK, Forgets, Settle
  <2>2. CASE RenewJobLease(r, c)
    BY <2>2 DEF Forgets, RenewJobLease
  <2>3. CASE ClaimRefused(r, c)
    BY <2>3 DEF TypeOK, Forgets, ClaimRefused, jobVars
  <2>4. ASSUME NEW e \in Effects, BeginEffect(r, c, e) PROVE Forgets
    BY <2>4 DEF Forgets, BeginEffect, jobVars
  <2>5. ASSUME NEW e \in Effects, NEW s, ReleaseEffect(r, c, e, s) PROVE Forgets
    BY <2>5 DEF Forgets, ReleaseEffect, jobVars
  <2> QED BY <1>3, <2>1, <2>2, <2>3, <2>4, <2>5
          DEF HolderStep, CompleteJob, FailJob, DeadLetter, FailTerminally, ObserveEffect
<1> QED BY <1>1, <1>2, <1>3 DEF Next

\* Claims stay unique and no remembered fence is ahead of its job: a claim
\* takes a fence larger than any that was handed out for the job before.
LEMMA ClaimsStep ==
    TypeOK /\ FencesArePast /\ ClaimsAreUnique /\ [Next]_vars
        => FencesArePast' /\ ClaimsAreUnique'
<1> SUFFICES ASSUME TypeOK, FencesArePast, ClaimsAreUnique, [Next]_vars
             PROVE  FencesArePast' /\ ClaimsAreUnique'
  OBVIOUS
<1>0. \A r \in Reactors : \A c \in tasks[r] : c \in Claim /\ c.job \in Jobs
  BY DEF TypeOK, Claim
<1>1. CASE Forgets
  BY <1>0, <1>1 DEF Forgets, FencesArePast, ClaimsAreUnique
<1>2. ASSUME NEW r \in Reactors, ClaimStep(r) PROVE FencesArePast' /\ ClaimsAreUnique'
  <2>1. PICK S \in SUBSET Jobs, count \in [Jobs -> Nat], d \in BOOLEAN :
            Refence(r, S, count, d) /\ \A j \in S : Due(j)
    BY <1>2, ClaimStepIsRefence
  <2> DEFINE mine == {[job |-> j, fence |-> NextFence(j),
                       attempt |-> count[j], doomed |-> d] : j \in S}
  <2>2. tasks' = [tasks EXCEPT ![r] = mine] /\ tasks'[r] = mine
    BY <2>1 DEF TypeOK, Refence
  <2>3. \A q \in Reactors \ {r} : tasks'[q] = tasks[q]
    BY <2>2 DEF TypeOK
  <2>4. \A j \in Jobs : /\ fence[j] \in Nat
                        /\ fence'[j] = IF j \in S THEN fence[j] + 1 ELSE fence[j]
    BY <2>1 DEF TypeOK, Refence, NextFence
  <2>5. \A c \in mine : c.job \in S /\ c.fence = fence[c.job] + 1
    BY <2>4 DEF NextFence
  <2>6. \A c1, c2 \in mine : c1.job = c2.job => c1 = c2
    BY DEF NextFence
  <2>7. FencesArePast'
    <3>1. \A q \in Reactors \ {r} : \A c \in tasks'[q] : c.fence <= fence'[c.job]
      BY <1>0, <2>3, <2>4 DEF FencesArePast, Claim
    <3>2. \A c \in tasks'[r] : c.fence <= fence'[c.job]
      BY <2>2, <2>4, <2>5
    <3> QED BY <3>1, <3>2 DEF FencesArePast
  <2>8. ClaimsAreUnique'
    <3> SUFFICES ASSUME NEW r1 \in Reactors, NEW r2 \in Reactors,
                        NEW c1 \in tasks'[r1], NEW c2 \in tasks'[r2],
                        c1.job = c2.job, c1.fence = c2.fence
                 PROVE  r1 = r2 /\ c1 = c2
      BY DEF ClaimsAreUnique
    <3>1. CASE r1 = r /\ r2 = r
      BY <2>2, <2>6, <3>1
    <3>2. CASE r1 # r /\ r2 # r
      BY <2>3, <3>2 DEF ClaimsAreUnique
    <3>3. CASE r1 = r /\ r2 # r
      <4>1. c1.fence = fence[c1.job] + 1 /\ c1.job \in Jobs
        BY <2>2, <2>5, <3>3
      <4>2. c2.fence <= fence[c2.job]
        BY <2>3, <3>3 DEF FencesArePast
      <4> QED BY <2>4, <4>1, <4>2
    <3>4. CASE r1 # r /\ r2 = r
      <4>1. c2.fence = fence[c2.job] + 1 /\ c2.job \in Jobs
        BY <2>2, <2>5, <3>4
      <4>2. c1.fence <= fence[c1.job]
        BY <2>3, <3>4 DEF FencesArePast
      <4> QED BY <2>4, <4>1, <4>2
    <3> QED BY <3>1, <3>2, <3>3, <3>4
  <2> QED BY <2>7, <2>8
<1>3. CASE UNCHANGED vars
  BY <1>3 DEF vars, FencesArePast, ClaimsAreUnique
<1> QED BY <1>1, <1>2, <1>3, OtherStepsForget

\* Attempts stay within the budget and distinct: a claim that runs counts an
\* attempt larger than any that was handed out for the job before.
LEMMA AttemptsStep ==
    TypeOK /\ AttemptsArePast /\ AttemptBudget /\ [Next]_vars
        => AttemptsArePast' /\ AttemptBudget'
<1> SUFFICES ASSUME TypeOK, AttemptsArePast, AttemptBudget, [Next]_vars
             PROVE  AttemptsArePast' /\ AttemptBudget'
  OBVIOUS
<1>0. \A r \in Reactors : \A c \in tasks[r] :
          c.job \in Jobs /\ c.attempt \in Nat /\ c.doomed \in BOOLEAN
  BY DEF TypeOK, Claim
<1>1. CASE Forgets
  BY <1>0, <1>1 DEF Forgets, AttemptsArePast, AttemptBudget
<1>2. ASSUME NEW r \in Reactors, ClaimStep(r) PROVE AttemptsArePast' /\ AttemptBudget'
  <2>1. PICK S \in SUBSET Jobs, count \in [Jobs -> Nat], d \in BOOLEAN :
            Refence(r, S, count, d) /\ Counts(S, count, d)
    BY <1>2, ClaimStepIsRefence
  <2> DEFINE mine == {[job |-> j, fence |-> NextFence(j),
                       attempt |-> count[j], doomed |-> d] : j \in S}
  <2>2. tasks' = [tasks EXCEPT ![r] = mine] /\ tasks'[r] = mine
    BY <2>1 DEF TypeOK, Refence
  <2>3. \A q \in Reactors \ {r} : tasks'[q] = tasks[q]
    BY <2>2 DEF TypeOK
  <2>4. \A j \in Jobs : /\ attempts[j] \in Nat /\ attempts'[j] \in Nat
                        /\ attempts'[j] >= attempts[j]
                        /\ j \in S => attempts'[j] = count[j]
    BY <2>1 DEF TypeOK, Refence, Counts
  <2>5. \A c \in mine : /\ c.job \in S /\ c.attempt = count[c.job]
                        /\ ~c.doomed => /\ c.attempt = attempts[c.job] + 1
                                        /\ c.attempt <= MaxAttempts[c.job]
    BY <2>1 DEF Counts
  <2>6. \A c1, c2 \in mine : c1.job = c2.job => c1 = c2
    BY DEF NextFence
  <2>7. AttemptsArePast'
    <3>1. \A q \in Reactors \ {r} : \A c \in tasks'[q] : ~c.doomed =>
              c.attempt \in 1..MaxAttempts[c.job] /\ c.attempt <= attempts'[c.job]
      <4> SUFFICES ASSUME NEW q \in Reactors \ {r}, NEW c \in tasks'[q], ~c.doomed
                   PROVE  c.attempt \in 1..MaxAttempts[c.job]
                          /\ c.attempt <= attempts'[c.job]
        OBVIOUS
      <4>1. c \in tasks[q] /\ c.job \in Jobs /\ c.attempt \in Nat
        BY <1>0, <2>3
      <4>2. c.attempt \in 1..MaxAttempts[c.job] /\ c.attempt <= attempts[c.job]
        BY <4>1 DEF AttemptsArePast
      <4>3. /\ attempts[c.job] \in Nat /\ attempts'[c.job] \in Nat
            /\ attempts[c.job] <= attempts'[c.job]
        BY <2>4, <4>1
      <4> QED BY <4>1, <4>2, <4>3
    <3>2. \A c \in tasks'[r] : ~c.doomed =>
              c.attempt \in 1..MaxAttempts[c.job] /\ c.attempt <= attempts'[c.job]
      <4> SUFFICES ASSUME NEW c \in tasks'[r], ~c.doomed
                   PROVE  c.attempt \in 1..MaxAttempts[c.job]
                          /\ c.attempt <= attempts'[c.job]
        OBVIOUS
      <4>1. /\ c.job \in S /\ c.attempt = count[c.job]
            /\ c.attempt = attempts[c.job] + 1 /\ c.attempt <= MaxAttempts[c.job]
        BY <2>2, <2>5
      <4>2. attempts[c.job] \in Nat /\ attempts'[c.job] = count[c.job]
        BY <2>4, <4>1
      <4>3. MaxAttempts[c.job] \in Nat
        BY <4>1, MaxAttemptsAssumption
      <4>4. c.attempt \in 1..MaxAttempts[c.job]
        BY <4>1, <4>2, <4>3
      <4>5. attempts'[c.job] = c.attempt /\ c.attempt \in Nat
        BY <4>1, <4>2
      <4> QED BY <4>4, <4>5
    <3> QED BY <3>1, <3>2 DEF AttemptsArePast
  <2>8. AttemptBudget'
    <3> SUFFICES ASSUME NEW r1 \in Reactors, NEW r2 \in Reactors,
                        NEW c1 \in tasks'[r1], NEW c2 \in tasks'[r2],
                        ~c1.doomed, ~c2.doomed, c1.job = c2.job
                 PROVE  /\ c1.attempt \in 1..MaxAttempts[c1.job]
                        /\ c1.attempt = c2.attempt => c1.fence = c2.fence
      BY DEF AttemptBudget
    <3>1. CASE r1 = r /\ r2 = r
      BY <2>2, <2>6, <2>7, <3>1 DEF AttemptsArePast
    <3>2. CASE r1 # r /\ r2 # r
      BY <2>3, <3>2 DEF AttemptBudget
    <3>3. CASE r1 = r /\ r2 # r
      <4>1. c1.attempt = attempts[c1.job] + 1 /\ c1.job \in Jobs
        BY <2>2, <2>5, <3>3
      <4>2. c2.attempt <= attempts[c1.job] /\ c2.attempt \in Nat
        BY <1>0, <2>3, <3>3 DEF AttemptsArePast
      <4>3. attempts[c1.job] \in Nat
        BY <2>4, <4>1
      <4>4. c1.attempt # c2.attempt
        BY <4>1, <4>2, <4>3
      <4> QED BY <2>7, <4>4 DEF AttemptsArePast
    <3>4. CASE r1 # r /\ r2 = r
      <4>1. c2.attempt = attempts[c1.job] + 1 /\ c1.job \in Jobs
        BY <2>2, <2>5, <3>4
      <4>2. c1.attempt <= attempts[c1.job] /\ c1.attempt \in Nat
        BY <1>0, <2>3, <3>4 DEF AttemptsArePast
      <4>3. attempts[c1.job] \in Nat
        BY <2>4, <4>1
      <4>4. c1.attempt # c2.attempt
        BY <4>1, <4>2, <4>3
      <4> QED BY <2>7, <4>4 DEF AttemptsArePast
    <3> QED BY <3>1, <3>2, <3>3, <3>4
  <2> QED BY <2>7, <2>8
<1>3. CASE UNCHANGED vars
  BY <1>3 DEF vars, AttemptsArePast, AttemptBudget
<1> QED BY <1>1, <1>2, <1>3, OtherStepsForget

----------------------------------------------------------------------------
(* The exact-claim foreign key, per statement.                             *)

\* A settling statement that no other effect cites keeps the foreign key:
\* e is the one effect the statement itself takes out of IN_FLIGHT, if any.
LEMMA SettleKeepsCitations ==
    ASSUME TypeOK, InFlightCitesExactClaim, NEW r \in Reactors, NEW c \in tasks[r],
           NEW s, NEW N, Settle(r, c, s, N),
           \A e \in Effects : effect'[e].status = "IN_FLIGHT" =>
               effect'[e] = effect[e] /\ e \notin Citing(c.job)
    PROVE  InFlightCitesExactClaim'
<1> SUFFICES ASSUME NEW e \in Effects, effect'[e].status = "IN_FLIGHT"
             PROVE  LET j == effect'[e].job
                    IN  /\ j \in Jobs
                        /\ status'[j] = "RUNNING"
                        /\ owner'[j] = effect'[e].owner
                        /\ fence'[j] = effect'[e].fence
  BY DEF InFlightCitesExactClaim
<1>1. effect'[e] = effect[e] /\ effect[e].job # c.job
  BY DEF Citing
<1>2. effect[e].job \in Jobs /\ status[effect[e].job] = "RUNNING"
      /\ owner[effect[e].job] = effect[e].owner /\ fence[effect[e].job] = effect[e].fence
  BY <1>1 DEF InFlightCitesExactClaim
<1> QED BY <1>1, <1>2 DEF TypeOK, Settle

\* A claiming statement keeps it because it first releases the effect that
\* cites the expired claim.
LEMMA RefenceKeepsCitations ==
    ASSUME TypeOK, InFlightCitesExactClaim, NEW r \in Reactors, NEW S \in SUBSET Jobs,
           NEW count, NEW d, Refence(r, S, count, d), \A j \in S : Due(j)
    PROVE  InFlightCitesExactClaim'
<1> SUFFICES ASSUME NEW e \in Effects, effect'[e].status = "IN_FLIGHT"
             PROVE  LET j == effect'[e].job
                    IN  /\ j \in Jobs
                        /\ status'[j] = "RUNNING"
                        /\ owner'[j] = effect'[e].owner
                        /\ fence'[j] = effect'[e].fence
  BY DEF InFlightCitesExactClaim
<1>1. effect'[e] = effect[e]
  BY DEF Refence, ReleasedEffects, Unowned
<1>2. effect[e].job \in Jobs /\ status[effect[e].job] = "RUNNING"
      /\ owner[effect[e].job] = effect[e].owner /\ fence[effect[e].job] = effect[e].fence
  BY <1>1 DEF InFlightCitesExactClaim
<1>3. effect[e].job \notin S
  <2> SUFFICES ASSUME effect[e].job \in S PROVE FALSE
    OBVIOUS
  <2>1. Expired(effect[e].job)
    BY <1>2 DEF Due
  <2>2. effect'[e] = Unowned("AMBIGUOUS")
    BY <1>1, <2>1 DEF Refence, ReleasedEffects
  <2> QED BY <2>2 DEF Unowned
<1> QED BY <1>1, <1>2, <1>3 DEF Refence

\* Every step keeps it.
LEMMA CitationsStep ==
    TypeOK /\ InFlightCitesExactClaim /\ [Next]_vars => InFlightCitesExactClaim'
<1> SUFFICES ASSUME TypeOK, InFlightCitesExactClaim, [Next]_vars
             PROVE  InFlightCitesExactClaim'
  OBVIOUS
<1>1. ASSUME NEW j \in Jobs, TimeStep(j) PROVE InFlightCitesExactClaim'
  <2>1. CASE EnqueueJob(j)
    BY <2>1 DEF TypeOK, InFlightCitesExactClaim, EnqueueJob
  <2>2. CASE BecomeDue(j) \/ LeaseTick(j)
    BY <2>2 DEF InFlightCitesExactClaim, BecomeDue, LeaseTick
  <2> QED BY <1>1, <2>1, <2>2 DEF TimeStep
<1>2. ASSUME NEW r \in Reactors, ClaimStep(r) PROVE InFlightCitesExactClaim'
  BY <1>2, ClaimStepIsRefence, RefenceKeepsCitations
<1>3. ASSUME NEW r \in Reactors, PollAborts(r) PROVE InFlightCitesExactClaim'
  BY <1>3 DEF InFlightCitesExactClaim, PollAborts, jobVars
<1>4. ASSUME NEW r \in Reactors, NEW c \in tasks[r], HolderStep(r, c)
      PROVE  InFlightCitesExactClaim'
  <2>0. c.job \in Jobs /\ c.fence \in Nat
    BY DEF TypeOK, Claim
  <2>1. CASE RenewJobLease(r, c) \/ ClaimRefused(r, c)
    BY <2>1 DEF InFlightCitesExactClaim, RenewJobLease, ClaimRefused, jobVars
  <2>2. ASSUME NEW s, NEW N, Settle(r, c, s, N), Citing(c.job) = {}, UNCHANGED effect
        PROVE  InFlightCitesExactClaim'
    BY <2>2, SettleKeepsCitations
  <2>3. ASSUME NEW e \in Effects, BeginEffect(r, c, e) PROVE InFlightCitesExactClaim'
    BY <2>0, <2>3 DEF TypeOK, InFlightCitesExactClaim, BeginEffect, LiveClaim, jobVars
  <2>4. ASSUME NEW e \in Effects, NEW s \in {"FAILED", "AMBIGUOUS"}, ReleaseEffect(r, c, e, s)
        PROVE  InFlightCitesExactClaim'
    BY <2>4 DEF TypeOK, InFlightCitesExactClaim, ReleaseEffect, Unowned, jobVars
  <2>5. ASSUME NEW e \in Effects, NEW N, ObserveEffect(r, c, e, N)
        PROVE  InFlightCitesExactClaim'
    <3>1. effect' = [effect EXCEPT ![e] = Unowned("OBSERVED")] /\ Citing(c.job) \subseteq {e}
          /\ Settle(r, c, "COMPLETED", N)
      BY <2>5 DEF ObserveEffect
    <3>2. \A f \in Effects : effect'[f].status = "IN_FLIGHT" =>
              effect'[f] = effect[f] /\ f \notin Citing(c.job)
      BY <3>1 DEF TypeOK, Unowned
    <3> QED BY <3>1, <3>2, SettleKeepsCitations
  <2> QED BY <1>4, <2>1, <2>2, <2>3, <2>4, <2>5
          DEF HolderStep, CompleteJob, FailJob, DeadLetter, FailTerminally
<1>5. CASE UNCHANGED vars
  BY <1>5 DEF InFlightCitesExactClaim, vars
<1> QED BY <1>1, <1>2, <1>3, <1>4, <1>5 DEF Next

----------------------------------------------------------------------------
(* The theorems.                                                           *)

\* Type correctness of the ledger, including the lease CHECK of
\* workflow_jobs, for every instance.
THEOREM TypeCorrect == Spec => []TypeOK
BY InitType, TypeStep, PTL DEF Spec

\* The empty ledger satisfies them all.
LEMMA InitInv == Init => IInv
<1>1. Init => FencesArePast /\ ClaimsAreUnique
  BY DEF Init, FencesArePast, ClaimsAreUnique
<1>2. Init => AttemptsArePast /\ AttemptBudget
  BY DEF Init, AttemptsArePast, AttemptBudget
<1>3. Init => InFlightCitesExactClaim
  BY DEF Init, InFlightCitesExactClaim, Unowned
<1> QED BY <1>1, <1>2, <1>3, InitType DEF IInv

\* The invariants are inductive together.
LEMMA InvStep == IInv /\ [Next]_vars => IInv'
BY TypeStep, ClaimsStep, AttemptsStep, CitationsStep DEF IInv

\* The ledger's inductive invariant holds in every reachable state.
THEOREM InductiveInvariant == Spec => []IInv
BY InitInv, InvStep, PTL DEF Spec

\* A fence token names one claim of one reactor, for ever.
THEOREM FenceNamesOneClaim == Spec => []ClaimsAreUnique
<1>1. IInv => ClaimsAreUnique
  BY DEF IInv
<1> QED BY <1>1, InductiveInvariant, PTL

\* However often a job is claimed, lost and re-fenced, its handler is started
\* within its budget, and no attempt number is used twice.
THEOREM BudgetIsKept == Spec => []AttemptBudget
<1>1. IInv => AttemptBudget
  BY DEF IInv
<1> QED BY <1>1, InductiveInvariant, PTL

\* No statement of the ledger leaves an IN_FLIGHT effect behind a claim that
\* moved on.
THEOREM NoStrandedEffect == Spec => []InFlightCitesExactClaim
<1>1. IInv => InFlightCitesExactClaim
  BY DEF IInv
<1> QED BY <1>1, InductiveInvariant, PTL

\* An expired or superseded claimant commits nothing, and a live lease is
\* never taken over.
THEOREM StaleClaimantIsFenced == Spec => OnlyLiveHolderSettles
<1>1. TypeOK /\ [Next]_vars => [OnlyHolderMoves]_vars
  <2> SUFFICES ASSUME TypeOK, Next PROVE OnlyHolderMoves
    OBVIOUS
  <2>1. ASSUME NEW j \in Jobs, TimeStep(j) PROVE OnlyHolderMoves
    BY <2>1 DEF TypeOK, OnlyHolderMoves, TimeStep, EnqueueJob, BecomeDue, LeaseTick
  <2>2. ASSUME NEW r \in Reactors, ClaimStep(r) PROVE OnlyHolderMoves
    <3>1. PICK S \in SUBSET Jobs, count \in [Jobs -> Nat], d \in BOOLEAN :
              Refence(r, S, count, d) /\ \A j \in S : Due(j)
      BY <2>2, ClaimStepIsRefence
    <3> QED BY <3>1 DEF OnlyHolderMoves, Refence, Due, Expired
  <2>3. ASSUME NEW r \in Reactors, PollAborts(r) PROVE OnlyHolderMoves
    BY <2>3 DEF OnlyHolderMoves, PollAborts, jobVars
  <2>4. ASSUME NEW r \in Reactors, NEW c \in tasks[r], HolderStep(r, c)
        PROVE  OnlyHolderMoves
    <3>1. ASSUME NEW s, NEW N, Settle(r, c, s, N) PROVE OnlyHolderMoves
      BY <3>1 DEF TypeOK, OnlyHolderMoves, Settle, LiveClaim
    <3>2. CASE RenewJobLease(r, c) \/ ClaimRefused(r, c)
      BY <3>2 DEF OnlyHolderMoves, RenewJobLease, ClaimRefused, jobVars
    <3>3. ASSUME NEW e \in Effects, NEW s, BeginEffect(r, c, e) \/ ReleaseEffect(r, c, e, s)
          PROVE  OnlyHolderMoves
      BY <3>3 DEF OnlyHolderMoves, BeginEffect, ReleaseEffect, jobVars
    <3> QED BY <2>4, <3>1, <3>2, <3>3
            DEF HolderStep, CompleteJob, FailJob, DeadLetter, FailTerminally, ObserveEffect
  <2> QED BY <2>1, <2>2, <2>3, <2>4 DEF Next
<1> QED BY <1>1, TypeCorrect, PTL DEF Spec, OnlyLiveHolderSettles
============================================================================
