---------------------------- MODULE OwnersProofs ----------------------------
(***************************************************************************)
(* Who owns what is done and left undone, for any number of jobs, callers, *)
(* operators and rows: a workflow step ends once, is told the truth about  *)
(* it, and what it leaves undone is owned; and the queue in which the      *)
(* owners find it is readable, complete and shows nothing twice; and the   *)
(* audited facts are one chain, which an anchored export proves.           *)
(***************************************************************************)
EXTENDS StepLedger, Attention, AuditChain,
        FiniteSetTheorems, FunctionTheorems, SequenceTheorems, TLAPS

-----------------------------------------------------------------------------
(***************************************************************************)
(* The inductive invariant: the properties, and what they rest on.         *)
(***************************************************************************)
\* A caller that holds a claim has its fence, one that asks has its request.
CallersAreSet ==
    \A c \in Callers :
        /\ caller[c].phase # "IDLE" => caller[c].fence \in Fence
        /\ caller[c].phase \in {"READY", "TOLD"} => caller[c].asked \in StepRequests

\* Only a valid step was ever committed.
CompletedWasValid ==
    \A j \in Jobs : job[j].completed # None => ValidStep(job[j].completed.step)

\* A recorded failure names a time its column can hold.
FailureTimesAreStored ==
    \A j \in Jobs : job[j].failure # None => Stored(job[j].failure.at) = job[j].failure.at

StepInv ==
    /\ StepTypeOK
    /\ CallersAreSet
    /\ MovedOncePerJob
    /\ CompletedWasValid
    /\ AnswersAreTrue
    /\ CompletedMeansWritten
    /\ StateHasItsOwner
    /\ DeadLettersAreProven
    /\ FailureTimesAreStored
    /\ FailureIsRecognised
    /\ RecognisedIsStored

-----------------------------------------------------------------------------
(***************************************************************************)
(* Facts about the helpers.                                                *)
(***************************************************************************)
\* A stored time is stored as it is: timestamptz keeps multiples of its
\* resolution.
LEMMA StoredIsStable ==
    ASSUME NEW t \in Nat
    PROVE  Stored(t) \in Nat /\ Stored(Stored(t)) = Stored(t)
<1> DEFINE R == Resolution
           q == t \div R
<1>1. R \in Nat /\ R > 0
  BY StepLedgerAssumption
<1>2. t - (t % R) = R * q /\ q \in Nat
  BY <1>1, SMTT(30)
<1>3. R * q \in Nat /\ (R * q) % R = 0
  BY <1>1, <1>2, SMTT(30)
<1> HIDE DEF q, R
<1> QED  BY <1>2, <1>3 DEF Stored, R

\* A time that is a multiple of the resolution survives the column.
LEMMA MultiplesSurvive ==
    ASSUME NEW t \in Nat, t % Resolution = 0
    PROVE  Stored(t) = t
BY DEF Stored

\* What the transaction reports of a failure is a failure row.
LEMMA FailureFacts ==
    ASSUME NEW c \in Callers, caller[c].fence \in Fence, caller[c].asked \in FailRequest
    PROVE  /\ Failure(c) \in Failures /\ Failure(c).by = c /\ Failure(c) # None
           /\ Failure(c).token = caller[c].fence.token
           /\ Failure(c).error = caller[c].asked.error
           /\ Failure(c).at = Stored(caller[c].asked.at)
           /\ Stored(Failure(c).at) = Failure(c).at
<1>1. caller[c].asked.at \in Nat /\ caller[c].asked.error \in Errors /\ caller[c].fence.token \in Nat
  BY StepLedgerAssumption DEF FailRequest, Fence
<1>2. Stored(caller[c].asked.at) \in Nat
      /\ Stored(Stored(caller[c].asked.at)) = Stored(caller[c].asked.at)
  BY <1>1, StoredIsStable
<1> QED  BY <1>1, <1>2, RowAssumption DEF Failure, Failures

\* An asked request is one of the two kinds, and says which.
LEMMA RequestKinds ==
    ASSUME NEW r \in StepRequests
    PROVE  /\ r.kind = "COMMIT" => r.step \in Steps
           /\ r.kind = "FAIL" => r \in FailRequest /\ r.severity \in Severities
BY DEF StepRequests, CommitRequest, FailRequest

\* One more job has ended (the count of every effect a job has).
LEMMA OneMoreEnded ==
    ASSUME NEW j \in Jobs, j \notin Ended, Ended' = Ended \cup {j}
    PROVE  Cardinality(Ended') = Cardinality(Ended) + 1
<1>1. IsFiniteSet(Ended)
  BY StepLedgerAssumption, FS_Subset DEF Ended
<1> QED  BY <1>1, FS_AddElement

\* Nobody has ended yet.
LEMMA NoneEnded ==
    ASSUME Ended = {} PROVE Cardinality(Ended) = 0
BY FS_EmptySet

\* The count of ended jobs is a number.
LEMMA EndedIsCounted == Cardinality(Ended) \in Nat
<1>1. IsFiniteSet(Ended)
  BY StepLedgerAssumption, FS_Subset DEF Ended
<1> QED  BY <1>1, FS_CardinalityType

\* Every escalation is a row, and gathers jobs.
LEMMA EscalationsAreRows ==
    ASSUME esc \in Seq(EscalationRows), NEW e \in 1..Len(esc)
    PROVE  esc[e] \in EscalationRows
OBVIOUS

\* The escalation a dead letter joins or opens, and what it keeps of it
\* (insert_dead_letter_escalation, merge_active_dead_letter).
LEMMA EscalationFacts ==
    ASSUME esc \in Seq(EscalationRows), NEW j \in Jobs, NEW v,
           NEW x, x = DeadLetterEscalation(j, v)
    PROVE  /\ x.row \in EscalationRows /\ j \in x.row.jobs
           /\ x.id \in 1..(Len(esc) + 1)
           /\ x.id \in 1..Len(esc) =>
                 /\ esc[x.id].jobs \subseteq x.row.jobs
                 /\ esc[x.id].severity = "CRITICAL" => x.row.severity = "CRITICAL"
<1>1. CASE Active # {}
  <2> DEFINE e == CHOOSE y \in Active : TRUE
  <2>1. e \in Active /\ e \in 1..Len(esc)
    BY <1>1 DEF Active
  <2>2. esc[e] \in EscalationRows
    BY <2>1
  <2>3. x.id = e /\ x.row = Merged(esc[e], j, v)
    BY <1>1 DEF DeadLetterEscalation
  <2> HIDE DEF e
  <2>4. esc[e].version + 1 \in Nat
    BY <2>2 DEF EscalationRows
  <2>5. /\ Merged(esc[e], j, v) \in EscalationRows /\ j \in Merged(esc[e], j, v).jobs
        /\ esc[e].jobs \subseteq Merged(esc[e], j, v).jobs
        /\ esc[e].severity = "CRITICAL" => Merged(esc[e], j, v).severity = "CRITICAL"
    BY <2>2, <2>4 DEF Merged, EscalationRows
  <2> QED  BY <2>1, <2>3, <2>5
<1>2. CASE Active = {}
  <2>1. x.id = Len(esc) + 1 /\ x.row.jobs = {j} /\ x.row \in EscalationRows
    BY <1>2 DEF DeadLetterEscalation, Normalized, EscalationRows
  <2> QED  BY <2>1
<1> QED  BY <1>1, <1>2

-----------------------------------------------------------------------------
(***************************************************************************)
(* What callers are told.                                                  *)
(***************************************************************************)
\* The three properties about answers, for one caller.
ToldTruth(c) ==
    /\ (caller[c].phase = "TOLD" /\ caller[c].asked.kind = "COMMIT") =>
           (caller[c].answer \in {"APPLIED", "ALREADY"} <=>
                job[caller[c].fence.job].completed =
                    [by |-> c, token |-> caller[c].fence.token, step |-> caller[c].asked.step])
    /\ (/\ caller[c].phase = "TOLD" /\ caller[c].asked.kind = "FAIL"
        /\ caller[c].answer = "CONFLICT" /\ caller[c].asked.at % Resolution = 0)
           => ~(FailedBy(c) /\ job[caller[c].fence.job].failure = Failure(c))
    /\ (caller[c].phase = "TOLD" /\ caller[c].answer = "REPEATED" /\ FailedBy(c)) =>
           job[caller[c].fence.job].failure = Failure(c)

\* The properties are that for every caller, before and after a step.
LEMMA ToldTruthIsAll ==
    /\ AnswersAreTrue /\ FailureIsRecognised /\ RecognisedIsStored <=> \A c \in Callers : ToldTruth(c)
    /\ (AnswersAreTrue /\ FailureIsRecognised /\ RecognisedIsStored)'
         <=> \A c \in Callers : ToldTruth(c)'
<1>1. AnswersAreTrue /\ FailureIsRecognised /\ RecognisedIsStored <=> \A c \in Callers : ToldTruth(c)
  BY DEF ToldTruth, AnswersAreTrue, FailureIsRecognised, RecognisedIsStored
<1>2. (AnswersAreTrue /\ FailureIsRecognised /\ RecognisedIsStored)'
        <=> \A c \in Callers : ToldTruth(c)'
  BY DEF ToldTruth, AnswersAreTrue, FailureIsRecognised, RecognisedIsStored
<1> QED  BY <1>1, <1>2

\* Someone else changed a job: what a caller was told of it stays true when the
\* job runs again, failed by another's hand or was completed by another's.
LEMMA OthersStayTold ==
    ASSUME StepInv, NEW d \in Callers, caller'[d] = caller[d],
           \A j \in Jobs :
               \/ job'[j] = job[j]
               \/ job'[j].status \notin {"RETRY", "DEAD"} /\ job'[j].completed = job[j].completed
               \/ job'[j].failure.by # d /\ job'[j].completed = job[j].completed
               \/ /\ job'[j].status = "COMPLETED" /\ job[j].completed = None
                  /\ job'[j].completed.by # d
    PROVE  ToldTruth(d)'
<1>1. CASE caller[d].phase # "TOLD"
  BY <1>1 DEF ToldTruth
<1>2. CASE caller[d].phase = "TOLD"
  <2> DEFINE j == caller[d].fence.job
  <2>1. j \in Jobs /\ caller[d].fence.token \in Nat /\ caller[d].asked \in StepRequests
    BY <1>2 DEF StepInv, CallersAreSet, Fence
  <2>2. ToldTruth(d)
    BY ToldTruthIsAll DEF StepInv
  <2>3. Failure(d)' = Failure(d)
    BY DEF Failure
  <2>4. CASE job'[j] = job[j]
    BY <2>2, <2>3, <2>4 DEF ToldTruth, FailedBy
  <2>5. CASE job'[j].status \notin {"RETRY", "DEAD"} /\ job'[j].completed = job[j].completed
    BY <2>2, <2>5 DEF ToldTruth, FailedBy
  <2>6. CASE job'[j].failure.by # d /\ job'[j].completed = job[j].completed
    BY <2>2, <2>6 DEF ToldTruth, FailedBy
  <2>7. CASE job'[j].status = "COMPLETED" /\ job[j].completed = None /\ job'[j].completed.by # d
    <3>1. ~FailedBy(d)'
      BY <2>7 DEF FailedBy
    <3>2. caller[d].asked.kind = "COMMIT" =>
             [by |-> d, token |-> caller[d].fence.token, step |-> caller[d].asked.step] # None
      BY <2>1, RequestKinds, RowAssumption DEF Completions
    <3>3. caller[d].asked.kind = "COMMIT" =>
             [by |-> d, token |-> caller[d].fence.token, step |-> caller[d].asked.step] # job'[j].completed
      BY <2>7
    <3> QED  BY <2>2, <2>7, <3>1, <3>2, <3>3 DEF ToldTruth
  <2> QED  BY <2>1, <2>4, <2>5, <2>6, <2>7
<1> QED  BY <1>1, <1>2

\* commit_workflow_step answers with success when this claim has completed the
\* job with this write set, and writes only under every guard.
LEMMA CommitOutcomeFacts ==
    ASSUME StepInv, NEW c \in Callers, caller[c].phase = "READY", caller[c].asked.kind = "COMMIT"
    PROVE  LET s == caller[c].asked.step  j == caller[c].fence.job IN
           /\ CommitOutcome(c) \in {"INVALID", "ALREADY", "CONFLICT", "APPLIED"}
           /\ j \in Jobs /\ s \in Steps /\ caller[c].fence.token \in Nat
           /\ CommitOutcome(c) = "APPLIED" => ValidStep(s) /\ LiveClaim(c) /\ RowsFit(s)
           /\ CommitOutcome(c) # "APPLIED" =>
                 (CommitOutcome(c) = "ALREADY" <=>
                    job[j].completed = [by |-> c, token |-> caller[c].fence.token, step |-> s])
<1> DEFINE s == caller[c].asked.step
           j == caller[c].fence.job
           own == [by |-> c, token |-> caller[c].fence.token, step |-> s]
<1>1. j \in Jobs /\ s \in Steps /\ caller[c].fence.token \in Nat
  BY RequestKinds DEF StepInv, CallersAreSet, Fence
<1>2. job[j] \in JobRows /\ (job[j].status = "COMPLETED" <=> job[j].completed # None)
  BY <1>1 DEF StepInv, StepTypeOK
<1>3. own # None
  BY <1>1, RowAssumption DEF Completions
<1>4. job[j].completed = own => CompletedBy(c) /\ job[j].completed.step = s /\ ValidStep(s)
  BY <1>1, <1>2, <1>3 DEF CompletedBy, StepInv, CompletedWasValid
<1>5. CompletedBy(c) /\ job[j].completed.step = s => job[j].completed = own
  <2> SUFFICES ASSUME CompletedBy(c), job[j].completed.step = s PROVE job[j].completed = own
    OBVIOUS
  <2>1. job[j].completed \in Completions
    BY <1>2 DEF CompletedBy, JobRows
  <2> QED  BY <2>1 DEF CompletedBy, Completions
<1>6. CommitOutcome(c) =
        CASE ~ValidStep(s) -> "INVALID"
          [] ValidStep(s) /\ CompletedBy(c) ->
                 IF job[j].completed.step = s THEN "ALREADY" ELSE "CONFLICT"
          [] /\ ValidStep(s) /\ ~CompletedBy(c)
             /\ LiveClaim(c) /\ AggregatesCurrent(caller[c].fence) /\ RowsFit(s) -> "APPLIED"
          [] OTHER -> "CONFLICT"
  BY DEF CommitOutcome
<1> HIDE DEF own
<1>7. CASE ~ValidStep(s)
  BY <1>1, <1>4, <1>6, <1>7 DEF own
<1>8. CASE ValidStep(s) /\ CompletedBy(c)
  BY <1>1, <1>4, <1>5, <1>6, <1>8 DEF own
<1>9. CASE ValidStep(s) /\ ~CompletedBy(c)
  BY <1>1, <1>4, <1>6, <1>9 DEF own
<1> QED  BY <1>7, <1>8, <1>9

\* fail_workflow_step recognises the failure it stored and no other, and writes
\* only under the live claim.
LEMMA FailOutcomeFacts ==
    ASSUME StepInv, NEW c \in Callers, caller[c].phase = "READY", caller[c].asked.kind = "FAIL"
    PROVE  LET j == caller[c].fence.job IN
           /\ FailOutcome(c) \in {"CONFLICT", "REPEATED", "ESCALATED", "RETRY_SCHEDULED"}
           /\ j \in Jobs /\ caller[c].fence \in Fence /\ caller[c].asked \in FailRequest
           /\ FailOutcome(c) \in {"ESCALATED", "RETRY_SCHEDULED"} => LiveClaim(c)
           /\ FailOutcome(c) = "REPEATED" => job[j].failure = Failure(c)
           /\ (FailOutcome(c) = "CONFLICT" /\ caller[c].asked.at % Resolution = 0)
                 => ~(FailedBy(c) /\ job[j].failure = Failure(c))
<1> DEFINE j == caller[c].fence.job
<1>1. j \in Jobs /\ caller[c].fence \in Fence /\ caller[c].asked \in FailRequest
  BY RequestKinds DEF StepInv, CallersAreSet, Fence
<1>2. job[j] \in JobRows
  BY <1>1 DEF StepInv, StepTypeOK
<1>3. SameFailure(c) => job[j].failure = Failure(c)
  <2> SUFFICES ASSUME SameFailure(c) PROVE job[j].failure = Failure(c)  OBVIOUS
  <2>1. job[j].failure \in Failures /\ Stored(job[j].failure.at) = job[j].failure.at
    BY <1>1, <1>2 DEF SameFailure, FailedBy, JobRows, StepInv, FailureTimesAreStored
  <2>2. /\ job[j].failure.by = c /\ job[j].failure.token = caller[c].fence.token
        /\ job[j].failure.at = caller[c].asked.at /\ job[j].failure.error = caller[c].asked.error
    BY DEF SameFailure, FailedBy
  <2> QED  BY <2>1, <2>2 DEF Failure, Failures
<1>4. (FailedBy(c) /\ job[j].failure = Failure(c) /\ caller[c].asked.at % Resolution = 0)
        => SameFailure(c)
  <2>1. caller[c].asked.at \in Nat
    BY <1>1, StepLedgerAssumption DEF FailRequest
  <2> QED  BY <1>1, <2>1, MultiplesSurvive, FailureFacts DEF SameFailure
<1>5. job[j].status = "DEAD" => LetterIsProven(j)
  BY <1>1 DEF StepInv, DeadLettersAreProven
<1>6. LiveClaim(c) => job[j].status = "RUNNING"
  BY DEF LiveClaim, OwnedClaim
<1>7. CASE job[j].status \in {"RETRY", "DEAD"}
  <2>1. FailOutcome(c) = IF ~SameFailure(c) THEN "CONFLICT" ELSE "REPEATED"
    BY <1>5, <1>6, <1>7 DEF FailOutcome
  <2> QED  BY <1>1, <1>3, <1>4, <2>1
<1>8. CASE job[j].status \notin {"RETRY", "DEAD"}
  <2>1. FailOutcome(c) \in {"CONFLICT", "ESCALATED", "RETRY_SCHEDULED"}
        /\ (FailOutcome(c) # "CONFLICT" => LiveClaim(c))
    BY <1>8 DEF FailOutcome
  <2>2. ~FailedBy(c)
    BY <1>8 DEF FailedBy
  <2> QED  BY <1>1, <2>1, <2>2
<1> QED  BY <1>7, <1>8

-----------------------------------------------------------------------------
(***************************************************************************)
(* Steps that leave the tables alone.                                      *)
(***************************************************************************)
\* Jobs wait, nobody holds a claim, nothing is written.
LEMMA StepInitInv == StepInit => StepInv
<1> SUFFICES ASSUME StepInit PROVE StepInv  OBVIOUS
<1> USE DEF StepInit, JobRow0, Caller0
<1>1. StepTypeOK
  <2>1. job \in [Jobs -> JobRows] /\ caller \in [Callers -> CallerRows]
    BY DEF JobRows, JobStatuses, CallerRows
  <2>2. /\ rows \in [Keys -> Contents \cup {None}] /\ outside \in Nat
        /\ audit \in Seq(AuditRows) /\ esc \in Seq(EscalationRows)
    OBVIOUS
  <2>3. \A j \in Jobs :
           /\ job[j].status = "RUNNING" <=> job[j].owner # None
           /\ job[j].status = "COMPLETED" <=> job[j].completed # None
           /\ job[j].status = "DEAD" <=> job[j].letter # None
    OBVIOUS
  <2>4. work.state \in WorkStates /\ flow.state \in WorkflowStates /\ anchor.kind \in AnchorKinds \cup {"NONE"}
    BY DEF WorkStates, WorkflowStates
  <2> QED  BY <2>1, <2>2, <2>3, <2>4 DEF StepTypeOK
<1>2. MovedOncePerJob
  <2>1. Ended = {}
    BY DEF Ended
  <2> QED  BY <2>1, NoneEnded DEF MovedOncePerJob
<1>3. CallersAreSet /\ AnswersAreTrue /\ FailureIsRecognised /\ RecognisedIsStored
  BY DEF CallersAreSet, AnswersAreTrue, FailureIsRecognised, RecognisedIsStored
<1>4. CompletedWasValid /\ CompletedMeansWritten /\ DeadLettersAreProven /\ FailureTimesAreStored
  BY DEF CompletedWasValid, CompletedMeansWritten, DeadLettersAreProven, FailureTimesAreStored
<1>5. StateHasItsOwner
  BY DEF StateHasItsOwner
<1> QED  BY <1>1, <1>2, <1>3, <1>4, <1>5 DEF StepInv

\* When no table changes, it is enough that the callers are as they should be.
LEMMA QuietKeepsInv ==
    ASSUME StepInv, UNCHANGED <<tables, outside>>, caller' \in [Callers -> CallerRows],
           CallersAreSet', \A d \in Callers : ToldTruth(d)'
    PROVE  StepInv'
<1>1. UNCHANGED <<job, work, flow, anchor, rows, audit, esc, outside>>
  BY DEF tables
<1>2. StepTypeOK'
  BY <1>1 DEF StepInv, StepTypeOK
<1>3. MovedOncePerJob'
  BY <1>1 DEF StepInv, MovedOncePerJob, Ended
<1>4. CompletedWasValid' /\ CompletedMeansWritten' /\ FailureTimesAreStored'
  BY <1>1 DEF StepInv, CompletedWasValid, CompletedMeansWritten, FailureTimesAreStored, ValidStep
<1>5. StateHasItsOwner' /\ DeadLettersAreProven'
  BY <1>1 DEF StepInv, StateHasItsOwner, DeadLettersAreProven, LetterIsProven
<1> QED  BY <1>2, <1>3, <1>4, <1>5, ToldTruthIsAll DEF StepInv

\* A caller reads, asks, asks otherwise or forgets.
LEMMA AskingKeepsInv ==
    ASSUME StepInv, NEW c \in Callers,
           \/ \E r \in StepRequests : Prepare(c, r) \/ Reconsider(c, r)
           \/ Forget(c)
    PROVE  StepInv'
<1>1. UNCHANGED <<tables, outside>> /\ UNCHANGED job
  BY DEF Prepare, Reconsider, Forget, tables
<1> DEFINE Set == /\ \A d \in Callers \ {c} : caller'[d] = caller[d]
                  /\ caller'[c] \in CallerRows /\ caller'[c].phase # "TOLD"
                  /\ caller'[c].phase # "IDLE" => caller'[c].fence \in Fence
                  /\ caller'[c].phase = "READY" => caller'[c].asked \in StepRequests
<1>2. Set
  <2>1. caller \in [Callers -> CallerRows] /\ (caller[c].phase # "IDLE" => caller[c].fence \in Fence)
    BY DEF StepInv, StepTypeOK, CallersAreSet
  <2>2. ASSUME NEW r \in StepRequests, Prepare(c, r) PROVE Set
    <3> DEFINE f == [caller[c].fence EXCEPT !.work = work.version, !.flow = flow.version,
                                            !.flowToken = flow.token, !.anchor = anchor.generation]
    <3>1. work.version \in Nat /\ flow.version \in Nat /\ flow.token \in Nat /\ anchor.generation \in Nat
      BY EndedIsCounted DEF StepInv, StepTypeOK, MovedOncePerJob
    <3>2. f \in Fence
      BY <2>1, <2>2, <3>1 DEF Prepare, Fence
    <3>3. caller'[c] = [caller[c] EXCEPT !.phase = "READY", !.asked = r, !.fence = f]
          /\ \A d \in Callers \ {c} : caller'[d] = caller[d]
      BY <2>1, <2>2 DEF Prepare
    <3> HIDE DEF f
    <3>4. caller[c] \in CallerRows
      BY <2>1
    <3>5. /\ caller'[c] \in CallerRows /\ caller'[c].phase = "READY" /\ caller'[c].fence = f
          /\ caller'[c].asked = r
      BY <3>2, <3>3, <3>4 DEF CallerRows
    <3> QED  BY <3>2, <3>3, <3>5
  <2>3. ASSUME NEW r \in StepRequests, Reconsider(c, r) PROVE Set
    BY <2>1, <2>3 DEF Reconsider, CallerRows
  <2>4. ASSUME Forget(c) PROVE Set
    BY <2>1, <2>4 DEF Forget, Caller0, CallerRows
  <2> QED  BY <2>2, <2>3, <2>4
<1>3. caller' \in [Callers -> CallerRows]
  BY <1>2 DEF Prepare, Reconsider, Forget, StepInv, StepTypeOK
<1>4. CallersAreSet'
  BY <1>2 DEF StepInv, CallersAreSet
<1>5. ToldTruth(c)'
  BY <1>2 DEF ToldTruth
<1>6. ASSUME NEW d \in Callers \ {c} PROVE ToldTruth(d)'
  BY <1>1, <1>2, OthersStayTold
<1> QED  BY <1>1, <1>3, <1>4, <1>5, <1>6, QuietKeepsInv

\* How Told changes the callers: one of them waits for, or has, its answer.
LEMMA ToldFacts ==
    ASSUME StepInv, NEW c \in Callers, caller[c].phase = "READY", NEW lost \in BOOLEAN, NEW answer,
           answer \in {"INVALID", "ALREADY", "CONFLICT", "APPLIED", "REPEATED", "ESCALATED", "RETRY_SCHEDULED"},
           Told(c, answer, lost)
    PROVE  /\ caller' \in [Callers -> CallerRows] /\ CallersAreSet'
           /\ caller'[c].phase \in {"READY", "TOLD"}
           /\ caller'[c].phase = "TOLD" => caller'[c].answer = answer
           /\ caller'[c].fence = caller[c].fence /\ caller'[c].asked = caller[c].asked
           /\ \A d \in Callers \ {c} : caller'[d] = caller[d]
<1>1. caller \in [Callers -> CallerRows]
  BY DEF StepInv, StepTypeOK
<1>2. /\ caller'[c] = [caller[c] EXCEPT !.phase = IF lost THEN "READY" ELSE "TOLD",
                                        !.answer = IF lost THEN "UNKNOWN" ELSE answer]
      /\ \A d \in Callers \ {c} : caller'[d] = caller[d]
  BY <1>1 DEF Told
<1>3. /\ caller'[c] \in CallerRows /\ caller'[c].phase \in {"READY", "TOLD"}
      /\ caller'[c].phase = "TOLD" => caller'[c].answer = answer
      /\ caller'[c].fence = caller[c].fence /\ caller'[c].asked = caller[c].asked
  BY <1>1, <1>2 DEF CallerRows
<1>4. caller' \in [Callers -> CallerRows]
  BY <1>1, <1>3 DEF Told
<1>5. CallersAreSet'
  BY <1>2, <1>3 DEF StepInv, CallersAreSet
<1> QED  BY <1>2, <1>3, <1>4, <1>5

\* A transaction that writes nothing answers truly.
LEMMA RefusalKeepsInv ==
    ASSUME StepInv, NEW c \in Callers, NEW lost \in BOOLEAN, UNCHANGED <<tables, outside>>,
           \/ CommitStep(c, lost) /\ CommitOutcome(c) # "APPLIED"
           \/ FailStep(c, lost) /\ FailOutcome(c) \in {"CONFLICT", "REPEATED"}
    PROVE  StepInv'
<1>1. UNCHANGED job
  BY DEF tables
<1>2. CASE CommitStep(c, lost) /\ CommitOutcome(c) # "APPLIED"
  <2>1. caller[c].phase = "READY" /\ caller[c].asked.kind = "COMMIT" /\ Told(c, CommitOutcome(c), lost)
    BY <1>2 DEF CommitStep
  <2>2. CommitOutcome(c) \in {"INVALID", "ALREADY", "CONFLICT"}
        /\ (CommitOutcome(c) = "ALREADY" <=>
              job[caller[c].fence.job].completed =
                [by |-> c, token |-> caller[c].fence.token, step |-> caller[c].asked.step])
    BY <1>2, <2>1, CommitOutcomeFacts
  <2> HIDE DEF CommitOutcome
  <2>3. /\ caller' \in [Callers -> CallerRows] /\ CallersAreSet'
        /\ caller'[c].phase \in {"READY", "TOLD"}
        /\ caller'[c].phase = "TOLD" => caller'[c].answer = CommitOutcome(c)
        /\ caller'[c].fence = caller[c].fence /\ caller'[c].asked = caller[c].asked
        /\ \A d \in Callers \ {c} : caller'[d] = caller[d]
    BY <2>1, <2>2, ToldFacts
  <2>4. ToldTruth(c)'
    BY <1>1, <2>1, <2>2, <2>3 DEF ToldTruth
  <2>5. ASSUME NEW d \in Callers \ {c} PROVE ToldTruth(d)'
    BY <1>1, <2>3, OthersStayTold
  <2> QED  BY <2>3, <2>4, <2>5, QuietKeepsInv
<1>3. CASE FailStep(c, lost) /\ FailOutcome(c) \in {"CONFLICT", "REPEATED"}
  <2>1. caller[c].phase = "READY" /\ caller[c].asked.kind = "FAIL" /\ Told(c, FailOutcome(c), lost)
    BY <1>3 DEF FailStep
  <2>2. /\ FailOutcome(c) = "REPEATED" => job[caller[c].fence.job].failure = Failure(c)
        /\ (FailOutcome(c) = "CONFLICT" /\ caller[c].asked.at % Resolution = 0)
              => ~(FailedBy(c) /\ job[caller[c].fence.job].failure = Failure(c))
    BY <2>1, FailOutcomeFacts
  <2>3. /\ caller' \in [Callers -> CallerRows] /\ CallersAreSet'
        /\ caller'[c].phase \in {"READY", "TOLD"}
        /\ caller'[c].phase = "TOLD" => caller'[c].answer = FailOutcome(c)
        /\ caller'[c].fence = caller[c].fence /\ caller'[c].asked = caller[c].asked
        /\ \A d \in Callers \ {c} : caller'[d] = caller[d]
    BY <1>3, <2>1, ToldFacts
  <2>4. ToldTruth(c)'
    BY <1>1, <1>3, <2>1, <2>2, <2>3 DEF ToldTruth, Failure, FailedBy
  <2>5. ASSUME NEW d \in Callers \ {c} PROVE ToldTruth(d)'
    BY <1>1, <2>3, OthersStayTold
  <2> QED  BY <2>3, <2>4, <2>5, QuietKeepsInv
<1> QED  BY <1>2, <1>3

-----------------------------------------------------------------------------
(***************************************************************************)
(* Steps that change one job that has not ended.                           *)
(***************************************************************************)
\* A job that has not ended is neither completed nor dead.
LEMMA UnendedFacts ==
    ASSUME StepInv, NEW j \in Jobs, job[j].status \in {"PENDING", "RUNNING", "RETRY"}
    PROVE  job[j] \in JobRows /\ job[j].completed = None /\ job[j].letter = None /\ j \notin Ended
BY DEF StepInv, StepTypeOK, Ended

\* The job is claimed, loses its lease or goes back to the queue.
LEMMA JobStepKeepsInv ==
    ASSUME StepInv, UNCHANGED <<work, flow, anchor, rows, audit, esc, outside>>,
           NEW j \in Jobs, NEW n \in JobRows, job' = [job EXCEPT ![j] = n],
           job[j].status \in {"PENDING", "RUNNING", "RETRY"}, n.status \in {"RUNNING", "RETRY"},
           n.status = "RUNNING" <=> n.owner # None, n.completed = None, n.letter = None,
           n.failure # None => Stored(n.failure.at) = n.failure.at,
           caller' \in [Callers -> CallerRows], CallersAreSet', \A d \in Callers : ToldTruth(d)'
    PROVE  StepInv'
<1>1. job \in [Jobs -> JobRows]
  BY DEF StepInv, StepTypeOK
<1>2. job'[j] = n /\ \A i \in Jobs \ {j} : job'[i] = job[i]
  BY <1>1
<1>3. job[j].completed = None /\ job[j].letter = None /\ j \notin Ended
  BY UnendedFacts
<1>4. StepTypeOK'
  <2>1. job' \in [Jobs -> JobRows]
    BY <1>1
  <2> QED  BY <1>2, <2>1 DEF StepInv, StepTypeOK
<1>5. MovedOncePerJob'
  <2>1. Ended' = Ended
    BY <1>2 DEF Ended
  <2> QED  BY <2>1 DEF StepInv, MovedOncePerJob
<1>6. CompletedWasValid' /\ FailureTimesAreStored'
  BY <1>2 DEF StepInv, CompletedWasValid, FailureTimesAreStored, ValidStep
<1>7. CompletedMeansWritten'
  BY <1>2 DEF StepInv, CompletedMeansWritten
<1>8. DeadLettersAreProven'
  BY <1>2 DEF StepInv, DeadLettersAreProven, LetterIsProven
<1>9. StateHasItsOwner'
  <2>1. \A e \in 1..Len(esc) : esc[e].jobs \subseteq Jobs
    BY EscalationsAreRows DEF StepInv, StepTypeOK, EscalationRows
  <2> QED  BY <1>2, <2>1 DEF StepInv, StateHasItsOwner
<1> QED  BY <1>4, <1>5, <1>6, <1>7, <1>8, <1>9, ToldTruthIsAll DEF StepInv

\* A claim, or the end of its lease.
\* A caller that has just claimed a job.
LEMMA HoldingCaller ==
    ASSUME NEW f \in Fence, NEW h, h = [Caller0 EXCEPT !.phase = "HOLDING", !.fence = f]
    PROVE  h \in CallerRows /\ h.phase = "HOLDING" /\ h.fence = f
<1>1. PICK x : x = Caller0
  OBVIOUS
<1>2. x \in CallerRows
  BY <1>1 DEF Caller0, CallerRows
<1>3. PICK y : y = [x EXCEPT !.phase = "HOLDING"]
  OBVIOUS
<1>4. y \in CallerRows /\ y.phase = "HOLDING"
  BY <1>2, <1>3 DEF CallerRows
<1>5. h = [y EXCEPT !.fence = f]
  BY <1>1, <1>3
<1> QED BY <1>4, <1>5 DEF CallerRows

LEMMA ClaimKeepsInv ==
    ASSUME StepInv, NEW c \in Callers, NEW j \in Jobs, ClaimStep(c, j)
    PROVE  StepInv'
<1>1. job \in [Jobs -> JobRows] /\ caller \in [Callers -> CallerRows]
  BY DEF StepInv, StepTypeOK
<1>2. CASE Claim(c, j)
  <2> DEFINE n == [job[j] EXCEPT !.status = "RUNNING", !.owner = c, !.live = TRUE,
                                 !.token = @ + 1, !.tries = @ + 1]
             f == [job |-> j, token |-> job[j].token + 1, work |-> 0, flow |-> 0, flowToken |-> 0, anchor |-> 0]
  <2>1. job[j].status \in {"PENDING", "RUNNING", "RETRY"} /\ job' = [job EXCEPT ![j] = n]
    BY <1>2 DEF Claim, Waiting
  <2>2. job[j] \in JobRows /\ job[j].completed = None /\ job[j].letter = None
    BY <2>1, UnendedFacts
  <2>3. job[j].token + 1 \in Nat /\ job[j].tries + 1 \in Nat
    BY <2>2 DEF JobRows
  <2>4. /\ n \in JobRows /\ n.status = "RUNNING" /\ n.owner = c /\ n.completed = None /\ n.letter = None
        /\ n.failure = job[j].failure
    BY <2>2, <2>3 DEF JobRows, JobStatuses
  <2>5. f \in Fence
    BY <2>3 DEF Fence
  <2> HIDE DEF n, f
  <2>6. caller'[c] = [Caller0 EXCEPT !.phase = "HOLDING", !.fence = f]
        /\ caller' = [caller EXCEPT ![c] = [Caller0 EXCEPT !.phase = "HOLDING", !.fence = f]]
        /\ \A d \in Callers \ {c} : caller'[d] = caller[d]
    BY <1>1, <1>2 DEF Claim, f
  <2>7. caller'[c] \in CallerRows /\ caller'[c].phase = "HOLDING" /\ caller'[c].fence = f
    BY <2>5, <2>6, HoldingCaller
  <2>8. caller' \in [Callers -> CallerRows] /\ CallersAreSet'
    BY <1>1, <2>5, <2>6, <2>7 DEF StepInv, CallersAreSet
  <2>9. ToldTruth(c)'
    BY <2>7 DEF ToldTruth
  <2>10. ASSUME NEW d \in Callers \ {c} PROVE ToldTruth(d)'
    <3>1. job'[j] = n /\ \A i \in Jobs \ {j} : job'[i] = job[i]
      BY <1>1, <2>1
    <3>2. \A i \in Jobs : \/ job'[i] = job[i]
                          \/ job'[i].status \notin {"RETRY", "DEAD"} /\ job'[i].completed = job[i].completed
      BY <2>2, <2>4, <3>1
    <3> QED  BY <2>6, <3>2, OthersStayTold
  <2>11. job[j].failure # None => Stored(job[j].failure.at) = job[j].failure.at
    BY DEF StepInv, FailureTimesAreStored
  <2>12. c # None /\ UNCHANGED <<work, flow, anchor, rows, audit, esc, outside>>
    BY <1>2, RowAssumption DEF Claim
  <2> QED  BY <2>1, <2>4, <2>8, <2>9, <2>10, <2>11, <2>12, JobStepKeepsInv
<1>3. CASE Expire(j)
  <2> DEFINE n == [job[j] EXCEPT !.live = FALSE]
  <2>1. job[j].status = "RUNNING" /\ job' = [job EXCEPT ![j] = n]
        /\ UNCHANGED <<work, flow, anchor, rows, audit, esc, caller, outside>>
    BY <1>3 DEF Expire
  <2>2. job[j] \in JobRows /\ job[j].completed = None /\ job[j].letter = None /\ job[j].owner # None
    BY <2>1, UnendedFacts DEF StepInv, StepTypeOK
  <2>3. /\ n \in JobRows /\ n.status = "RUNNING" /\ n.owner # None /\ n.completed = None
        /\ n.letter = None /\ n.failure = job[j].failure
    BY <2>1, <2>2 DEF JobRows
  <2> HIDE DEF n
  <2>4. ASSUME NEW d \in Callers PROVE ToldTruth(d)'
    <3>1. job'[j] = n /\ \A i \in Jobs \ {j} : job'[i] = job[i]
      BY <1>1, <2>1
    <3>2. \A i \in Jobs : \/ job'[i] = job[i]
                          \/ job'[i].status \notin {"RETRY", "DEAD"} /\ job'[i].completed = job[i].completed
      BY <2>2, <2>3, <3>1
    <3> QED  BY <2>1, <3>2, OthersStayTold
  <2>5. job[j].failure # None => Stored(job[j].failure.at) = job[j].failure.at
    BY DEF StepInv, FailureTimesAreStored
  <2>6. caller' \in [Callers -> CallerRows] /\ CallersAreSet'
    BY <1>1, <2>1 DEF StepInv, CallersAreSet
  <2> QED  BY <2>1, <2>3, <2>4, <2>5, <2>6, JobStepKeepsInv
<1> QED  BY <1>2, <1>3 DEF ClaimStep

\* A failure with attempts left: the job goes back to the queue.
LEMMA RequeueKeepsInv ==
    ASSUME StepInv, NEW c \in Callers, NEW lost \in BOOLEAN, FailStep(c, lost),
           FailOutcome(c) = "RETRY_SCHEDULED"
    PROVE  StepInv'
<1> DEFINE j == caller[c].fence.job
           n == [job[j] EXCEPT !.status = "RETRY", !.owner = None, !.live = FALSE, !.failure = Failure(c)]
<1>1. caller[c].phase = "READY" /\ caller[c].asked.kind = "FAIL" /\ Told(c, "RETRY_SCHEDULED", lost)
      /\ Requeue(c) /\ UNCHANGED outside
  BY DEF FailStep
<1>2. j \in Jobs /\ caller[c].fence \in Fence /\ caller[c].asked \in FailRequest /\ LiveClaim(c)
  BY <1>1, FailOutcomeFacts
<1>3. /\ Failure(c) \in Failures /\ Failure(c).by = c /\ Failure(c) # None
      /\ Stored(Failure(c).at) = Failure(c).at
  BY <1>2, FailureFacts
<1>4. job[j].status = "RUNNING" /\ job[j] \in JobRows /\ job[j].completed = None /\ job[j].letter = None
  BY <1>2, UnendedFacts DEF LiveClaim, OwnedClaim
<1>5. job' = [job EXCEPT ![j] = n] /\ UNCHANGED <<work, flow, anchor, rows, audit, esc, outside>>
  BY <1>1 DEF Requeue
<1>6. /\ n \in JobRows /\ n.status = "RETRY" /\ n.owner = None /\ n.completed = None /\ n.letter = None
      /\ n.failure = Failure(c)
  BY <1>3, <1>4 DEF JobRows, JobStatuses
<1> HIDE DEF n
<1>7. /\ caller' \in [Callers -> CallerRows] /\ CallersAreSet'
      /\ caller'[c].phase \in {"READY", "TOLD"}
      /\ caller'[c].phase = "TOLD" => caller'[c].answer = "RETRY_SCHEDULED"
      /\ caller'[c].asked = caller[c].asked
      /\ \A d \in Callers \ {c} : caller'[d] = caller[d]
  BY <1>1, ToldFacts
<1>8. ToldTruth(c)'
  BY <1>1, <1>7 DEF ToldTruth
<1>9. ASSUME NEW d \in Callers \ {c} PROVE ToldTruth(d)'
  <2>1. job'[j] = n /\ \A i \in Jobs \ {j} : job'[i] = job[i]
    BY <1>2, <1>5 DEF StepInv, StepTypeOK
  <2>2. \A i \in Jobs : \/ job'[i] = job[i]
                        \/ job'[i].failure.by # d /\ job'[i].completed = job[i].completed
    BY <1>3, <1>4, <1>6, <2>1
  <2> QED  BY <1>7, <2>2, OthersStayTold
<1> QED  BY <1>2, <1>3, <1>4, <1>5, <1>6, <1>7, <1>8, <1>9, JobStepKeepsInv

-----------------------------------------------------------------------------
(***************************************************************************)
(* Steps that end a job.                                                   *)
(***************************************************************************)
\* The write set is applied and the job completed.
LEMMA ApplyKeepsInv ==
    ASSUME StepInv, NEW c \in Callers, NEW lost \in BOOLEAN, CommitStep(c, lost),
           CommitOutcome(c) = "APPLIED"
    PROVE  StepInv'
<1> DEFINE j == caller[c].fence.job
           s == caller[c].asked.step
           w == WriteSet[s]
           done == [by |-> c, token |-> caller[c].fence.token, step |-> s]
<1>1. caller[c].phase = "READY" /\ caller[c].asked.kind = "COMMIT" /\ Told(c, "APPLIED", lost)
      /\ ApplyStep(c, s) /\ UNCHANGED outside
  BY DEF CommitStep
<1>2. j \in Jobs /\ s \in Steps /\ caller[c].fence.token \in Nat /\ ValidStep(s) /\ LiveClaim(c) /\ RowsFit(s)
  BY <1>1, CommitOutcomeFacts
<1>3. done \in Completions /\ done # None
  BY <1>2, RowAssumption DEF Completions
<1>4. /\ job[j].status = "RUNNING" /\ job[j] \in JobRows /\ job[j].completed = None
      /\ job[j].letter = None /\ j \notin Ended
  BY <1>2, UnendedFacts DEF LiveClaim, OwnedClaim
<1>5. /\ job'[j] \in JobRows /\ job'[j].status = "COMPLETED" /\ job'[j].owner = None
      /\ job'[j].completed = done /\ job'[j].letter = None /\ job'[j].failure = job[j].failure
      /\ job' \in [Jobs -> JobRows]
      /\ \A i \in Jobs \ {j} : job'[i] = job[i]
  <2>1. job \in [Jobs -> JobRows]
    BY DEF StepInv, StepTypeOK
  <2>2. job' = [job EXCEPT ![j].status = "COMPLETED", ![j].owner = None, ![j].live = FALSE,
                           ![j].completed = done]
    BY <1>1 DEF ApplyStep
  <2> HIDE DEF done
  <2> QED  BY <1>2, <1>3, <1>4, <2>1, <2>2 DEF JobRows, JobStatuses
<1>6. /\ work'.state = w.state /\ work'.version = work.version + 1
      /\ flow'.state = w.workflow /\ flow'.version = flow.version + 1 /\ flow'.token = flow.token + 1
      /\ anchor'.kind = w.anchor.kind /\ anchor'.reference = 0
      /\ anchor'.generation = anchor.generation + 1
      /\ audit' = Append(audit, [job |-> j, action |-> "STEP", fact |-> None, error |-> None])
      /\ UNCHANGED esc
  BY <1>1 DEF ApplyStep, UpdateAggregates, ReplaceAccountability
<1>7. /\ rows' \in [Keys -> Contents \cup {None}]
      /\ \A k \in Keys : rows[k] # None => rows'[k] = rows[k]
      /\ \A k \in DOMAIN w.rows : k \in Keys /\ rows'[k] = w.rows[k] /\ rows'[k] # None
  <2>1. rows' = [k \in Keys |-> IF k \in DOMAIN w.rows /\ rows[k] = None THEN w.rows[k] ELSE rows[k]]
    BY <1>1 DEF ApplyStep
  <2>2. \A k \in DOMAIN w.rows : k \in Keys /\ w.rows[k] \in Contents /\ rows[k] \in {None, w.rows[k]}
    BY <1>2, StepLedgerAssumption, RowAssumption DEF RowsFit, RowFits
  <2>3. rows \in [Keys -> Contents \cup {None}]
    BY DEF StepInv, StepTypeOK
  <2> HIDE DEF w
  <2> QED  BY <2>1, <2>2, <2>3, RowAssumption
<1>8. /\ w.state \in WorkStates /\ w.workflow \in WorkflowStates /\ w.anchor.kind \in AnchorKinds
      /\ AnchorCompatible(w.state, w.anchor.kind)
  BY <1>2 DEF ValidStep, ValidAccountability
<1>9. /\ caller' \in [Callers -> CallerRows] /\ CallersAreSet'
      /\ caller'[c].phase \in {"READY", "TOLD"}
      /\ caller'[c].phase = "TOLD" => caller'[c].answer = "APPLIED"
      /\ caller'[c].fence = caller[c].fence /\ caller'[c].asked = caller[c].asked
      /\ \A d \in Callers \ {c} : caller'[d] = caller[d]
  BY <1>1, ToldFacts
<1> HIDE DEF w
<1>10. /\ audit' \in Seq(AuditRows) /\ Len(audit') = Len(audit) + 1
       /\ \A n \in 1..Len(audit) : audit'[n] = audit[n] /\ n \in 1..Len(audit')
  <2>1. [job |-> j, action |-> "STEP", fact |-> None, error |-> None] \in AuditRows
    BY <1>2 DEF AuditRows
  <2> QED  BY <1>6, <2>1 DEF StepInv, StepTypeOK
<1>11. StepTypeOK'
  <2>1. audit' \in Seq(AuditRows) /\ esc' \in Seq(EscalationRows) /\ outside' \in Nat
    BY <1>1, <1>6, <1>10 DEF StepInv, StepTypeOK
  <2>2. \A i \in Jobs : /\ job'[i].status = "RUNNING" <=> job'[i].owner # None
                        /\ job'[i].status = "COMPLETED" <=> job'[i].completed # None
                        /\ job'[i].status = "DEAD" <=> job'[i].letter # None
    BY <1>3, <1>5 DEF StepInv, StepTypeOK
  <2> QED  BY <1>5, <1>6, <1>7, <1>8, <1>9, <2>1, <2>2 DEF StepTypeOK
<1>12. MovedOncePerJob'
  <2>1. Ended' = Ended \cup {j}
    BY <1>2, <1>5 DEF Ended
  <2>2. Cardinality(Ended') = Cardinality(Ended) + 1 /\ Cardinality(Ended) \in Nat
    BY <1>2, <1>4, <2>1, OneMoreEnded, EndedIsCounted
  <2> QED  BY <1>1, <1>6, <1>10, <2>2 DEF StepInv, StepTypeOK, MovedOncePerJob
<1>13. CompletedWasValid'
  <2> SUFFICES ASSUME NEW i \in Jobs, job'[i].completed # None PROVE ValidStep(job'[i].completed.step)
    BY DEF CompletedWasValid, ValidStep
  <2>1. CASE i = j
    BY <1>2, <1>5, <2>1
  <2>2. CASE i # j
    BY <1>5, <2>2 DEF StepInv, CompletedWasValid
  <2> QED  BY <2>1, <2>2
<1>14. ToldTruth(c)'
  BY <1>1, <1>5, <1>9 DEF ToldTruth, FailedBy
<1>15. ASSUME NEW d \in Callers \ {c} PROVE ToldTruth(d)'
  <2>1. \A i \in Jobs : \/ job'[i] = job[i]
                        \/ /\ job'[i].status = "COMPLETED" /\ job[i].completed = None
                           /\ job'[i].completed.by # d
    BY <1>4, <1>5
  <2> QED  BY <1>9, <2>1, OthersStayTold
<1>16. CompletedMeansWritten'
  <2> SUFFICES ASSUME NEW i \in Jobs, job'[i].status = "COMPLETED",
                      NEW k \in DOMAIN WriteSet[job'[i].completed.step].rows
               PROVE  rows'[k] # None /\ rows'[k].body = WriteSet[job'[i].completed.step].rows[k].body
    BY DEF CompletedMeansWritten
  <2>1. CASE i = j
    <3>1. WriteSet[job'[i].completed.step].rows = w.rows
      BY <1>5, <2>1 DEF w
    <3> QED
      BY <1>7, <3>1
  <2>2. CASE i # j
    <3>1. job'[i] = job[i] /\ job[i].completed \in Completions
      BY <1>5, <2>2, <1>11 DEF StepTypeOK, StepInv, JobRows
    <3>2. k \in Keys
      BY <3>1, StepLedgerAssumption DEF Completions
    <3> QED  BY <1>7, <3>1, <3>2 DEF StepInv, CompletedMeansWritten
  <2> QED  BY <2>1, <2>2
<1>17. FailureTimesAreStored'
  BY <1>5 DEF StepInv, FailureTimesAreStored
<1>18. DeadLettersAreProven'
  <2> SUFFICES ASSUME NEW i \in Jobs, job'[i].status = "DEAD" PROVE LetterIsProven(i)'
    BY DEF DeadLettersAreProven
  <2>1. i # j /\ job'[i] = job[i] /\ LetterIsProven(i)
    BY <1>5 DEF StepInv, DeadLettersAreProven
  <2> QED  BY <1>6, <1>10, <2>1 DEF LetterIsProven
<1>19. StateHasItsOwner'
  BY <1>6, <1>8 DEF StateHasItsOwner, AnchorCompatible
<1> QED  BY <1>9, <1>11, <1>12, <1>13, <1>14, <1>15, <1>16, <1>17, <1>18, <1>19, ToldTruthIsAll DEF StepInv

\* The escalation table after a dead letter: one row joined or opened.
LEMMA EscalationsAfter ==
    ASSUME esc \in Seq(EscalationRows), NEW j \in Jobs, NEW v, NEW x, x = DeadLetterEscalation(j, v),
           NEW after, after = IF x.id > Len(esc) THEN Append(esc, x.row) ELSE [esc EXCEPT ![x.id] = x.row]
    PROVE  /\ after \in Seq(EscalationRows) /\ Len(after) >= Len(esc)
           /\ x.id \in 1..Len(after) /\ after[x.id] = x.row
           /\ \A e \in 1..Len(esc) :
                 /\ esc[e].jobs \subseteq after[e].jobs
                 /\ esc[e].severity = "CRITICAL" => after[e].severity = "CRITICAL"
<1>1. /\ x.row \in EscalationRows /\ x.id \in 1..(Len(esc) + 1) /\ Len(esc) \in Nat
      /\ x.id \in 1..Len(esc) =>
            /\ esc[x.id].jobs \subseteq x.row.jobs
            /\ esc[x.id].severity = "CRITICAL" => x.row.severity = "CRITICAL"
  BY EscalationFacts
<1>2. CASE x.id > Len(esc)
  <2>1. after = Append(esc, x.row) /\ x.id = Len(esc) + 1
    BY <1>1, <1>2
  <2>2. /\ after \in Seq(EscalationRows) /\ Len(after) = Len(esc) + 1 /\ after[Len(esc) + 1] = x.row
        /\ \A e \in 1..Len(esc) : after[e] = esc[e]
    BY <1>1, <2>1
  <2> QED  BY <1>1, <2>1, <2>2
<1>3. CASE ~(x.id > Len(esc))
  <2>1. after = [esc EXCEPT ![x.id] = x.row] /\ x.id \in 1..Len(esc)
    BY <1>1, <1>3
  <2>2. /\ after \in Seq(EscalationRows) /\ Len(after) = Len(esc) /\ after[x.id] = x.row
        /\ \A e \in 1..Len(esc) : e # x.id => after[e] = esc[e]
    BY <1>1, <2>1
  <2> QED  BY <1>1, <2>1, <2>2
<1> QED  BY <1>2, <1>3

\* The last failure: the job dies with its escalation, its audit event and its
\* outbox message.
LEMMA KillKeepsInv ==
    ASSUME StepInv, NEW c \in Callers, NEW lost \in BOOLEAN, FailStep(c, lost),
           FailOutcome(c) = "ESCALATED"
    PROVE  StepInv'
<1> DEFINE j == caller[c].fence.job
           x == DeadLetterEscalation(j, caller[c].asked.severity)
           fact == Fact(x.id, x.row)
           error == caller[c].asked.error
           letter == [fact |-> fact, error |-> error, audit |-> Len(audit) + 1,
                      published |-> [job |-> j, fact |-> fact, error |-> error]]
           event == [job |-> j, action |-> "WORKFLOW_JOB_EXHAUSTED", fact |-> fact, error |-> error]
<1>1. caller[c].phase = "READY" /\ caller[c].asked.kind = "FAIL" /\ Told(c, "ESCALATED", lost)
      /\ Kill(c) /\ UNCHANGED outside
  BY DEF FailStep
<1>2. j \in Jobs /\ caller[c].fence \in Fence /\ caller[c].asked \in FailRequest /\ LiveClaim(c)
  BY <1>1, FailOutcomeFacts
<1>3. /\ Failure(c) \in Failures /\ Failure(c).by = c /\ Failure(c) # None
      /\ Stored(Failure(c).at) = Failure(c).at /\ error \in Errors
  BY <1>2, FailureFacts DEF FailRequest
<1>4. /\ job[j].status = "RUNNING" /\ job[j] \in JobRows /\ job[j].completed = None
      /\ job[j].letter = None /\ j \notin Ended
  BY <1>2, UnendedFacts DEF LiveClaim, OwnedClaim
<1>5. esc \in Seq(EscalationRows) /\ audit \in Seq(AuditRows) /\ job \in [Jobs -> JobRows]
  BY DEF StepInv, StepTypeOK
<1>6. x.row \in EscalationRows /\ j \in x.row.jobs /\ x.id \in 1..(Len(esc) + 1)
  BY <1>2, <1>5, EscalationFacts
<1>7. /\ esc' \in Seq(EscalationRows) /\ Len(esc') >= Len(esc)
      /\ x.id \in 1..Len(esc') /\ esc'[x.id] = x.row
  <2>1. esc' = IF x.id > Len(esc) THEN Append(esc, x.row) ELSE [esc EXCEPT ![x.id] = x.row]
    BY <1>1 DEF Kill
  <2> QED  BY <1>2, <1>5, <2>1, EscalationsAfter
<1>8. /\ audit' = Append(audit, event) /\ job' = [job EXCEPT ![j] =
           [job[j] EXCEPT !.status = "DEAD", !.owner = None, !.live = FALSE,
                          !.failure = Failure(c), !.letter = letter]]
      /\ work'.state = "ESCALATED" /\ work'.version = work.version + 1
      /\ flow'.state = "WAITING" /\ flow'.version = flow.version + 1 /\ flow'.token = flow.token + 1
      /\ anchor'.kind = "ESCALATION" /\ anchor'.reference = x.id
      /\ anchor'.generation = anchor.generation + 1
      /\ UNCHANGED <<rows, outside>>
  BY <1>1 DEF Kill, UpdateAggregates, ReplaceAccountability
<1> HIDE DEF x
<1>9. fact \in Facts
  <2>1. x.id \in Nat
    BY <1>5, <1>6
  <2> QED  BY <1>6, <2>1 DEF Fact, Facts, EscalationRows
<1> HIDE DEF fact, error
<1>10. letter \in Letters /\ letter # None /\ event \in AuditRows
  <2>1. Len(audit) + 1 \in Nat
    BY <1>5
  <2>2. letter \in Letters
    BY <1>2, <1>3, <1>9, <2>1 DEF Letters
  <2>3. event \in AuditRows
    BY <1>2, <1>3, <1>9 DEF AuditRows
  <2> QED  BY <2>2, <2>3, RowAssumption
<1>11. /\ letter.fact = fact /\ letter.error = error /\ letter.audit = Len(audit) + 1 /\ fact.id = x.id
       /\ letter.published = [job |-> j, fact |-> fact, error |-> error]
  BY DEF fact, Fact
<1>12. /\ audit' \in Seq(AuditRows) /\ Len(audit') = Len(audit) + 1 /\ audit'[Len(audit) + 1] = event
       /\ Len(audit) + 1 \in 1..Len(audit')
       /\ \A n \in 1..Len(audit) : audit'[n] = audit[n] /\ n \in 1..Len(audit')
  <2> HIDE DEF event
  <2> QED  BY <1>5, <1>8, <1>10
<1> HIDE DEF letter
<1>13. /\ job' \in [Jobs -> JobRows] /\ job'[j].status = "DEAD" /\ job'[j].owner = None
       /\ job'[j].completed = None /\ job'[j].failure = Failure(c) /\ job'[j].letter = letter
       /\ \A i \in Jobs \ {j} : job'[i] = job[i]
  BY <1>2, <1>3, <1>4, <1>5, <1>8, <1>10 DEF JobRows, JobStatuses
<1>14. /\ caller' \in [Callers -> CallerRows] /\ CallersAreSet'
       /\ caller'[c].phase \in {"READY", "TOLD"}
       /\ caller'[c].phase = "TOLD" => caller'[c].answer = "ESCALATED"
       /\ caller'[c].asked = caller[c].asked
       /\ \A d \in Callers \ {c} : caller'[d] = caller[d]
  BY <1>1, ToldFacts
<1>15. StepTypeOK'
  <2>1. \A i \in Jobs : /\ job'[i].status = "RUNNING" <=> job'[i].owner # None
                        /\ job'[i].status = "COMPLETED" <=> job'[i].completed # None
                        /\ job'[i].status = "DEAD" <=> job'[i].letter # None
    BY <1>10, <1>13 DEF StepInv, StepTypeOK
  <2>2. work'.state \in WorkStates /\ flow'.state \in WorkflowStates /\ anchor'.kind \in AnchorKinds
    BY <1>8 DEF WorkStates, WorkflowStates, AnchorKinds
  <2>3. rows' \in [Keys -> Contents \cup {None}] /\ outside' \in Nat
    BY <1>8 DEF StepInv, StepTypeOK
  <2> QED  BY <1>7, <1>12, <1>13, <1>14, <2>1, <2>2, <2>3 DEF StepTypeOK
<1>16. MovedOncePerJob'
  <2>1. Ended' = Ended \cup {j}
    BY <1>2, <1>13 DEF Ended
  <2>2. Cardinality(Ended') = Cardinality(Ended) + 1 /\ Cardinality(Ended) \in Nat
    BY <1>2, <1>4, <2>1, OneMoreEnded, EndedIsCounted
  <2>3. MovedOncePerJob /\ outside \in Nat /\ outside' = outside
    BY <1>8 DEF StepInv, StepTypeOK
  <2>4. /\ work'.version = work.version + 1 /\ flow'.version = flow.version + 1
        /\ flow'.token = flow.token + 1 /\ anchor'.generation = anchor.generation + 1
        /\ Len(audit') = Len(audit) + 1
    BY <1>8, <1>12
  <2> QED  BY <2>2, <2>3, <2>4, SMTT(30) DEF MovedOncePerJob
<1>17. CompletedWasValid'
  <2> SUFFICES ASSUME NEW i \in Jobs, job'[i].completed # None PROVE ValidStep(job'[i].completed.step)
    BY DEF CompletedWasValid, ValidStep
  <2> QED  BY <1>13 DEF StepInv, CompletedWasValid
<1>18. ToldTruth(c)'
  BY <1>1, <1>14 DEF ToldTruth
<1>19. ASSUME NEW d \in Callers \ {c} PROVE ToldTruth(d)'
  <2>1. \A i \in Jobs : \/ job'[i] = job[i]
                        \/ job'[i].failure.by # d /\ job'[i].completed = job[i].completed
    BY <1>3, <1>4, <1>13
  <2> QED  BY <1>14, <2>1, OthersStayTold
<1>20. CompletedMeansWritten'
  BY <1>8, <1>13 DEF StepInv, CompletedMeansWritten
<1>21. FailureTimesAreStored'
  BY <1>3, <1>13 DEF StepInv, FailureTimesAreStored
<1>22. DeadLettersAreProven'
  <2> SUFFICES ASSUME NEW i \in Jobs, job'[i].status = "DEAD" PROVE LetterIsProven(i)'
    BY DEF DeadLettersAreProven
  <2>1. CASE i = j
    BY <1>7, <1>10, <1>11, <1>12, <1>13, <2>1 DEF LetterIsProven
  <2>2. CASE i # j
    <3>1. job'[i] = job[i] /\ LetterIsProven(i)
      BY <1>13, <2>2 DEF StepInv, DeadLettersAreProven
    <3>2. \A n \in 1..Len(esc) : n \in 1..Len(esc')
      BY <1>5, <1>7
    <3> QED  BY <1>12, <3>1, <3>2 DEF LetterIsProven
  <2> QED  BY <2>1, <2>2
<1>23. StateHasItsOwner'
  BY <1>6, <1>7, <1>8, <1>13 DEF StateHasItsOwner
<1> QED  BY <1>14, <1>15, <1>16, <1>17, <1>18, <1>19, <1>20, <1>21, <1>22, <1>23, ToldTruthIsAll DEF StepInv

-----------------------------------------------------------------------------
(***************************************************************************)
(* Steps of everyone else.                                                 *)
(***************************************************************************)
\* The API moves the work item, a child row is delayed, an operator attends.
LEMMA OutsideKeepsInv ==
    ASSUME StepInv,
           \/ MoveOutside
           \/ \E k \in Keys : Delay(k)
           \/ AttendStep
    PROVE  StepInv'
<1>1. UNCHANGED <<job, caller, audit, flow>>
  BY DEF MoveOutside, Delay, AttendStep, Attend
<1>2. \A d \in Callers : ToldTruth(d)'
  BY <1>1, OthersStayTold
<1>3. CallersAreSet' /\ CompletedWasValid' /\ FailureTimesAreStored' /\ Ended' = Ended
  BY <1>1 DEF StepInv, CallersAreSet, CompletedWasValid, FailureTimesAreStored, ValidStep, Ended
<1>4. CASE MoveOutside
  <2>1. /\ outside' = outside + 1 /\ work'.state = "CANCEL_REQUESTED" /\ work'.version = work.version + 1
        /\ anchor'.kind = "WORKFLOW" /\ anchor'.generation = anchor.generation + 1
        /\ UNCHANGED <<rows, esc>>
    BY <1>4 DEF MoveOutside, ReplaceAccountability
  <2>2. MovedOncePerJob'
    BY <1>1, <1>3, <2>1, EndedIsCounted DEF StepInv, StepTypeOK, MovedOncePerJob
  <2>3. StepTypeOK'
    <3>1. outside' \in Nat /\ work'.state \in WorkStates /\ anchor'.kind \in AnchorKinds
      BY <2>1 DEF StepInv, StepTypeOK, WorkStates, AnchorKinds
    <3> QED  BY <1>1, <2>1, <3>1 DEF StepInv, StepTypeOK
  <2>4. CompletedMeansWritten' /\ DeadLettersAreProven'
    BY <1>1, <2>1 DEF StepInv, CompletedMeansWritten, DeadLettersAreProven, LetterIsProven
  <2>5. StateHasItsOwner'
    BY <2>1 DEF StateHasItsOwner
  <2> QED  BY <1>2, <1>3, <2>2, <2>3, <2>4, <2>5, ToldTruthIsAll DEF StepInv
<1>5. ASSUME NEW k \in Keys, Delay(k) PROVE StepInv'
  <2>1. rows[k] \in Contents /\ rows' = [rows EXCEPT ![k].due = 1] /\ UNCHANGED <<work, anchor, esc, outside>>
    BY <1>5 DEF Delay, StepInv, StepTypeOK
  <2>2. /\ rows'[k] \in Contents /\ rows'[k].body = rows[k].body /\ rows'[k] # None
        /\ rows' \in [Keys -> Contents \cup {None}]
        /\ \A i \in Keys \ {k} : rows'[i] = rows[i]
    <3> DEFINE n == [rows[k] EXCEPT !.due = 1]
    <3>1. n \in Contents /\ n.body = rows[k].body
      BY <2>1 DEF Contents
    <3>2. rows' = [rows EXCEPT ![k] = n] /\ rows \in [Keys -> Contents \cup {None}]
      BY <2>1 DEF StepInv, StepTypeOK
    <3> HIDE DEF n
    <3> QED  BY <3>1, <3>2, RowAssumption
  <2>3. StepTypeOK' /\ MovedOncePerJob' /\ StateHasItsOwner' /\ DeadLettersAreProven'
    BY <1>1, <1>3, <2>1, <2>2 DEF StepInv, StepTypeOK, MovedOncePerJob, StateHasItsOwner,
                                  DeadLettersAreProven, LetterIsProven
  <2>4. CompletedMeansWritten'
    <3> SUFFICES ASSUME NEW i \in Jobs, job[i].status = "COMPLETED",
                        NEW m \in DOMAIN WriteSet[job[i].completed.step].rows
                 PROVE  rows'[m] # None /\ rows'[m].body = WriteSet[job[i].completed.step].rows[m].body
      BY <1>1 DEF CompletedMeansWritten
    <3>1. job[i].completed \in Completions
      BY DEF StepInv, StepTypeOK, JobRows
    <3>2. m \in Keys
      BY <3>1, StepLedgerAssumption DEF Completions
    <3> QED  BY <2>2, <3>2 DEF StepInv, CompletedMeansWritten
  <2> QED  BY <1>2, <1>3, <2>3, <2>4, ToldTruthIsAll DEF StepInv
<1>6. ASSUME NEW e \in 1..Len(esc), NEW st \in {"ACKNOWLEDGED", "RESOLVED"}, Attend(e, st) PROVE StepInv'
  <2>1. /\ esc \in Seq(EscalationRows) /\ esc' = [esc EXCEPT ![e] = [esc[e] EXCEPT !.status = st, !.version = @ + 1]]
        /\ UNCHANGED <<work, anchor, rows, outside>>
    BY <1>6 DEF Attend, StepInv, StepTypeOK
  <2>2. esc[e] \in EscalationRows
    BY <2>1, EscalationsAreRows
  <2>3. esc[e].version + 1 \in Nat
    BY <2>2 DEF EscalationRows
  <2> DEFINE n == [esc[e] EXCEPT !.status = st, !.version = @ + 1]
  <2>4. n \in EscalationRows /\ n.jobs = esc[e].jobs
    BY <2>2, <2>3 DEF EscalationRows
  <2> HIDE DEF n
  <2>5. /\ esc' \in Seq(EscalationRows) /\ Len(esc') = Len(esc)
        /\ \A i \in 1..Len(esc) : esc'[i].jobs = esc[i].jobs
    BY <2>1, <2>4 DEF n
  <2>6. StepTypeOK' /\ MovedOncePerJob' /\ CompletedMeansWritten'
    BY <1>1, <1>3, <2>1, <2>5 DEF StepInv, StepTypeOK, MovedOncePerJob, CompletedMeansWritten
  <2>7. StateHasItsOwner' /\ DeadLettersAreProven'
    BY <1>1, <2>1, <2>5 DEF StepInv, StateHasItsOwner, DeadLettersAreProven, LetterIsProven
  <2> QED  BY <1>2, <1>3, <2>6, <2>7, ToldTruthIsAll DEF StepInv
<1> QED  BY <1>4, <1>5, <1>6 DEF AttendStep

\* Every step keeps the invariant.
LEMMA StepInvStep == StepInv /\ [StepNext]_stepVars => StepInv'
<1> SUFFICES ASSUME StepInv, [StepNext]_stepVars PROVE StepInv'  OBVIOUS
<1>1. ASSUME NEW c \in Callers, NEW j \in Jobs, ClaimStep(c, j) PROVE StepInv'
  BY <1>1, ClaimKeepsInv
<1>2. ASSUME NEW c \in Callers,
             \/ \E r \in StepRequests : Prepare(c, r) \/ Reconsider(c, r)
             \/ Forget(c)
      PROVE  StepInv'
  BY <1>2, AskingKeepsInv
<1>3. ASSUME NEW c \in Callers, NEW lost \in BOOLEAN, CommitStep(c, lost) PROVE StepInv'
  <2>1. CASE CommitOutcome(c) = "APPLIED"
    BY <1>3, <2>1, ApplyKeepsInv
  <2>2. CASE CommitOutcome(c) # "APPLIED"
    <3>1. UNCHANGED <<tables, outside>>
      BY <1>3, <2>2 DEF CommitStep
    <3> QED  BY <1>3, <2>2, <3>1, RefusalKeepsInv
  <2> QED  BY <2>1, <2>2
<1>4. ASSUME NEW c \in Callers, NEW lost \in BOOLEAN, FailStep(c, lost) PROVE StepInv'
  <2>1. CASE FailOutcome(c) = "ESCALATED"
    BY <1>4, <2>1, KillKeepsInv
  <2>2. CASE FailOutcome(c) = "RETRY_SCHEDULED"
    BY <1>4, <2>2, RequeueKeepsInv
  <2>3. CASE FailOutcome(c) \notin {"ESCALATED", "RETRY_SCHEDULED"}
    <3>1. UNCHANGED <<tables, outside>>
      BY <1>4, <2>3 DEF FailStep
    <3>2. FailOutcome(c) \in {"CONFLICT", "REPEATED"}
      BY <1>4, <2>3, FailOutcomeFacts DEF FailStep
    <3> QED  BY <1>4, <3>1, <3>2, RefusalKeepsInv
  <2> QED  BY <2>1, <2>2, <2>3
<1>5. ASSUME MoveOutside \/ (\E k \in Keys : Delay(k)) \/ AttendStep PROVE StepInv'
  BY <1>5, OutsideKeepsInv
<1>6. CASE UNCHANGED stepVars
  <2>1. UNCHANGED <<tables, outside>> /\ UNCHANGED <<job, caller>>
    BY <1>6 DEF stepVars, tables
  <2>2. \A d \in Callers : ToldTruth(d)'
    BY <2>1, OthersStayTold
  <2>3. caller' \in [Callers -> CallerRows] /\ CallersAreSet'
    BY <2>1 DEF StepInv, StepTypeOK, CallersAreSet
  <2> QED  BY <2>1, <2>2, <2>3, QuietKeepsInv
<1> QED  BY <1>1, <1>2, <1>3, <1>4, <1>5, <1>6 DEF StepNext, CallerStep

-----------------------------------------------------------------------------
\* The inductive invariant holds in every reachable state.
THEOREM StepInvariant == StepSpec => []StepInv
BY StepInitInv, StepInvStep, PTL DEF StepSpec

(***************************************************************************)
(* A step ends once and as it was told: each job moves the aggregates, the *)
(* fence and the anchor once, success means that this very claim wrote     *)
(* this very write set, and a resting work item has what ends its rest     *)
(* (steps.rs: commit_workflow_step, fail_workflow_step).                   *)
(***************************************************************************)
THEOREM StepsStayTrue == StepSpec => []StepsAreTrue
<1>1. StepInv => StepsAreTrue
  BY DEF StepInv, StepsAreTrue
<1> QED  BY <1>1, StepInvariant, PTL

\* A dead letter joins or opens an escalation and takes nothing from any
\* (merge_active_dead_letter).
LEMMA StepGrowsEscalations ==
    ASSUME StepInv, StepNext, NEW e \in 1..Len(esc)
    PROVE  /\ esc[e].jobs \subseteq esc'[e].jobs
           /\ esc[e].severity = "CRITICAL" => esc'[e].severity = "CRITICAL"
<1>1. esc \in Seq(EscalationRows) /\ esc[e] \in EscalationRows
  BY EscalationsAreRows DEF StepInv, StepTypeOK
<1>2. ASSUME NEW c \in Callers, NEW lost \in BOOLEAN, FailStep(c, lost), FailOutcome(c) = "ESCALATED"
      PROVE  /\ esc[e].jobs \subseteq esc'[e].jobs
             /\ esc[e].severity = "CRITICAL" => esc'[e].severity = "CRITICAL"
  <2> DEFINE j == caller[c].fence.job
             x == DeadLetterEscalation(j, caller[c].asked.severity)
  <2>1. j \in Jobs /\ Kill(c)
    BY <1>2, FailOutcomeFacts DEF FailStep
  <2>2. esc' = IF x.id > Len(esc) THEN Append(esc, x.row) ELSE [esc EXCEPT ![x.id] = x.row]
    BY <2>1 DEF Kill
  <2> QED  BY <1>1, <2>1, <2>2, EscalationsAfter
<1>3. ASSUME NEW i \in 1..Len(esc), NEW st, Attend(i, st)
      PROVE  esc'[e].jobs = esc[e].jobs /\ esc'[e].severity = esc[e].severity
  <2>1. esc[i] \in EscalationRows /\ esc' = [esc EXCEPT ![i] = [esc[i] EXCEPT !.status = st, !.version = @ + 1]]
    BY <1>1, <1>3, EscalationsAreRows DEF Attend
  <2>2. CASE e = i
    <3> DEFINE n == [esc[i] EXCEPT !.status = st, !.version = @ + 1]
    <3>1. n.jobs = esc[i].jobs /\ n.severity = esc[i].severity
      BY <2>1 DEF EscalationRows
    <3>2. esc' = [esc EXCEPT ![i] = n]
      BY <2>1
    <3> HIDE DEF n
    <3>3. esc'[i] = n
      BY <1>1, <3>2
    <3> QED  BY <2>2, <3>1, <3>3
  <2>3. CASE e # i
    BY <1>1, <2>1, <2>3
  <2> QED  BY <2>2, <2>3
<1>4. \/ UNCHANGED esc
      \/ \E c \in Callers, lost \in BOOLEAN : FailStep(c, lost) /\ FailOutcome(c) = "ESCALATED"
      \/ \E i \in 1..Len(esc), st \in {"ACKNOWLEDGED", "RESOLVED"} : Attend(i, st)
  <2>1. ASSUME NEW c \in Callers, NEW lost \in BOOLEAN, CommitStep(c, lost) PROVE UNCHANGED esc
    BY <2>1 DEF CommitStep, ApplyStep, tables
  <2>2. ASSUME NEW c \in Callers, NEW lost \in BOOLEAN, FailStep(c, lost), FailOutcome(c) # "ESCALATED"
        PROVE  UNCHANGED esc
    BY <2>2 DEF FailStep, Requeue, tables
  <2>3. ASSUME NEW c \in Callers,
               \/ \E r \in StepRequests : Prepare(c, r) \/ Reconsider(c, r)
               \/ Forget(c)
        PROVE  UNCHANGED esc
    BY <2>3 DEF Prepare, Reconsider, Forget, tables
  <2>4. ASSUME \/ \E c \in Callers, j \in Jobs : ClaimStep(c, j)
               \/ MoveOutside \/ \E k \in Keys : Delay(k)
        PROVE  UNCHANGED esc
    BY <2>4 DEF ClaimStep, Claim, Expire, MoveOutside, Delay
  <2> QED  BY <2>1, <2>2, <2>3, <2>4 DEF StepNext, CallerStep, AttendStep
<1> QED  BY <1>2, <1>3, <1>4

(***************************************************************************)
(* A failure is owned by an escalation that only grows, can be proved from *)
(* what the dead job names, and is recognised when it is reported again    *)
(* (steps.rs: insert_dead_letter_escalation, verify_dead_letter_exists,    *)
(* repeated_failure_outcome).                                              *)
(***************************************************************************)
THEOREM FailuresStayOwned == StepSpec => FailuresAreOwned
<1> DEFINE Grow == \A e \in 1..Len(esc) : /\ esc[e].jobs \subseteq esc'[e].jobs
                                          /\ esc[e].severity = "CRITICAL" => esc'[e].severity = "CRITICAL"
<1>1. StepInv => DeadLettersAreProven /\ FailureIsRecognised /\ RecognisedIsStored
  BY DEF StepInv
<1>2. StepInv /\ [StepNext]_stepVars => [Grow]_stepVars
  BY StepGrowsEscalations
<1> HIDE DEF Grow
<1>3. StepSpec => [](DeadLettersAreProven /\ FailureIsRecognised /\ RecognisedIsStored) /\ [][Grow]_stepVars
  BY <1>1, <1>2, StepInvariant, PTL DEF StepSpec
<1> QED  BY <1>3 DEF Grow, FailuresAreOwned, EscalationsOnlyGrow

-----------------------------------------------------------------------------
(***************************************************************************)
(* The attention queue.                                                    *)
(***************************************************************************)
\* What the tables of receipts and answers hold.
Entries == [request : Requests, result : Snapshot]
EntryTables == [Unbound -> [1..2 -> SUBSET Entries]]

\* The keys a cursor can hold.
CursorKeys == (1..5) \X (1..MaxDeadline) \X (1..Cardinality(Ids))

\* What the properties leave open of the rows' types.
AttentionRows ==
    /\ workState \in {"ACTIVE", "ESCALATED"} /\ dead \subseteq Bound \cup Unbound
    /\ owner \in [Bound \cup Unbound -> Nat]
    /\ escalations \in [Numbers -> Record] /\ incidents \in [Unbound -> Record]
    /\ receipts \in EntryTables /\ answers \in EntryTables
    /\ reader \in [cursor : {NoCursor} \cup CursorKeys, shown : SUBSET Ids,
                   twice : BOOLEAN, steady : SUBSET Ids, walks : Nat]

\* Every obligation has its owner.
Covered ==
    /\ \A j \in dead : owner[j] # Nobody
    /\ workState = "ESCALATED" => OpenEscalations # {}

\* A record the reader was shown stays at or before the cursor as long as it
\* is open, and cannot be opened a second time.
ShownIsPassed ==
    \A id \in reader.shown :
        /\ reader.cursor # NoCursor
        /\ RecordOf(id).status # "NONE"
        /\ id \in Open => ~compare_attention_items(reader.cursor, Key(RecordOf(id), id))

\* A steady record is open, and the reader has seen it or will come to it.
SteadyIsAhead ==
    \A id \in reader.steady :
        /\ reader.cursor # NoCursor
        /\ id \in Open
        /\ id \in reader.shown \/ compare_attention_items(reader.cursor, Key(RecordOf(id), id))

\* The version of an incident is its place in the life cycle.
StatusAt(v) == CASE v = 0 -> {"NONE"}
                 [] v = 1 -> {"OPEN"}
                 [] v = 2 -> {"ACKNOWLEDGED"}
                 [] v = 3 -> {"RESOLVED", "CANCELLED"}

\* An incident starts with its job's death, its version counts its receipts,
\* each is of one request and the last one led to where it is, and what was
\* answered is a receipt.
IncidentHistory(j) ==
    /\ j \notin dead => incidents[j] = NoRecord
    /\ incidents[j].status \in StatusAt(incidents[j].version)
    /\ \A v \in 1..2 :
          /\ receipts[j][v] # {} <=> v < incidents[j].version
          /\ receipts[j][v] = {} \/ \E q \in Requests : receipts[j][v] = {Receipt(q, v)}
          /\ answers[j][v] \subseteq receipts[j][v]
    /\ incidents[j].version > 1 =>
          \E q \in Requests :
              receipts[j][incidents[j].version - 1]
                  = {[request |-> q, result |-> [status |-> incidents[j].status,
                                                 version |-> incidents[j].version]]}

AttentionInv ==
    /\ AttentionRows
    /\ Covered
    /\ ~reader.twice
    /\ ShownIsPassed
    /\ SteadyIsAhead
    /\ \A j \in Unbound : IncidentHistory(j)
-----------------------------------------------------------------------------
(***************************************************************************)
(* The order of the queue.                                                 *)
(***************************************************************************)
\* A key can be compared.
IsKey(k) == k[1] \in Int /\ k[2] \in Int /\ k[3] \in Int

\* Urgency is a strict order (compare_attention_items).
LEMMA UrgencyIsStrict ==
    ASSUME NEW a, NEW b, NEW c, IsKey(a), IsKey(b), IsKey(c)
    PROVE  /\ ~compare_attention_items(a, a)
           /\ compare_attention_items(a, b) => ~compare_attention_items(b, a)
           /\ compare_attention_items(a, b) /\ compare_attention_items(b, c)
                 => compare_attention_items(a, c)
           /\ a[3] # b[3] => compare_attention_items(a, b) \/ compare_attention_items(b, a)
BY DEF IsKey, compare_attention_items

\* There are finitely many records to show.
LEMMA IdsAreFinite == IsFiniteSet(Ids)
<1>1. IsFiniteSet(Numbers)
  BY AttentionAssumption, FS_Interval DEF Numbers
<1>2. IsFiniteSet({"ESCALATION"}) /\ IsFiniteSet({"OPERATIONAL_INCIDENT"})
  BY FS_Singleton
<1>3. IsFiniteSet({"ESCALATION"} \X Numbers)
  BY <1>1, <1>2, FS_Product
<1>4. IsFiniteSet({"OPERATIONAL_INCIDENT"} \X Unbound)
  BY <1>2, FS_Product, AttentionAssumption
<1> QED
  BY <1>3, <1>4, FS_Union DEF Ids

\* The identity that ends a tie exists and tells any two records apart.
LEMMA PlaceIsInjective ==
    /\ Place \in [Ids -> 1..Cardinality(Ids)]
    /\ \A a, b \in Ids : a # b => Place[a] # Place[b]
<1> DEFINE n == Cardinality(Ids)
<1>1. ExistsBijection(1..n, Ids)
  BY IdsAreFinite, FS_CardinalityType
<1>2. ExistsBijection(Ids, 1..n)
  BY <1>1, Fun_ExistsBijSymmetric
<1>3. PICK f : f \in Bijection(Ids, 1..n)
  BY <1>2 DEF ExistsBijection
<1>4. /\ f \in [Ids -> 1..n]
      /\ \A a, b \in Ids : a # b => f[a] # f[b]
  BY <1>3 DEF Bijection, Injection, IsInjective
<1> QED
  BY <1>4 DEF Place

\* A record's key is one a cursor can hold.
LEMMA KeysAreKeys ==
    ASSUME NEW r \in Record, NEW id \in Ids
    PROVE  /\ Key(r, id) \in CursorKeys
           /\ Key(r, id)[1] = rank[r.severity]
           /\ Key(r, id)[2] = r.deadline
           /\ Key(r, id)[3] = Place[id]
<1>1. r.severity \in RecordSeverities /\ r.deadline \in 1..MaxDeadline
  BY DEF Record
<1>2. \A s \in RecordSeverities : rank[s] \in 1..5
  BY DEF RecordSeverities, rank
<1>3. Place[id] \in 1..Cardinality(Ids)
  BY PlaceIsInjective
<1> QED
  BY <1>1, <1>2, <1>3 DEF Key, CursorKeys

\* A cursor is a key, and never the lack of one.
LEMMA CursorsAreKeys ==
    ASSUME NEW k \in CursorKeys
    PROVE  IsKey(k) /\ k # NoCursor
<1>0. Cardinality(Ids) \in Nat /\ MaxDeadline \in Nat
  BY IdsAreFinite, FS_CardinalityType, AttentionAssumption
<1>1. IsKey(k)
  BY <1>0 DEF CursorKeys, IsKey
<1>2. k # NoCursor
  BY DEF CursorKeys, NoCursor
<1> QED
  BY <1>1, <1>2
\* The rows B in the order lt, and those of them with fewer than `limit`
\* rows before them.
Ordered(B, lt) ==
    /\ \A a \in B : <<a, a>> \notin lt
    /\ \A a, b \in B : a # b => <<a, b>> \in lt \/ <<b, a>> \in lt
    /\ \A a, b, c \in B : <<a, b>> \in lt /\ <<b, c>> \in lt => <<a, c>> \in lt

First(B, lt, limit) == {x \in B : Cardinality({o \in B : <<o, x>> \in lt}) < limit}

\* Of the rows in an order, those with fewer than `limit` rows before them
\* come before all others, and one of them is the last.
LEMMA FirstRows ==
    ASSUME NEW B, IsFiniteSet(B), NEW lt, Ordered(B, lt), NEW limit \in Nat,
           NEW P, P = First(B, lt, limit)
    PROVE  /\ \A p \in P, x \in B \ P : <<p, x>> \in lt
           /\ P # {} => \E l \in P : \A o \in P : o = l \/ <<o, l>> \in lt
<1> DEFINE before(x) == {o \in B : <<o, x>> \in lt}
<1>1. \A x \in B : IsFiniteSet(before(x)) /\ Cardinality(before(x)) \in Nat
  <2> SUFFICES ASSUME NEW x \in B
               PROVE  IsFiniteSet(before(x)) /\ Cardinality(before(x)) \in Nat
    OBVIOUS
  <2>1. before(x) \in SUBSET B
    OBVIOUS
  <2>2. IsFiniteSet(before(x))
    BY <2>1, FS_Subset
  <2> QED
    BY <2>2, FS_CardinalityType
<1>2. \A x, y \in B : <<x, y>> \in lt => Cardinality(before(x)) + 1 <= Cardinality(before(y))
  <2> SUFFICES ASSUME NEW x \in B, NEW y \in B, <<x, y>> \in lt
               PROVE  Cardinality(before(x)) + 1 <= Cardinality(before(y))
    OBVIOUS
  <2> DEFINE S == before(x) \cup {x}
  <2>1. S \in SUBSET before(y)
    BY DEF Ordered
  <2>2. x \notin before(x)
    BY DEF Ordered
  <2>3. Cardinality(S) = Cardinality(before(x)) + 1
    <3> HIDE DEF before
    <3> QED
      BY <1>1, <2>2, FS_AddElement
  <2>4. Cardinality(S) <= Cardinality(before(y))
    <3> HIDE DEF before, S
    <3> QED
      BY <1>1, <2>1, FS_Subset
  <2> QED
    BY <2>3, <2>4
<1>3. P = {x \in B : Cardinality(before(x)) < limit}
  BY DEF First
<1> HIDE DEF before
<1>4. ASSUME NEW p \in P, NEW x \in B \ P
      PROVE  <<p, x>> \in lt
  <2>1. p \in B /\ p # x
    BY <1>3
  <2>2. <<x, p>> \notin lt
    <3> SUFFICES ASSUME <<x, p>> \in lt
                 PROVE  FALSE
      OBVIOUS
    <3>1. Cardinality(before(x)) + 1 <= Cardinality(before(p))
      BY <1>2, <2>1
    <3> QED
      BY <1>1, <1>3, <2>1, <3>1
  <2> QED
    BY <2>1, <2>2 DEF Ordered
<1>5. ASSUME P # {}
      PROVE  \E l \in P : \A o \in P : o = l \/ <<o, l>> \in lt
  <2> DEFINE T == {limit - Cardinality(before(p)) : p \in P}
  <2>1. T \subseteq Nat /\ T # {}
    <3>1. \A p \in P : limit - Cardinality(before(p)) \in Nat
      BY <1>1, <1>3
    <3> QED
      BY <1>5, <3>1
  <2>2. PICK m \in T : \A y \in T : <<y, m>> \notin OpToRel(<, Nat)
    <3> HIDE DEF T
    <3> QED
      BY <2>1, NatLessThanWellFounded, WFMin
  <2>3. PICK l \in P : m = limit - Cardinality(before(l))
    OBVIOUS
  <2>4. ASSUME NEW o \in P, o # l, <<l, o>> \in lt
        PROVE  FALSE
    <3>1. o \in B /\ l \in B
      BY <1>3
    <3>2. Cardinality(before(l)) + 1 <= Cardinality(before(o))
      BY <1>2, <2>4, <3>1
    <3>3. limit - Cardinality(before(o)) \in T
      OBVIOUS
    <3>4. limit - Cardinality(before(o)) < m
      BY <1>1, <2>3, <3>1, <3>2
    <3>5. <<limit - Cardinality(before(o)), m>> \in OpToRel(<, Nat)
      <4> HIDE DEF T
      <4> QED
        BY <2>1, <3>3, <3>4 DEF OpToRel
    <3> QED
      BY <2>2, <3>3, <3>5
  <2> QED
    BY <1>3, <2>4 DEF Ordered
<1> QED
  BY <1>4, <1>5

-----------------------------------------------------------------------------
(***************************************************************************)
(* A page of the queue.                                                    *)
(***************************************************************************)
\* Where the record stands now.
KeyOf(id) == Key(RecordOf(id), id)

\* The records of both tables are records, and their keys are keys.
LEMMA RecordsAreRecords ==
    ASSUME AttentionRows, NEW id \in Ids
    PROVE  /\ RecordOf(id) \in Record
           /\ KeyOf(id) \in CursorKeys
           /\ IsKey(KeyOf(id))
           /\ KeyOf(id) # NoCursor
           /\ KeyOf(id)[3] = Place[id]
<1>1. RecordOf(id) \in Record
  BY DEF AttentionRows, RecordOf, Ids
<1> QED
  BY <1>1, KeysAreKeys, CursorsAreKeys DEF KeyOf

\* The rows of a page come before every other row beyond the cursor, and the
\* new cursor is behind all of them (attention).
LEMMA PageIsFirst ==
    ASSUME AttentionRows
    PROVE  /\ Page \subseteq Beyond /\ Beyond \subseteq Open /\ Open \subseteq Ids
           /\ \A p \in Page, x \in Beyond \ Page : compare_attention_items(KeyOf(p), KeyOf(x))
           /\ Page # {} =>
                 /\ LastRow(Page) \in Page
                 /\ \A o \in Page : \/ o = LastRow(Page)
                                    \/ compare_attention_items(KeyOf(o), KeyOf(LastRow(Page)))
<1>1. Page \subseteq Beyond /\ Beyond \subseteq Open /\ Open \subseteq Ids
  BY DEF Page, Beyond, Open
<1> DEFINE lt == {pair \in Ids \X Ids : compare_attention_items(KeyOf(pair[1]), KeyOf(pair[2]))}
<1>2. \A a, b \in Ids : <<a, b>> \in lt <=> compare_attention_items(KeyOf(a), KeyOf(b))
  OBVIOUS
<1> HIDE DEF lt
<1>3. IsFiniteSet(Beyond)
  BY <1>1, IdsAreFinite, FS_Subset
<1>4. \A a \in Beyond : <<a, a>> \notin lt
  BY <1>1, <1>2, RecordsAreRecords, UrgencyIsStrict
<1>5. \A a, b \in Beyond : a # b => <<a, b>> \in lt \/ <<b, a>> \in lt
  BY <1>1, <1>2, RecordsAreRecords, UrgencyIsStrict, PlaceIsInjective
<1>6. \A a, b, c \in Beyond : <<a, b>> \in lt /\ <<b, c>> \in lt => <<a, c>> \in lt
  <2> SUFFICES ASSUME NEW a \in Beyond, NEW b \in Beyond, NEW c \in Beyond,
                      <<a, b>> \in lt, <<b, c>> \in lt
               PROVE  <<a, c>> \in lt
    OBVIOUS
  <2>1. IsKey(KeyOf(a)) /\ IsKey(KeyOf(b)) /\ IsKey(KeyOf(c))
    BY <1>1, RecordsAreRecords
  <2> QED
    BY <1>1, <1>2, <2>1, UrgencyIsStrict
<1>7. Page = First(Beyond, lt, Limit)
  <2>1. \A x \in Beyond : {o \in Beyond : <<o, x>> \in lt}
                          = {o \in Beyond : compare_attention_items(Key(RecordOf(o), o), Key(RecordOf(x), x))}
    BY <1>1, <1>2 DEF KeyOf
  <2> QED
    BY <2>1 DEF Page, First
<1>8. Limit \in Nat
  BY AttentionAssumption
<1>9. /\ \A p \in Page, x \in Beyond \ Page : <<p, x>> \in lt
      /\ Page # {} => \E l \in Page : \A o \in Page : o = l \/ <<o, l>> \in lt
  <2>1. Ordered(Beyond, lt)
    BY <1>4, <1>5, <1>6 DEF Ordered
  <2> QED
    BY <1>3, <1>7, <1>8, <2>1, FirstRows
<1>10. \A p \in Page, x \in Beyond \ Page : compare_attention_items(KeyOf(p), KeyOf(x))
  BY <1>1, <1>2, <1>9
<1>11. ASSUME Page # {}
       PROVE  /\ LastRow(Page) \in Page
              /\ \A o \in Page : \/ o = LastRow(Page)
                                 \/ compare_attention_items(KeyOf(o), KeyOf(LastRow(Page)))
  <2>1. \E l \in Page : \A o \in Page :
           o = l \/ compare_attention_items(Key(RecordOf(o), o), Key(RecordOf(l), l))
    BY <1>1, <1>2, <1>9, <1>11 DEF KeyOf
  <2> QED
    BY <2>1 DEF LastRow, KeyOf
<1> QED
  BY <1>1, <1>10, <1>11

-----------------------------------------------------------------------------
(***************************************************************************)
(* Records move under the reader.                                          *)
(***************************************************************************)
\* Merging keeps the record and never makes it less urgent
\* (MERGE_ACTIVE_ESCALATION_SQL).
LEMMA MergingIsUrgent ==
    ASSUME NEW r \in Record, NEW s \in {"HIGH", "CRITICAL"}, NEW d \in 1..MaxDeadline,
           NEW id \in Ids, NEW m, m = merge_active_dead_letter(r, s, d)
    PROVE  /\ m \in Record /\ m.status = r.status /\ m.version = r.version
           /\ Key(m, id) = Key(r, id) \/ compare_attention_items(Key(m, id), Key(r, id))
<1>1. /\ m.status = r.status /\ m.version = r.version
      /\ m.severity = IF s = "CRITICAL" THEN s ELSE r.severity
      /\ m.deadline = IF d < r.deadline THEN d ELSE r.deadline
      /\ DOMAIN m = DOMAIN r
  BY DEF merge_active_dead_letter, Record
<1>2. s \in RecordSeverities /\ r.severity \in RecordSeverities /\ r.deadline \in 1..MaxDeadline
  BY DEF RecordSeverities, rank, Record
<1>3. m \in Record
  BY <1>2 DEF merge_active_dead_letter, Record
<1>4. rank["CRITICAL"] = 5 /\ rank[r.severity] \in 1..5 /\ (rank[r.severity] = 5 => r.severity = "CRITICAL")
  BY <1>2 DEF rank, RecordSeverities
<1>5. MaxDeadline \in Nat
  BY AttentionAssumption
<1>6. CASE m.severity = r.severity
  <2>1. CASE d < r.deadline
    <3>1. compare_attention_items(Key(m, id), Key(r, id))
      BY <1>1, <1>2, <1>3, <1>4, <1>5, <1>6, <2>1, KeysAreKeys DEF compare_attention_items
    <3> QED
      BY <1>1, <1>3, <3>1
  <2>2. CASE ~(d < r.deadline)
    <3>1. Key(m, id) = Key(r, id)
      BY <1>1, <1>6, <2>2 DEF Key
    <3> QED
      BY <1>1, <1>3, <3>1
  <2> QED
    BY <2>1, <2>2
<1>7. CASE m.severity # r.severity
  <2>1. m.severity = "CRITICAL" /\ rank[m.severity] > rank[r.severity]
    BY <1>1, <1>4, <1>7
  <2>2. Key(m, id)[1] > Key(r, id)[1]
    BY <1>3, <2>1, KeysAreKeys
  <2>3. compare_attention_items(Key(m, id), Key(r, id))
    BY <2>2 DEF compare_attention_items
  <2> QED
    BY <1>1, <1>3, <2>3
<1> QED
  BY <1>6, <1>7

\* An escalation changes and no other record.
LEMMA OneEscalationMoves ==
    ASSUME NEW n \in Numbers, \A m \in Numbers : m # n => escalations'[m] = escalations[m],
           incidents' = incidents
    PROVE  /\ <<"ESCALATION", n>> \in Ids
           /\ RecordOf(<<"ESCALATION", n>>) = escalations[n]
           /\ RecordOf(<<"ESCALATION", n>>)' = escalations'[n]
           /\ \A id \in Ids : id # <<"ESCALATION", n>> => RecordOf(id)' = RecordOf(id)
BY DEF Ids, RecordOf

\* An incident changes and no other record.
LEMMA OneIncidentMoves ==
    ASSUME NEW j \in Unbound, \A k \in Unbound : k # j => incidents'[k] = incidents[k],
           escalations' = escalations
    PROVE  /\ <<"OPERATIONAL_INCIDENT", j>> \in Ids
           /\ RecordOf(<<"OPERATIONAL_INCIDENT", j>>) = incidents[j]
           /\ RecordOf(<<"OPERATIONAL_INCIDENT", j>>)' = incidents'[j]
           /\ \A id \in Ids : id # <<"OPERATIONAL_INCIDENT", j>> => RecordOf(id)' = RecordOf(id)
BY DEF Ids, RecordOf

\* A record the reader was shown may only grow more urgent or close; one it
\* still counts on must stay where it is.
LEMMA ReaderIsKept ==
    ASSUME AttentionRows, AttentionRows', ShownIsPassed, SteadyIsAhead, NEW x \in Ids,
           \A id \in Ids : id # x => RecordOf(id)' = RecordOf(id),
           reader'.cursor = reader.cursor, reader'.shown = reader.shown,
           reader'.steady \subseteq reader.steady,
           x \in reader'.steady => x \in Open' /\ KeyOf(x)' = KeyOf(x),
           x \in reader.shown =>
              /\ RecordOf(x)'.status # "NONE"
              /\ x \in Open' => /\ x \in Open
                                /\ \/ KeyOf(x)' = KeyOf(x)
                                   \/ compare_attention_items(KeyOf(x)', KeyOf(x))
    PROVE  ShownIsPassed' /\ SteadyIsAhead'
<1>0. reader.shown \subseteq Ids /\ reader.steady \subseteq Ids
      /\ reader.cursor \in {NoCursor} \cup CursorKeys
  BY DEF AttentionRows
<1>1. \A id \in Ids : id # x => (id \in Open' <=> id \in Open) /\ KeyOf(id)' = KeyOf(id)
  BY DEF Open, KeyOf
<1>2. ASSUME NEW id \in reader'.shown
      PROVE  /\ reader'.cursor # NoCursor
             /\ RecordOf(id)'.status # "NONE"
             /\ id \in Open' => ~compare_attention_items(reader'.cursor, KeyOf(id)')
  <2>1. /\ id \in Ids /\ id \in reader.shown /\ reader.cursor # NoCursor
        /\ RecordOf(id).status # "NONE"
        /\ id \in Open => ~compare_attention_items(reader.cursor, KeyOf(id))
    BY <1>0, <1>2 DEF ShownIsPassed, KeyOf
  <2>2. CASE id # x
    BY <1>1, <2>1, <2>2
  <2>3. CASE id = x
    <3>1. RecordOf(id)'.status # "NONE"
      BY <2>1, <2>3
    <3>2. ASSUME id \in Open'
          PROVE  ~compare_attention_items(reader.cursor, KeyOf(id)')
      <4>1. id \in Open /\ (KeyOf(id)' = KeyOf(id) \/ compare_attention_items(KeyOf(id)', KeyOf(id)))
        BY <2>1, <2>3, <3>2
      <4>2. IsKey(reader.cursor)
        BY <1>0, <2>1, CursorsAreKeys
      <4>3. IsKey(KeyOf(id))
        BY <2>1, RecordsAreRecords
      <4>4. IsKey(KeyOf(id)')
        <5>1. RecordOf(id)' \in Record
          BY <2>1 DEF AttentionRows, RecordOf, Ids
        <5> QED
          BY <2>1, <5>1, KeysAreKeys, CursorsAreKeys DEF KeyOf
      <4> QED
        BY <2>1, <4>1, <4>2, <4>3, <4>4, UrgencyIsStrict
    <3> QED
      BY <2>1, <3>1, <3>2
  <2> QED
    BY <2>2, <2>3
<1>3. ASSUME NEW id \in reader'.steady
      PROVE  /\ reader'.cursor # NoCursor
             /\ id \in Open'
             /\ id \in reader'.shown \/ compare_attention_items(reader'.cursor, KeyOf(id)')
  <2>1. /\ id \in Ids /\ id \in reader.steady /\ reader.cursor # NoCursor /\ id \in Open
        /\ id \in reader.shown \/ compare_attention_items(reader.cursor, KeyOf(id))
    BY <1>0, <1>3 DEF SteadyIsAhead, KeyOf
  <2>2. id \in Open' /\ KeyOf(id)' = KeyOf(id)
    BY <1>1, <1>3, <2>1
  <2> QED
    BY <2>1, <2>2
<1>4. ShownIsPassed'
  BY <1>2 DEF ShownIsPassed, KeyOf
<1>5. SteadyIsAhead'
  BY <1>3 DEF SteadyIsAhead, KeyOf
<1> QED
  BY <1>4, <1>5

-----------------------------------------------------------------------------
(***************************************************************************)
(* Every step keeps the invariant.                                         *)
(***************************************************************************)
\* An empty queue satisfies the invariant.
LEMMA AttentionInvInit == AttentionInit => AttentionInv
<1> SUFFICES ASSUME AttentionInit PROVE AttentionInv
  OBVIOUS
<1> USE DEF AttentionInit
<1>1. NoRecord \in Record
  BY AttentionAssumption DEF NoRecord, Record, RecordSeverities, rank
<1>2. AttentionRows
  BY <1>1 DEF AttentionRows, EntryTables, Nobody
<1>3. Covered /\ ~reader.twice /\ ShownIsPassed /\ SteadyIsAhead
  BY DEF Covered, ShownIsPassed, SteadyIsAhead
<1>4. ASSUME NEW j \in Unbound
      PROVE  IncidentHistory(j)
  <2>1. incidents[j] = NoRecord /\ \A v \in 1..2 : receipts[j][v] = {} /\ answers[j][v] = {}
    OBVIOUS
  <2>2. incidents[j].version = 0 /\ incidents[j].status = "NONE"
    BY <2>1 DEF NoRecord
  <2> QED
    BY <2>1, <2>2 DEF IncidentHistory, StatusAt
<1> QED
  BY <1>2, <1>3, <1>4 DEF AttentionInv

\* Histories do not change when other tables do.
LEMMA HistoriesAreKept ==
    ASSUME NEW j, IncidentHistory(j), dead \subseteq dead',
           incidents' = incidents, receipts' = receipts, answers' = answers
    PROVE  IncidentHistory(j)'
BY DEF IncidentHistory, Receipt

\* The parts of the reader after a record moved.
LEMMA MovedParts ==
    ASSUME AttentionRows, NEW id, reader' = Moved(id)
    PROVE  /\ reader'.cursor = reader.cursor /\ reader'.shown = reader.shown
           /\ reader'.twice = reader.twice
           /\ reader'.steady = reader.steady \ {id}
           /\ reader' \in [cursor : {NoCursor} \cup CursorKeys, shown : SUBSET Ids,
                           twice : BOOLEAN, steady : SUBSET Ids, walks : Nat]
BY DEF AttentionRows, Moved

\* A dead job of the work item opens its escalation or joins the open one.
LEMMA WorkItemDies ==
    ASSUME AttentionInv, NEW j \in Bound, dead_letter_work_item_claim(j)
    PROVE  AttentionInv'
<1>0. /\ AttentionRows /\ Covered /\ ~reader.twice /\ ShownIsPassed /\ SteadyIsAhead
      /\ \A k \in Unbound : IncidentHistory(k)
  BY DEF AttentionInv
<1>1. /\ j \notin dead /\ dead' = dead \cup {j} /\ workState' = "ESCALATED"
      /\ incidents' = incidents /\ receipts' = receipts /\ answers' = answers
  BY DEF dead_letter_work_item_claim
<1>2. PICK s \in {"HIGH", "CRITICAL"}, d \in 1..MaxDeadline : insert_dead_letter_escalation(j, s, d)
  BY DEF dead_letter_work_item_claim, normalized_dead_letter
<1>3. \A k \in Unbound : IncidentHistory(k)'
  BY <1>0, <1>1, HistoriesAreKept
<1>4. ASSUME NEW n \in Numbers, NEW r \in Record, r.status \in OpenStatuses,
             escalations' = [escalations EXCEPT ![n] = r], owner' = [owner EXCEPT ![j] = n],
             reader' \in [cursor : {NoCursor} \cup CursorKeys, shown : SUBSET Ids,
                          twice : BOOLEAN, steady : SUBSET Ids, walks : Nat]
      PROVE  AttentionRows' /\ Covered' /\ escalations'[n] = r
  <2>1. n \in Nat /\ n # Nobody
    BY AttentionAssumption DEF Numbers, Nobody
  <2>2. escalations' \in [Numbers -> Record] /\ escalations'[n] = r
    BY <1>0, <1>4 DEF AttentionRows
  <2>3. owner' \in [Bound \cup Unbound -> Nat]
    BY <1>0, <1>4, <2>1 DEF AttentionRows
  <2>4. AttentionRows'
    BY <1>0, <1>1, <1>4, <2>2, <2>3 DEF AttentionRows
  <2>5. \A k \in dead' : owner'[k] # Nobody
    BY <1>0, <1>1, <1>4, <2>1 DEF AttentionRows, Covered
  <2>6. OpenEscalations' # {}
    BY <1>4, <2>2 DEF OpenEscalations
  <2> QED
    BY <2>2, <2>4, <2>5, <2>6 DEF Covered
<1>5. CASE \E n \in OpenEscalations :
             /\ escalations' = [escalations EXCEPT ![n] = merge_active_dead_letter(@, s, d)]
             /\ owner' = LinkOwner(j, n)
             /\ reader' = Moved(<<"ESCALATION", n>>)
  <2>1. PICK n \in OpenEscalations :
             /\ escalations' = [escalations EXCEPT ![n] = merge_active_dead_letter(escalations[n], s, d)]
             /\ owner' = [owner EXCEPT ![j] = n]
             /\ reader' = Moved(<<"ESCALATION", n>>)
    BY <1>5 DEF LinkOwner
  <2> DEFINE x == <<"ESCALATION", n>>
  <2>2. n \in Numbers /\ escalations[n].status \in OpenStatuses /\ escalations[n] \in Record
    BY <1>0 DEF OpenEscalations, AttentionRows
  <2>3. PICK r : r = merge_active_dead_letter(escalations[n], s, d)
    OBVIOUS
  <2>4. x \in Ids
    BY <2>2 DEF Ids
  <2>5. /\ r \in Record /\ r.status = escalations[n].status
        /\ Key(r, x) = Key(escalations[n], x) \/ compare_attention_items(Key(r, x), Key(escalations[n], x))
    BY <2>2, <2>3, <2>4, MergingIsUrgent
  <2>6. /\ reader'.cursor = reader.cursor /\ reader'.shown = reader.shown
        /\ reader'.twice = reader.twice /\ reader'.steady = reader.steady \ {x}
        /\ reader' \in [cursor : {NoCursor} \cup CursorKeys, shown : SUBSET Ids,
                        twice : BOOLEAN, steady : SUBSET Ids, walks : Nat]
    BY <1>0, <2>1, MovedParts
  <2>7. AttentionRows' /\ Covered' /\ escalations'[n] = r
    BY <1>4, <2>1, <2>2, <2>3, <2>5, <2>6
  <2>8. /\ RecordOf(x) = escalations[n] /\ RecordOf(x)' = r
        /\ \A id \in Ids : id # x => RecordOf(id)' = RecordOf(id)
    <3>1. \A m \in Numbers : m # n => escalations'[m] = escalations[m]
      BY <1>0, <2>1 DEF AttentionRows
    <3> QED
      BY <1>1, <2>2, <2>7, <3>1, OneEscalationMoves
  <2>9. /\ x \in Open
        /\ KeyOf(x)' = KeyOf(x) \/ compare_attention_items(KeyOf(x)', KeyOf(x))
        /\ RecordOf(x)'.status # "NONE"
    BY <2>2, <2>4, <2>5, <2>8 DEF Open, KeyOf, OpenStatuses
  <2>10. ShownIsPassed' /\ SteadyIsAhead'
    <3> HIDE DEF x
    <3> QED
      BY <1>0, <2>4, <2>6, <2>7, <2>8, <2>9, ReaderIsKept
  <2> QED
    BY <1>0, <1>3, <2>6, <2>7, <2>10 DEF AttentionInv
<1>6. CASE /\ OpenEscalations = {}
           /\ \E n \in Numbers :
                 /\ escalations[n] = NoRecord /\ \A k \in 1..(n - 1) : escalations[k] # NoRecord
                 /\ escalations' = [escalations EXCEPT
                        ![n] = [status |-> "OPEN", severity |-> s, deadline |-> d, version |-> 1]]
                 /\ owner' = [owner EXCEPT ![j] = n]
           /\ UNCHANGED reader
  <2>1. PICK n \in Numbers :
                 /\ escalations[n] = NoRecord
                 /\ escalations' = [escalations EXCEPT
                        ![n] = [status |-> "OPEN", severity |-> s, deadline |-> d, version |-> 1]]
                 /\ owner' = [owner EXCEPT ![j] = n]
    BY <1>6
  <2> DEFINE x == <<"ESCALATION", n>>
  <2>2. PICK r : r = [status |-> "OPEN", severity |-> s, deadline |-> d, version |-> 1]
    OBVIOUS
  <2>3. r \in Record /\ r.status \in OpenStatuses
    BY <2>2 DEF Record, RecordSeverities, rank, OpenStatuses
  <2>4. x \in Ids
    BY DEF Ids
  <2>5. reader' = reader /\ reader \in [cursor : {NoCursor} \cup CursorKeys, shown : SUBSET Ids,
                                        twice : BOOLEAN, steady : SUBSET Ids, walks : Nat]
    BY <1>0, <1>6 DEF AttentionRows
  <2>6. AttentionRows' /\ Covered' /\ escalations'[n] = r
    BY <1>4, <2>1, <2>2, <2>3, <2>5
  <2>7. /\ RecordOf(x) = escalations[n] /\ RecordOf(x)' = r
        /\ \A id \in Ids : id # x => RecordOf(id)' = RecordOf(id)
    <3>1. \A m \in Numbers : m # n => escalations'[m] = escalations[m]
      BY <1>0, <2>1 DEF AttentionRows
    <3> QED
      BY <1>1, <2>6, <3>1, OneEscalationMoves
  <2>8. RecordOf(x).status = "NONE" /\ x \notin Open
    BY <2>1, <2>7 DEF NoRecord, Open, OpenStatuses
  <2>9. x \notin reader.shown /\ x \notin reader.steady
    BY <1>0, <2>8 DEF ShownIsPassed, SteadyIsAhead
  <2>10. ShownIsPassed' /\ SteadyIsAhead'
    <3> HIDE DEF x
    <3> QED
      BY <1>0, <2>4, <2>5, <2>6, <2>7, <2>9, ReaderIsKept
  <2> QED
    BY <1>0, <1>3, <2>5, <2>6, <2>10 DEF AttentionInv
<1> QED
  BY <1>2, <1>5, <1>6 DEF insert_dead_letter_escalation

\* A closed escalation leaves the reader behind, and the work is not escalated.
LEMMA EscalationCloses ==
    ASSUME AttentionInv, close_exhausted_cancellation_escalation
    PROVE  AttentionInv'
<1>0. /\ AttentionRows /\ Covered /\ ~reader.twice /\ ShownIsPassed /\ SteadyIsAhead
      /\ \A k \in Unbound : IncidentHistory(k)
  BY DEF AttentionInv
<1>1. /\ workState' = "ACTIVE" /\ dead' = dead /\ owner' = owner
      /\ incidents' = incidents /\ receipts' = receipts /\ answers' = answers
  BY DEF close_exhausted_cancellation_escalation
<1>2. PICK n \in OpenEscalations :
          /\ escalations' = [escalations EXCEPT ![n].status = "CANCELLED"]
          /\ reader' = Moved(<<"ESCALATION", n>>)
  BY DEF close_exhausted_cancellation_escalation
<1> DEFINE x == <<"ESCALATION", n>>
<1>3. n \in Numbers /\ escalations[n] \in Record /\ x \in Ids
  BY <1>0 DEF OpenEscalations, AttentionRows, Ids
<1>4. /\ escalations' \in [Numbers -> Record]
      /\ escalations'[n].status = "CANCELLED"
      /\ \A m \in Numbers : m # n => escalations'[m] = escalations[m]
  BY <1>0, <1>2, <1>3 DEF AttentionRows, Record
<1>5. /\ reader'.cursor = reader.cursor /\ reader'.shown = reader.shown
      /\ reader'.twice = reader.twice /\ reader'.steady = reader.steady \ {x}
      /\ reader' \in [cursor : {NoCursor} \cup CursorKeys, shown : SUBSET Ids,
                      twice : BOOLEAN, steady : SUBSET Ids, walks : Nat]
  BY <1>0, <1>2, MovedParts
<1>6. AttentionRows'
  BY <1>0, <1>1, <1>4, <1>5 DEF AttentionRows
<1>7. Covered'
  BY <1>0, <1>1 DEF Covered
<1>8. /\ RecordOf(x)' = escalations'[n]
      /\ \A id \in Ids : id # x => RecordOf(id)' = RecordOf(id)
  BY <1>1, <1>3, <1>4, OneEscalationMoves
<1>9. x \notin Open' /\ RecordOf(x)'.status # "NONE"
  BY <1>4, <1>8 DEF Open, OpenStatuses
<1>10. ShownIsPassed' /\ SteadyIsAhead'
  <2> HIDE DEF x
  <2> QED
    BY <1>0, <1>3, <1>5, <1>6, <1>8, <1>9, ReaderIsKept
<1>11. \A k \in Unbound : IncidentHistory(k)'
  BY <1>0, <1>1, HistoriesAreKept
<1> QED
  BY <1>0, <1>5, <1>6, <1>7, <1>10, <1>11 DEF AttentionInv

\* A dead job without a work item opens its incident, which no one has seen.
LEMMA OperationalJobDies ==
    ASSUME AttentionInv, NEW j \in Unbound, dead_letter_operational_claim(j)
    PROVE  AttentionInv'
<1>0. /\ AttentionRows /\ Covered /\ ~reader.twice /\ ShownIsPassed /\ SteadyIsAhead
      /\ \A k \in Unbound : IncidentHistory(k)
  BY DEF AttentionInv
<1>1. /\ j \notin dead /\ dead' = dead \cup {j} /\ owner' = [owner EXCEPT ![j] = 1]
      /\ workState' = workState /\ escalations' = escalations
      /\ receipts' = receipts /\ answers' = answers /\ reader' = reader
  BY DEF dead_letter_operational_claim
<1>2. PICK d \in 1..MaxDeadline :
          incidents' = [incidents EXCEPT ![j] = [status |-> "OPEN", severity |-> "HIGH",
                                                 deadline |-> d, version |-> 1]]
  BY DEF dead_letter_operational_claim
<1> DEFINE x == <<"OPERATIONAL_INCIDENT", j>>
<1>3. PICK r : r = [status |-> "OPEN", severity |-> "HIGH", deadline |-> d, version |-> 1]
  OBVIOUS
<1>4. r \in Record /\ r.status = "OPEN" /\ r.version = 1
  BY <1>3 DEF Record, RecordSeverities, rank
<1>5. /\ incidents' \in [Unbound -> Record] /\ incidents'[j] = r
      /\ \A k \in Unbound : k # j => incidents'[k] = incidents[k]
  BY <1>0, <1>2, <1>3, <1>4 DEF AttentionRows
<1>6. owner' \in [Bound \cup Unbound -> Nat] /\ \A k \in dead' : owner'[k] # Nobody
  BY <1>0, <1>1 DEF AttentionRows, Covered, Nobody
<1>7. AttentionRows'
  BY <1>0, <1>1, <1>5, <1>6 DEF AttentionRows
<1>8. Covered'
  BY <1>0, <1>1, <1>6 DEF Covered, OpenEscalations
<1>9. x \in Ids /\ RecordOf(x) = incidents[j] /\ RecordOf(x)' = r
      /\ \A id \in Ids : id # x => RecordOf(id)' = RecordOf(id)
  BY <1>1, <1>5, OneIncidentMoves
<1>10. incidents[j] = NoRecord
  BY <1>0, <1>1 DEF IncidentHistory
<1>11. RecordOf(x).status = "NONE" /\ x \notin Open
  BY <1>9, <1>10 DEF NoRecord, Open, OpenStatuses
<1>12. x \notin reader.shown /\ x \notin reader.steady
  BY <1>0, <1>11 DEF ShownIsPassed, SteadyIsAhead
<1>13. ShownIsPassed' /\ SteadyIsAhead'
  <2> HIDE DEF x
  <2> QED
    BY <1>0, <1>1, <1>7, <1>9, <1>12, ReaderIsKept
<1>14. ASSUME NEW k \in Unbound
       PROVE  IncidentHistory(k)'
  <2>1. CASE k = j
    <3>1. \A v \in 1..2 : receipts[j][v] = {} /\ answers[j][v] = {}
      <4>1. incidents[j].version = 0
        BY <1>10 DEF NoRecord
      <4> QED
        BY <1>0, <4>1 DEF IncidentHistory
    <3>2. r.status \in StatusAt(r.version)
      BY <1>4 DEF StatusAt
    <3>3. \A v \in 1..2 : ~(v < 1)
      OBVIOUS
    <3> QED
      BY <1>1, <1>4, <1>5, <2>1, <3>1, <3>2, <3>3 DEF IncidentHistory
  <2>2. CASE k # j
    <3>1. incidents'[k] = incidents[k] /\ (k \in dead' <=> k \in dead)
      BY <1>1, <1>5, <2>2
    <3>2. IncidentHistory(k)
      BY <1>0
    <3> QED
      BY <1>1, <3>1, <3>2 DEF IncidentHistory, Receipt
  <2> QED
    BY <2>1, <2>2
<1> QED
  BY <1>0, <1>1, <1>7, <1>8, <1>13, <1>14 DEF AttentionInv

\* Receipts of one request have the type of their table, and say where its
\* version leads.
LEMMA ReceiptsAreTyped ==
    ASSUME NEW q \in Requests, NEW v \in 1..2, v = IF q.kind = "ACKNOWLEDGE" THEN 1 ELSE 2
    PROVE  /\ Receipt(q, v) \in Entries
           /\ resulting_status(q.kind) \in StatusAt(v + 1)
           /\ resulting_status(q.kind) \in {"ACKNOWLEDGED", "RESOLVED", "CANCELLED"}
<1>1. q.kind \in {"ACKNOWLEDGE", "RESOLVE", "CANCEL"}
  BY DEF Requests, Kinds
<1>2. resulting_status(q.kind) \in {"ACKNOWLEDGED", "RESOLVED", "CANCELLED"}
  BY <1>1 DEF resulting_status
<1>3. v + 1 \in 2..3
  OBVIOUS
<1>4. resulting_status(q.kind) \in StatusAt(v + 1)
  BY <1>1 DEF resulting_status, StatusAt
<1>5. [status |-> resulting_status(q.kind), version |-> v + 1] \in Snapshot
  BY <1>2, <1>3 DEF Snapshot
<1> QED
  BY <1>2, <1>4, <1>5 DEF Receipt, Entries

\* One more entry at one version, and nothing else.
LEMMA NotedParts ==
    ASSUME NEW table \in EntryTables, NEW j \in Unbound,
           NEW v \in 1..2, NEW more \in SUBSET Entries
    PROVE  /\ Noted(table, j, v, more) \in EntryTables
           /\ Noted(table, j, v, more)[j][v] = table[j][v] \cup more
           /\ \A u \in 1..2 : u # v => Noted(table, j, v, more)[j][u] = table[j][u]
           /\ \A k \in Unbound : k # j => Noted(table, j, v, more)[k] = table[k]
<1>1. table[j] \in [1..2 -> SUBSET Entries] /\ table[j][v] \cup more \in SUBSET Entries
  BY DEF EntryTables
<1>2. [table[j] EXCEPT ![v] = table[j][v] \cup more] \in [1..2 -> SUBSET Entries]
  BY <1>1
<1> QED
  BY <1>1, <1>2 DEF Noted, EntryTables

\* An acknowledged incident keeps its place; a closed one leaves the queue.  Its
\* receipt leads from the version it was at to the next.
LEMMA IncidentMoves ==
    ASSUME AttentionInv, NEW j \in Unbound, NEW v \in 1..2, NEW q \in Requests,
           transition_operational_incident(j, v, q)
    PROVE  AttentionInv'
<1>0. /\ AttentionRows /\ Covered /\ ~reader.twice /\ ShownIsPassed /\ SteadyIsAhead
      /\ \A k \in Unbound : IncidentHistory(k)
  BY DEF AttentionInv
<1> DEFINE new == Receipt(q, v)
           x == <<"OPERATIONAL_INCIDENT", j>>
<1>1. /\ workState' = workState /\ dead' = dead /\ owner' = owner /\ escalations' = escalations
      /\ receipts[j][v] = {} /\ incidents[j].version = v
      /\ incidents[j].status = required_status(q.kind)
  BY DEF transition_operational_incident, Unanswered
<1>2. /\ incidents' = [incidents EXCEPT
             ![j] = [incidents[j] EXCEPT !.status = resulting_status(q.kind),
                                         !.version = incidents[j].version + 1]]
      /\ reader' = IF q.kind = "ACKNOWLEDGE" THEN reader ELSE Moved(x)
      /\ receipts' = Noted(receipts, j, v, {new})
      /\ answers' = answers \/ answers' = Noted(answers, j, v, {new})
  BY DEF transition_operational_incident, update_incident, insert_transition_receipt
<1>3. /\ incidents[j] \in Record /\ reader \in [cursor : {NoCursor} \cup CursorKeys, shown : SUBSET Ids,
                                                twice : BOOLEAN, steady : SUBSET Ids, walks : Nat]
      /\ receipts \in EntryTables /\ answers \in EntryTables
  BY <1>0 DEF AttentionRows
<1>4. IncidentHistory(j)
  BY <1>0
<1>5. v = IF q.kind = "ACKNOWLEDGE" THEN 1 ELSE 2
  <2>1. required_status(q.kind) \in StatusAt(v)
    BY <1>1, <1>4 DEF IncidentHistory
  <2> QED
    BY <2>1 DEF required_status, StatusAt
<1>6. /\ new \in Entries
      /\ resulting_status(q.kind) \in StatusAt(v + 1)
      /\ resulting_status(q.kind) \in {"ACKNOWLEDGED", "RESOLVED", "CANCELLED"}
  BY <1>5, ReceiptsAreTyped
<1>7. PICK r : r = [incidents[j] EXCEPT !.status = resulting_status(q.kind), !.version = incidents[j].version + 1]
  OBVIOUS
<1>8. /\ r \in Record /\ r.status = resulting_status(q.kind) /\ r.version = v + 1
      /\ r.severity = incidents[j].severity /\ r.deadline = incidents[j].deadline
  <2>1. v + 1 \in 0..3 /\ resulting_status(q.kind) \in {"NONE", "OPEN", "ACKNOWLEDGED", "RESOLVED", "CANCELLED"}
    BY <1>6
  <2> QED
    BY <1>1, <1>3, <1>7, <2>1 DEF Record
<1>9. /\ incidents' \in [Unbound -> Record] /\ incidents'[j] = r
      /\ \A k \in Unbound : k # j => incidents'[k] = incidents[k]
  BY <1>0, <1>2, <1>7, <1>8 DEF AttentionRows
<1>10. /\ receipts' \in EntryTables
       /\ receipts'[j][v] = {new}
       /\ \A u \in 1..2 : u # v => receipts'[j][u] = receipts[j][u]
       /\ \A k \in Unbound : k # j => receipts'[k] = receipts[k]
  <2> HIDE DEF new
  <2>1. {new} \in SUBSET Entries
    BY <1>6
  <2>3. /\ Noted(receipts, j, v, {new}) \in EntryTables
        /\ Noted(receipts, j, v, {new})[j][v] = receipts[j][v] \cup {new}
        /\ \A u \in 1..2 : u # v => Noted(receipts, j, v, {new})[j][u] = receipts[j][u]
        /\ \A k \in Unbound : k # j => Noted(receipts, j, v, {new})[k] = receipts[k]
    BY <1>3, <2>1, NotedParts
  <2> QED
    BY <1>1, <1>2, <2>3
<1>11. /\ answers' \in EntryTables
       /\ answers'[j][v] \subseteq {new}
       /\ \A u \in 1..2 : u # v => answers'[j][u] = answers[j][u]
       /\ \A k \in Unbound : k # j => answers'[k] = answers[k]
  <2> HIDE DEF new
  <2>1. {new} \in SUBSET Entries /\ answers[j][v] = {}
    BY <1>1, <1>4, <1>6 DEF IncidentHistory
  <2>2. CASE answers' = answers
    BY <1>3, <2>1, <2>2
  <2>3. CASE answers' = Noted(answers, j, v, {new})
    <3>3. /\ Noted(answers, j, v, {new}) \in EntryTables
          /\ Noted(answers, j, v, {new})[j][v] = answers[j][v] \cup {new}
          /\ \A u \in 1..2 : u # v => Noted(answers, j, v, {new})[j][u] = answers[j][u]
          /\ \A k \in Unbound : k # j => Noted(answers, j, v, {new})[k] = answers[k]
      BY <1>3, <2>1, NotedParts
    <3> QED
      BY <2>1, <2>3, <3>3
  <2> QED
    BY <1>2, <2>2, <2>3
<1>12. /\ reader'.cursor = reader.cursor /\ reader'.shown = reader.shown
       /\ reader'.twice = reader.twice
       /\ reader'.steady = IF q.kind = "ACKNOWLEDGE" THEN reader.steady ELSE reader.steady \ {x}
       /\ reader' \in [cursor : {NoCursor} \cup CursorKeys, shown : SUBSET Ids,
                       twice : BOOLEAN, steady : SUBSET Ids, walks : Nat]
  BY <1>0, <1>2, <1>3, MovedParts
<1>13. AttentionRows'
  BY <1>0, <1>1, <1>9, <1>10, <1>11, <1>12 DEF AttentionRows
<1>14. Covered'
  BY <1>0, <1>1 DEF Covered, OpenEscalations
<1>15. x \in Ids /\ RecordOf(x) = incidents[j] /\ RecordOf(x)' = r
       /\ \A id \in Ids : id # x => RecordOf(id)' = RecordOf(id)
  BY <1>1, <1>9, OneIncidentMoves
<1>16. /\ x \in Open /\ KeyOf(x)' = KeyOf(x) /\ RecordOf(x)'.status # "NONE"
       /\ q.kind = "ACKNOWLEDGE" => x \in Open'
  <2>1. incidents[j].status \in OpenStatuses
    BY <1>1 DEF required_status, OpenStatuses
  <2>2. KeyOf(x)' = KeyOf(x)
    BY <1>8, <1>15 DEF KeyOf, Key
  <2>3. q.kind = "ACKNOWLEDGE" => r.status \in OpenStatuses
    BY <1>8 DEF resulting_status, OpenStatuses
  <2> QED
    BY <1>6, <1>8, <1>15, <2>1, <2>2, <2>3 DEF Open
<1>17. ShownIsPassed' /\ SteadyIsAhead'
  <2> HIDE DEF x
  <2> QED
    BY <1>0, <1>12, <1>13, <1>15, <1>16, ReaderIsKept
<1>18. ASSUME NEW k \in Unbound
       PROVE  IncidentHistory(k)'
  <2>1. CASE k = j
    <3>1. incidents[j] # NoRecord
      BY <1>1 DEF NoRecord
    <3>2. j \in dead'
      BY <1>1, <1>4, <3>1 DEF IncidentHistory
    <3>3. \A u \in 1..2 :
             /\ receipts'[j][u] # {} <=> u < v + 1
             /\ receipts'[j][u] = {} \/ \E p \in Requests : receipts'[j][u] = {Receipt(p, u)}
             /\ answers'[j][u] \subseteq receipts'[j][u]
      <4> SUFFICES ASSUME NEW u \in 1..2
                   PROVE  /\ receipts'[j][u] # {} <=> u < v + 1
                          /\ receipts'[j][u] = {} \/ \E p \in Requests : receipts'[j][u] = {Receipt(p, u)}
                          /\ answers'[j][u] \subseteq receipts'[j][u]
        OBVIOUS
      <4>1. CASE u = v
        <5>1. receipts'[j][u] = {Receipt(q, u)} /\ answers'[j][u] \subseteq {Receipt(q, u)}
          BY <1>10, <1>11, <4>1
        <5>2. u < v + 1
          BY <4>1
        <5> QED
          BY <5>1, <5>2
      <4>2. CASE u # v
        <5>1. u < v <=> u < v + 1
          BY <4>2
        <5>2. /\ receipts[j][u] # {} <=> u < v
              /\ receipts[j][u] = {} \/ \E p \in Requests : receipts[j][u] = {Receipt(p, u)}
              /\ answers[j][u] \subseteq receipts[j][u]
          BY <1>1, <1>4 DEF IncidentHistory
        <5>3. receipts'[j][u] = receipts[j][u] /\ answers'[j][u] = answers[j][u]
          BY <1>10, <1>11, <4>2
        <5> QED
          BY <5>1, <5>2, <5>3
      <4> QED
        BY <4>1, <4>2
    <3>4. /\ r.version - 1 = v
          /\ receipts'[j][v] = {[request |-> q, result |-> [status |-> r.status, version |-> r.version]]}
      BY <1>8, <1>10 DEF Receipt
    <3>5. r.status \in StatusAt(r.version)
      BY <1>6, <1>8
    <3>6. \E p \in Requests :
             receipts'[j][r.version - 1]
                 = {[request |-> p, result |-> [status |-> r.status, version |-> r.version]]}
      BY <3>4
    <3> QED
      BY <1>8, <1>9, <2>1, <3>2, <3>3, <3>5, <3>6 DEF IncidentHistory, Receipt
  <2>2. CASE k # j
    <3>1. incidents'[k] = incidents[k] /\ receipts'[k] = receipts[k] /\ answers'[k] = answers[k]
      BY <1>9, <1>10, <1>11, <2>2
    <3>2. IncidentHistory(k)
      BY <1>0
    <3> QED
      BY <1>1, <3>1, <3>2 DEF IncidentHistory, Receipt
  <2> QED
    BY <2>1, <2>2
<1> QED
  BY <1>0, <1>12, <1>13, <1>14, <1>17, <1>18 DEF AttentionInv

\* A repeated request is told the receipt.
LEMMA ReceiptIsReadAgain ==
    ASSUME AttentionInv, NEW j \in Unbound, NEW v \in 1..2, load_transition_receipt(j, v)
    PROVE  AttentionInv'
<1>0. /\ AttentionRows /\ Covered /\ ~reader.twice /\ ShownIsPassed /\ SteadyIsAhead
      /\ \A k \in Unbound : IncidentHistory(k)
  BY DEF AttentionInv
<1>1. /\ workState' = workState /\ dead' = dead /\ owner' = owner /\ escalations' = escalations
      /\ incidents' = incidents /\ receipts' = receipts /\ reader' = reader
      /\ answers' = Noted(answers, j, v, receipts[j][v])
  BY DEF load_transition_receipt, StoredSnapshot
<1>2. /\ answers' \in EntryTables
      /\ answers'[j][v] = answers[j][v] \cup receipts[j][v]
      /\ \A u \in 1..2 : u # v => answers'[j][u] = answers[j][u]
      /\ \A k \in Unbound : k # j => answers'[k] = answers[k]
  <2>1. /\ answers \in EntryTables
        /\ receipts[j][v] \in SUBSET Entries
    BY <1>0 DEF AttentionRows, EntryTables
  <2>3. /\ Noted(answers, j, v, receipts[j][v]) \in EntryTables
        /\ Noted(answers, j, v, receipts[j][v])[j][v] = answers[j][v] \cup receipts[j][v]
        /\ \A u \in 1..2 : u # v => Noted(answers, j, v, receipts[j][v])[j][u] = answers[j][u]
        /\ \A k \in Unbound : k # j => Noted(answers, j, v, receipts[j][v])[k] = answers[k]
    BY <2>1, NotedParts
  <2> QED
    BY <1>1, <2>3
<1>3. AttentionRows'
  BY <1>0, <1>1, <1>2 DEF AttentionRows
<1>4. Covered' /\ ShownIsPassed' /\ SteadyIsAhead' /\ ~reader'.twice
  BY <1>0, <1>1 DEF Covered, OpenEscalations, ShownIsPassed, SteadyIsAhead, Open, RecordOf
<1>5. ASSUME NEW k \in Unbound
      PROVE  IncidentHistory(k)'
  <2>1. IncidentHistory(k)
    BY <1>0
  <2>2. \A u \in 1..2 : answers'[k][u] \subseteq receipts[k][u]
    BY <1>2, <2>1 DEF IncidentHistory
  <2> QED
    BY <1>1, <2>1, <2>2 DEF IncidentHistory, Receipt
<1> QED
  BY <1>3, <1>4, <1>5 DEF AttentionInv

\* A page lies between the old cursor and the new one.
LEMMA PageIsRead ==
    ASSUME AttentionInv, attention
    PROVE  AttentionInv'
<1>0. /\ AttentionRows /\ Covered /\ ~reader.twice /\ ShownIsPassed /\ SteadyIsAhead
      /\ \A k \in Unbound : IncidentHistory(k)
  BY DEF AttentionInv
<1> DEFINE c == reader.cursor
           last == LastRow(Page)
           k == KeyOf(last)
<1>1. /\ workState' = workState /\ dead' = dead /\ owner' = owner /\ escalations' = escalations
      /\ incidents' = incidents /\ receipts' = receipts /\ answers' = answers
      /\ Page # {}
      /\ reader' = [cursor |-> k, shown |-> reader.shown \cup Page,
                    twice |-> reader.twice \/ reader.shown \cap Page # {},
                    steady |-> IF c = NoCursor THEN Open ELSE reader.steady,
                    walks |-> IF c = NoCursor THEN reader.walks + 1 ELSE reader.walks]
  BY DEF attention, KeyOf
<1>2. /\ reader.shown \subseteq Ids /\ reader.steady \subseteq Ids
      /\ c \in {NoCursor} \cup CursorKeys /\ reader.walks \in Nat /\ reader.twice \in BOOLEAN
  BY <1>0 DEF AttentionRows
<1>3. /\ Page \subseteq Beyond /\ Beyond \subseteq Open /\ Open \subseteq Ids
      /\ \A p \in Page, x \in Beyond \ Page : compare_attention_items(KeyOf(p), KeyOf(x))
      /\ last \in Page
      /\ \A o \in Page : o = last \/ compare_attention_items(KeyOf(o), k)
  BY <1>0, <1>1, PageIsFirst
<1>4. \A id \in Ids : IsKey(KeyOf(id))
  BY <1>0, RecordsAreRecords
<1>5. last \in Ids /\ k \in CursorKeys /\ k # NoCursor /\ IsKey(k)
  BY <1>0, <1>3, RecordsAreRecords
<1>6. \A id \in Beyond : c # NoCursor => compare_attention_items(c, KeyOf(id))
  BY DEF Beyond, KeyOf
<1>7. \A id \in Open : c = NoCursor \/ compare_attention_items(c, KeyOf(id)) => id \in Beyond
  BY DEF Beyond, KeyOf
<1>8. /\ \A id \in Ids : RecordOf(id)' = RecordOf(id) /\ KeyOf(id)' = KeyOf(id)
      /\ Open' = Open
  BY <1>1 DEF RecordOf, KeyOf, Open
<1> HIDE DEF last, k
<1>9. \A id \in reader.shown : /\ c # NoCursor /\ RecordOf(id).status # "NONE"
                               /\ id \in Open => ~compare_attention_items(c, KeyOf(id))
  BY <1>0 DEF ShownIsPassed, KeyOf
<1>10. \A id \in reader.steady : /\ c # NoCursor /\ id \in Open
                                 /\ id \in reader.shown \/ compare_attention_items(c, KeyOf(id))
  BY <1>0 DEF SteadyIsAhead, KeyOf
<1>11. reader.shown \cap Page = {}
  BY <1>3, <1>6, <1>9
<1>12. /\ reader'.cursor = k /\ reader'.shown = reader.shown \cup Page /\ ~reader'.twice
       /\ reader'.steady = IF c = NoCursor THEN Open ELSE reader.steady
  BY <1>0, <1>1, <1>11
<1>13. AttentionRows'
  <2>1. reader' \in [cursor : {NoCursor} \cup CursorKeys, shown : SUBSET Ids,
                     twice : BOOLEAN, steady : SUBSET Ids, walks : Nat]
    BY <1>1, <1>2, <1>3, <1>5
  <2> QED
    BY <1>0, <1>1, <2>1 DEF AttentionRows
<1>14. Covered'
  BY <1>0, <1>1 DEF Covered, OpenEscalations
<1>15. ASSUME NEW id \in reader'.shown
       PROVE  /\ RecordOf(id)'.status # "NONE"
              /\ id \in Open' => ~compare_attention_items(k, KeyOf(id)')
  <2>1. CASE id \in reader.shown
    <3>1. /\ id \in Ids /\ RecordOf(id).status # "NONE" /\ c # NoCursor /\ IsKey(c)
          /\ id \in Open => ~compare_attention_items(c, KeyOf(id))
      BY <1>2, <1>9, <2>1, CursorsAreKeys
    <3>2. compare_attention_items(c, k)
      BY <1>3, <1>6, <3>1 DEF k
    <3>3. id \in Open => ~compare_attention_items(k, KeyOf(id))
      BY <1>4, <1>5, <3>1, <3>2, UrgencyIsStrict
    <3> QED
      BY <1>8, <3>1, <3>3
  <2>2. CASE id \in Page
    <3>1. id \in Ids /\ id \in Open
      BY <1>3, <2>2
    <3>2. RecordOf(id).status # "NONE"
      BY <3>1 DEF Open, OpenStatuses
    <3>3. ~compare_attention_items(k, KeyOf(id))
      <4>1. CASE id = last
        BY <1>5, <4>1, UrgencyIsStrict DEF k
      <4>2. CASE compare_attention_items(KeyOf(id), k)
        BY <1>4, <1>5, <3>1, <4>2, UrgencyIsStrict
      <4> QED
        BY <1>3, <2>2, <4>1, <4>2
    <3> QED
      BY <1>8, <3>1, <3>2, <3>3
  <2> QED
    BY <1>12, <1>15, <2>1, <2>2
<1>16. ASSUME NEW id \in reader'.steady
       PROVE  /\ id \in Open'
              /\ id \in reader'.shown \/ compare_attention_items(k, KeyOf(id)')
  <2>1. id \in Open /\ (id \in reader.shown \/ id \in Beyond)
    BY <1>7, <1>10, <1>12, <1>16
  <2>2. id \in reader'.shown \/ id \in Beyond \ Page
    BY <1>12, <2>1
  <2>3. id \in Beyond \ Page => compare_attention_items(k, KeyOf(id))
    BY <1>3 DEF k
  <2> QED
    BY <1>3, <1>8, <2>1, <2>2, <2>3
<1>17. ShownIsPassed'
  BY <1>5, <1>12, <1>15 DEF ShownIsPassed, KeyOf
<1>18. SteadyIsAhead'
  BY <1>5, <1>12, <1>16 DEF SteadyIsAhead, KeyOf
<1>19. \A j \in Unbound : IncidentHistory(j)'
  BY <1>0, <1>1, HistoriesAreKept
<1> QED
  BY <1>12, <1>13, <1>14, <1>17, <1>18, <1>19 DEF AttentionInv

\* A new walk starts with nothing shown and counts on nothing.
LEMMA WalkEnds ==
    ASSUME AttentionInv, EndOfWalk
    PROVE  AttentionInv'
<1>0. /\ AttentionRows /\ Covered /\ ~reader.twice
      /\ \A k \in Unbound : IncidentHistory(k)
  BY DEF AttentionInv
<1>1. /\ workState' = workState /\ dead' = dead /\ owner' = owner /\ escalations' = escalations
      /\ incidents' = incidents /\ receipts' = receipts /\ answers' = answers
  BY DEF EndOfWalk
<1>2. /\ reader'.shown = {} /\ reader'.steady = {} /\ ~reader'.twice
      /\ reader' \in [cursor : {NoCursor} \cup CursorKeys, shown : SUBSET Ids,
                      twice : BOOLEAN, steady : SUBSET Ids, walks : Nat]
  BY <1>0 DEF AttentionRows, EndOfWalk
<1>3. AttentionRows'
  BY <1>0, <1>1, <1>2 DEF AttentionRows
<1>4. Covered' /\ ShownIsPassed' /\ SteadyIsAhead'
  BY <1>0, <1>1, <1>2 DEF Covered, OpenEscalations, ShownIsPassed, SteadyIsAhead
<1>5. \A k \in Unbound : IncidentHistory(k)'
  BY <1>0, <1>1, HistoriesAreKept
<1> QED
  BY <1>2, <1>3, <1>4, <1>5 DEF AttentionInv

\* The invariant is inductive.
LEMMA AttentionInvNext == AttentionInv /\ [AttentionNext]_attentionVars => AttentionInv'
<1> SUFFICES ASSUME AttentionInv, [AttentionNext]_attentionVars
             PROVE  AttentionInv'
  OBVIOUS
<1>1. CASE DeadLetterStep
  BY <1>1, WorkItemDies, OperationalJobDies, EscalationCloses DEF DeadLetterStep
<1>2. CASE \E j \in Unbound : IncidentStep(j, Requests)
  BY <1>2, IncidentMoves, ReceiptIsReadAgain DEF IncidentStep
<1>3. CASE WalkStep
  BY <1>3, PageIsRead, WalkEnds DEF WalkStep
<1>4. CASE UNCHANGED attentionVars
  <2>1. /\ workState' = workState /\ dead' = dead /\ owner' = owner /\ escalations' = escalations
        /\ incidents' = incidents /\ receipts' = receipts /\ answers' = answers /\ reader' = reader
    BY <1>4 DEF attentionVars
  <2>2. \A k \in Unbound : IncidentHistory(k)'
    BY <2>1, HistoriesAreKept DEF AttentionInv
  <2> QED
    BY <2>1, <2>2 DEF AttentionInv, AttentionRows, Covered, OpenEscalations, ShownIsPassed,
                      SteadyIsAhead, Open, RecordOf
<1> QED
  BY <1>1, <1>2, <1>3, <1>4 DEF AttentionNext

\* The rows are typed and owned, what the reader was shown stays behind its
\* cursor, what it counts on stays ahead of it, and each incident's version
\* counts its receipts: inductive together.
THEOREM AttentionInvariant == AttentionSpec => []AttentionInv
<1>1. AttentionInit => AttentionInv
  BY AttentionInvInit
<1>2. AttentionInv /\ [AttentionNext]_attentionVars => AttentionInv'
  BY AttentionInvNext
<1> QED
  BY <1>1, <1>2, PTL DEF AttentionSpec

\* The queue is always readable, a walk over it is complete and shows nothing
\* twice while records come, move and go, and every operator is told an
\* incident's history as it was, for every set of jobs, operators, deadlines
\* and any page size (attention, insert_dead_letter_escalation,
\* transition_operational_incident).
THEOREM AttentionStaysComplete == AttentionSpec => []AttentionIsComplete
<1>1. AttentionInv => AttentionIsComplete
  <2> SUFFICES ASSUME AttentionInv PROVE AttentionIsComplete
    OBVIOUS
  <2>0. /\ AttentionRows /\ Covered /\ ~reader.twice /\ SteadyIsAhead
        /\ \A j \in Unbound : IncidentHistory(j)
    BY DEF AttentionInv
  <2>1. AttentionTypeOK
    BY <2>0 DEF AttentionTypeOK, AttentionRows, EntryTables, Entries
  <2>2. QueueIsReadable
    BY <2>0 DEF QueueIsReadable, Uncovered, Covered
  <2>3. NeverShownTwice
    BY <2>0 DEF NeverShownTwice
  <2>4. SteadyIsShown
    BY <2>0 DEF SteadyIsShown, SteadyIsAhead, Beyond
  <2>5. TransitionsAgree
    <3> SUFFICES ASSUME NEW j \in Unbound, NEW v \in 1..2
                 PROVE  Cardinality(answers[j][v]) <= 1
      BY DEF TransitionsAgree
    <3>1. answers[j][v] = {} \/ \E e : answers[j][v] = {e}
      BY <2>0 DEF IncidentHistory
    <3>2. Cardinality({}) = 0 /\ \A e : Cardinality({e}) = 1
      BY FS_EmptySet, FS_Singleton
    <3>3. CASE answers[j][v] = {}
      <4>1. Cardinality(answers[j][v]) = 0
        BY <3>2, <3>3
      <4> QED
        BY <4>1
    <3>4. CASE \E e : answers[j][v] = {e}
      <4>1. Cardinality(answers[j][v]) = 1
        BY <3>2, <3>4
      <4> QED
        BY <4>1
    <3> QED
      BY <3>1, <3>3, <3>4
  <2>6. ReceiptsAreHistory
    <3> SUFFICES ASSUME NEW j \in Unbound
                 PROVE  incidents[j].version > 0 =>
            /\ \A v \in 1..2 : receipts[j][v] # {} <=> v < incidents[j].version
            /\ incidents[j].version > 1 =>
                  \E q \in Requests :
                      receipts[j][incidents[j].version - 1]
                          = {[request |-> q, result |-> [status |-> incidents[j].status,
                                                         version |-> incidents[j].version]]}
      BY DEF ReceiptsAreHistory
    <3> QED
      BY <2>0 DEF IncidentHistory
  <2> QED
    BY <2>1, <2>2, <2>3, <2>4, <2>5, <2>6 DEF AttentionIsComplete
<1> QED
  BY <1>1, AttentionInvariant, PTL

-----------------------------------------------------------------------------
(***************************************************************************)
(* The audit chain.                                                        *)
(***************************************************************************)
\* A stored row: what was hashed is its content at some fraction of a
\* microsecond.
StoredRow(r) ==
    /\ r.content = [id |-> r.content.id, tenant |-> "ours", prev |-> r.content.prev,
                    body |-> "fact", fraction |-> 0]
    /\ r.content.id \in EventIds /\ r.at \in 0..MaxTime
    /\ \E f \in Fractions : r.hash = Digest([r.content EXCEPT !.fraction = f])

\* Rows one after the other, each naming the one before it, under ids of
\* their own.
Linked(f) ==
    /\ \A i \in 1..Len(f) : /\ StoredRow(f[i])
                            /\ f[i].content.prev = IF i = 1 THEN NoHash ELSE f[i - 1].hash
    /\ \A i, j \in 1..Len(f) : f[i].content.id = f[j].content.id => i = j

\* The list names every row of the set and nothing else.
Enumerates(f, S) == f \in Seq(S) /\ S = {f[i] : i \in 1..Len(f)}

\* The rows of the set can be put in such an order.
IsChain(S) == \E f \in Seq(S) : Enumerates(f, S) /\ Linked(f)

-----------------------------------------------------------------------------
(***************************************************************************)
(* Chains of rows.                                                         *)
(***************************************************************************)
\* A digest is not the lack of one, and names its content.
LEMMA DigestsDiffer ==
    ASSUME NEW c, NEW d
    PROVE  /\ Digest(c) # NoHash
           /\ Digest(c) = Digest(d) => c = d
<1>1. DOMAIN Digest(c) = {"sha256"} /\ DOMAIN NoHash = {"none"}
  BY DEF Digest, NoHash
<1>2. Digest(c).sha256 = c /\ Digest(d).sha256 = d
  BY DEF Digest
<1> QED
  BY <1>1, <1>2

\* Two rows of one hash are rows of one id.
LEMMA HashNamesTheRow ==
    ASSUME NEW r, NEW q, StoredRow(r), StoredRow(q)
    PROVE  /\ r.hash # NoHash
           /\ r.hash = q.hash => r.content.id = q.content.id
<1>1. PICK f \in Fractions : r.hash = Digest([r.content EXCEPT !.fraction = f])
  BY DEF StoredRow
<1>2. PICK g \in Fractions : q.hash = Digest([q.content EXCEPT !.fraction = g])
  BY DEF StoredRow
<1>3. [r.content EXCEPT !.fraction = f].id = r.content.id
  BY DEF StoredRow
<1>4. [q.content EXCEPT !.fraction = g].id = q.content.id
  BY DEF StoredRow
<1> QED
  BY <1>1, <1>2, <1>3, <1>4, DigestsDiffer

\* The last row is the only one no other row names.
LEMMA ChainHasOneHead ==
    ASSUME NEW S, NEW f, Enumerates(f, S), Linked(f), S # {}
    PROVE  /\ Len(f) \in Nat \ {0} /\ f[Len(f)] \in S
           /\ Heads(S) = {f[Len(f)].hash}
<1> DEFINE n == Len(f)
<1>1. n \in Nat \ {0} /\ \A i \in 1..n : f[i] \in S
  BY LenProperties DEF Enumerates
<1>2. \A i \in 1..n : StoredRow(f[i])
  BY DEF Linked
<1>3. ASSUME NEW i \in 1..n, i # n
      PROVE  \E p \in S : p.content.prev = f[i].hash
  <2>1. i + 1 \in 1..n /\ i + 1 # 1 /\ (i + 1) - 1 = i
    BY <1>1, <1>3
  <2>2. f[i + 1].content.prev = f[i].hash
    BY <2>1 DEF Linked
  <2> QED
    BY <1>1, <2>1, <2>2
<1>4. ASSUME NEW k \in 1..n, f[k].content.prev = f[n].hash
      PROVE  FALSE
  <2>1. CASE k = 1
    BY <1>1, <1>2, <1>4, <2>1, HashNamesTheRow DEF Linked
  <2>2. CASE k # 1
    <3>1. k - 1 \in 1..n /\ n \in 1..n
      BY <1>1, <2>2
    <3>2. f[k - 1].hash = f[n].hash
      BY <1>4, <2>2 DEF Linked
    <3>3. f[k - 1].content.id = f[n].content.id
      BY <1>2, <3>1, <3>2, HashNamesTheRow
    <3>4. k - 1 = n
      BY <3>1, <3>3 DEF Linked
    <3> QED
      BY <1>1, <3>4
  <2> QED
    BY <2>1, <2>2
<1>5. \A q \in S : (\A p \in S : p.content.prev # q.hash) <=> q = f[n]
  <2> SUFFICES ASSUME NEW q \in S
               PROVE  (\A p \in S : p.content.prev # q.hash) <=> q = f[n]
    OBVIOUS
  <2>1. PICK i \in 1..n : q = f[i]
    BY DEF Enumerates
  <2>2. CASE i = n
    <3>1. \A p \in S : p.content.prev # q.hash
      BY <1>4, <2>1, <2>2 DEF Enumerates
    <3> QED
      BY <2>1, <2>2, <3>1
  <2>3. CASE i # n
    <3>1. \E p \in S : p.content.prev = q.hash
      BY <1>3, <2>1, <2>3
    <3>2. q # f[n]
      <4>1. n \in 1..n
        BY <1>1
      <4> QED
        BY <2>1, <2>3, <4>1 DEF Linked
    <3> QED
      BY <3>1, <3>2
  <2> QED
    BY <2>2, <2>3
<1>6. f[n] \in S
  BY <1>1
<1> HIDE DEF n
<1>7. {q \in S : \A p \in S : p.content.prev # q.hash} = {f[n]}
  BY <1>5, <1>6
<1>8. Heads(S) = {f[n].hash}
  BY <1>7 DEF Heads
<1> QED
  BY <1>1, <1>6, <1>8 DEF n

\* A row behind the last one makes a longer chain; a row that repeats no
\* row's predecessor can only be behind the last one.
LEMMA ChainGrows ==
    ASSUME NEW S, IsChain(S), S # {}, NEW row, StoredRow(row),
           row.content.prev \in Hashes(S) \cup {NoHash},
           \A r \in S : r.content.prev # row.content.prev /\ r.content.id # row.content.id
    PROVE  IsChain(S \cup {row}) /\ Heads(S \cup {row}) = {row.hash}
<1>1. PICK f \in Seq(S) : Enumerates(f, S) /\ Linked(f)
  BY DEF IsChain
<1> DEFINE n == Len(f)
           g == Append(f, row)
           T == S \cup {row}
<1>2. n \in Nat \ {0} /\ f[n] \in S /\ \A i \in 1..n : f[i] \in S
  BY <1>1, ChainHasOneHead DEF Enumerates
<1>3. row.content.prev = f[n].hash
  <2>1. row.content.prev # NoHash
    <3>1. 1 \in 1..n
      BY <1>2
    <3>2. f[1].content.prev = NoHash
      BY <1>1, <3>1 DEF Linked
    <3> QED
      BY <1>2, <3>1, <3>2
  <2>2. PICK r \in S : row.content.prev = r.hash
    BY <2>1 DEF Hashes
  <2>3. PICK i \in 1..n : r = f[i]
    BY <1>1 DEF Enumerates
  <2>4. i = n
    <3> SUFFICES ASSUME i # n PROVE FALSE
      OBVIOUS
    <3>1. i + 1 \in 1..n /\ i + 1 # 1 /\ (i + 1) - 1 = i
      BY <1>2
    <3>2. f[i + 1].content.prev = f[i].hash
      BY <1>1, <3>1 DEF Linked
    <3> QED
      BY <1>2, <2>2, <2>3, <3>1, <3>2
  <2> QED
    BY <2>2, <2>3, <2>4
<1>4. /\ g \in Seq(T) /\ Len(g) = n + 1 /\ g[n + 1] = row
      /\ \A i \in 1..n : g[i] = f[i]
  <2>1. f \in Seq(T)
    BY <1>1
  <2> QED
    BY <2>1
<1> HIDE DEF g
<1>5. T = {g[i] : i \in 1..Len(g)}
  <2>1. 1..Len(g) = (1..n) \cup {n + 1}
    BY <1>2, <1>4
  <2> HIDE DEF n
  <2>2. S = {f[i] : i \in 1..n}
    BY <1>1 DEF Enumerates, n
  <2>3. ASSUME NEW x \in T PROVE \E i \in 1..Len(g) : x = g[i]
    BY <1>4, <2>1, <2>2
  <2>4. ASSUME NEW i \in 1..Len(g) PROVE g[i] \in T
    BY <1>4, <2>1, <2>2
  <2> QED
    BY <2>3, <2>4
<1>6. Linked(g)
  <2>1. ASSUME NEW i \in 1..Len(g)
        PROVE  StoredRow(g[i]) /\ g[i].content.prev = IF i = 1 THEN NoHash ELSE g[i - 1].hash
    <3>1. CASE i = n + 1
      <4>1. i - 1 = n /\ n \in 1..n /\ i # 1
        BY <1>2, <3>1
      <4> QED
        BY <1>3, <1>4, <3>1, <4>1
    <3>2. CASE i # n + 1
      <4>1. i \in 1..n /\ (i # 1 => i - 1 \in 1..n)
        BY <1>2, <1>4, <3>2
      <4>2. StoredRow(f[i]) /\ f[i].content.prev = IF i = 1 THEN NoHash ELSE f[i - 1].hash
        BY <1>1, <4>1 DEF Linked
      <4> QED
        BY <1>4, <4>1, <4>2
    <3> QED
      BY <3>1, <3>2
  <2>2. ASSUME NEW i \in 1..Len(g), NEW j \in 1..Len(g), g[i].content.id = g[j].content.id
        PROVE  i = j
    <3>1. CASE i \in 1..n /\ j \in 1..n
      BY <1>1, <1>4, <2>2, <3>1 DEF Linked
    <3>2. CASE i = n + 1 /\ j \in 1..n
      BY <1>2, <1>4, <2>2, <3>2
    <3>3. CASE j = n + 1 /\ i \in 1..n
      BY <1>2, <1>4, <2>2, <3>3
    <3>4. CASE i = n + 1 /\ j = n + 1
      BY <3>4
    <3> QED
      BY <1>2, <1>4, <3>1, <3>2, <3>3, <3>4
  <2> QED
    BY <2>1, <2>2 DEF Linked
<1>7. Enumerates(g, T)
  BY <1>4, <1>5 DEF Enumerates
<1>8. IsChain(T)
  BY <1>4, <1>6, <1>7 DEF IsChain
<1>9. Heads(T) = {row.hash}
  <2>1. T # {}
    OBVIOUS
  <2> HIDE DEF T
  <2>2. Heads(T) = {g[Len(g)].hash}
    BY <1>6, <1>7, <2>1, ChainHasOneHead
  <2> QED
    BY <1>4, <2>2
<1> QED
  BY <1>8, <1>9

\* The parts of a chain that need no enumeration to be read.
LEMMA ChainParts ==
    ASSUME NEW S, IsChain(S)
    PROVE  /\ \A r \in S : StoredRow(r)
           /\ S # {} => /\ \E r \in S : r.content.prev = NoHash
                        /\ \E h : Heads(S) = {h}
           /\ IsFiniteSet(S)
<1>1. PICK f \in Seq(S) : Enumerates(f, S) /\ Linked(f)
  BY DEF IsChain
<1>2. \A r \in S : StoredRow(r)
  BY <1>1 DEF Enumerates, Linked
<1>3. ASSUME S # {}
      PROVE  (\E r \in S : r.content.prev = NoHash) /\ (\E h : Heads(S) = {h})
  <2>1. Len(f) \in Nat \ {0} /\ Heads(S) = {f[Len(f)].hash}
    BY <1>1, <1>3, ChainHasOneHead
  <2>2. 1 \in 1..Len(f)
    BY <2>1
  <2>3. f[1].content.prev = NoHash /\ f[1] \in S
    BY <1>1, <2>2 DEF Linked, Enumerates
  <2> QED
    BY <2>1, <2>3
<1>4. IsFiniteSet(S)
  <2>1. Len(f) \in Nat /\ f \in [1..Len(f) -> S] /\ \A r \in S : \E i \in 1..Len(f) : f[i] = r
    BY <1>1, LenProperties DEF Enumerates
  <2>2. f \in Surjection(1..Len(f), S)
    BY <2>1 DEF Surjection
  <2> QED
    BY <2>1, <2>2, FS_NatSurjection DEF ExistsSurjection
<1> QED
  BY <1>2, <1>3, <1>4

\* Every row of a chain has a predecessor of its own.
LEMMA ChainIsCounted ==
    ASSUME NEW S, IsChain(S), NEW P, P = {r.content.prev : r \in S}
    PROVE  /\ Cardinality(P) = Cardinality(S)
           /\ S # {} => NoHash \in P
           /\ P \ {NoHash} \subseteq Hashes(S)
<1>1. PICK f \in Seq(S) : Enumerates(f, S) /\ Linked(f)
  BY DEF IsChain
<1>2. IsFiniteSet(S) /\ (S # {} => \E r \in S : r.content.prev = NoHash)
  BY ChainParts
<1>3. \A i \in 1..Len(f) : StoredRow(f[i]) /\ f[i] \in S
  BY <1>1 DEF Linked, Enumerates
<1>4. ASSUME NEW i \in 1..Len(f), NEW j \in 1..Len(f), f[i].content.prev = f[j].content.prev
      PROVE  i = j
  <2>0. Len(f) \in Nat
    BY LenProperties
  <2>1. CASE i = 1 /\ j # 1
    <3>1. j - 1 \in 1..Len(f) /\ f[j - 1].hash = NoHash
      BY <1>1, <1>4, <2>0, <2>1 DEF Linked
    <3> QED
      BY <1>3, <3>1, HashNamesTheRow
  <2>2. CASE i # 1 /\ j = 1
    <3>1. i - 1 \in 1..Len(f) /\ f[i - 1].hash = NoHash
      BY <1>1, <1>4, <2>0, <2>2 DEF Linked
    <3> QED
      BY <1>3, <3>1, HashNamesTheRow
  <2>3. CASE i # 1 /\ j # 1
    <3>1. i - 1 \in 1..Len(f) /\ j - 1 \in 1..Len(f) /\ f[i - 1].hash = f[j - 1].hash
      BY <1>1, <1>4, <2>0, <2>3 DEF Linked
    <3>2. f[i - 1].content.id = f[j - 1].content.id
      BY <1>3, <3>1, HashNamesTheRow
    <3>3. i - 1 = j - 1
      BY <1>1, <3>1, <3>2 DEF Linked
    <3> QED
      BY <2>0, <3>3
  <2> QED
    BY <2>1, <2>2, <2>3
<1>5. \A r, q \in S : r.content.prev = q.content.prev => r = q
  BY <1>1, <1>4, SMTT(30) DEF Enumerates
<1>6. Cardinality(P) = Cardinality(S)
  <2> DEFINE b == [r \in S |-> r.content.prev]
  <2>1. b \in Injection(S, P)
    BY <1>5 DEF Injection, IsInjective
  <2>2. b \in Surjection(S, P)
    BY DEF Surjection
  <2>3. ExistsBijection(S, P)
    BY <2>1, <2>2 DEF Bijection, ExistsBijection
  <2> QED
    BY <1>2, <2>3, FS_Bijection
<1>7. ASSUME NEW r \in S, r.content.prev # NoHash
      PROVE  r.content.prev \in Hashes(S)
  <2>0. Len(f) \in Nat
    BY LenProperties
  <2>1. PICK i \in 1..Len(f) : r = f[i]
    BY <1>1 DEF Enumerates
  <2>2. i # 1 /\ r.content.prev = f[i - 1].hash
    BY <1>1, <1>7, <2>1 DEF Linked
  <2>3. i - 1 \in 1..Len(f)
    BY <2>0, <2>2
  <2> QED
    BY <1>3, <2>2, <2>3 DEF Hashes
<1> QED
  BY <1>2, <1>6, <1>7

-----------------------------------------------------------------------------
(***************************************************************************)
(* Exports.                                                                *)
(***************************************************************************)
\* Events that passed verify_audit_chain so far.
Verified(s) ==
    \A i \in 1..Len(s) :
        /\ s[i] = [content |-> s[i].content, hash |-> s[i].hash]
        /\ s[i].content.fraction = 0
        /\ s[i].hash = Digest(s[i].content)
        /\ s[i].content.prev = IF i = 1 THEN NoHash ELSE s[i - 1].hash

\* A verified event with the hash of a stored row is that row.
LEMMA HashProvesTheRow ==
    ASSUME NEW r, StoredRow(r), NEW e, e.content.fraction = 0,
           e.hash = Digest(e.content), e.hash = r.hash
    PROVE  e.content = r.content
<1>1. PICK f \in Fractions : r.hash = Digest([r.content EXCEPT !.fraction = f])
  BY DEF StoredRow
<1>2. e.content = [r.content EXCEPT !.fraction = f]
  BY <1>1, DigestsDiffer
<1>3. [r.content EXCEPT !.fraction = f].fraction = f
  BY DEF StoredRow
<1>4. f = 0
  BY <1>2, <1>3
<1>5. [r.content EXCEPT !.fraction = 0] = r.content
  BY DEF StoredRow
<1> QED
  BY <1>2, <1>4, <1>5

\* Two lists that end with one hash agree from there back to the first row of
\* the shorter one.
LEMMA ListsAgreeBackwards ==
    ASSUME NEW S, NEW f, Enumerates(f, S), Linked(f), NEW U, NEW s \in Seq(U), Verified(s),
           Len(f) # 0, Len(s) # 0, s[Len(s)].hash = f[Len(f)].hash
    PROVE  \A t \in Nat : t < Len(s) /\ t < Len(f) => s[Len(s) - t].hash = f[Len(f) - t].hash
<1> DEFINE n == Len(f)
           m == Len(s)
           Bad == {t \in Nat : t < m /\ t < n /\ s[m - t].hash # f[n - t].hash}
<1>1. n \in Nat /\ m \in Nat
  BY LenProperties DEF Enumerates
<1> SUFFICES ASSUME Bad # {} PROVE FALSE
  OBVIOUS
<1>2. PICK t \in Bad : \A u \in Bad : <<u, t>> \notin OpToRel(<, Nat)
  <2>1. Bad \subseteq Nat
    OBVIOUS
  <2> HIDE DEF Bad
  <2> QED
    BY <2>1, NatLessThanWellFounded, WFMin
<1>3. t \in Nat /\ t < m /\ t < n /\ s[m - t].hash # f[n - t].hash
  OBVIOUS
<1>4. t # 0
  BY <1>1, <1>3
<1>5. t - 1 \in Nat /\ t - 1 < m /\ t - 1 < n /\ t - 1 < t
  BY <1>1, <1>3, <1>4
<1>6. s[m - (t - 1)].hash = f[n - (t - 1)].hash
  <2>1. t - 1 \notin Bad
    BY <1>2, <1>3, <1>5 DEF OpToRel
  <2> QED
    BY <1>5, <2>1
<1> DEFINE a == m - (t - 1)
           b == n - (t - 1)
<1>7. /\ a \in 1..m /\ a # 1 /\ a - 1 = m - t
      /\ b \in 1..n /\ b # 1 /\ b - 1 = n - t
  BY <1>1, <1>3, <1>5
<1>8. s[a].hash = f[b].hash
  BY <1>6
<1> HIDE DEF a, b, n, m, Bad
<1>9. s[a].content = f[b].content
  BY <1>7, <1>8, HashProvesTheRow DEF Verified, Linked, n, m
<1>10. s[a].content.prev = s[a - 1].hash /\ f[b].content.prev = f[b - 1].hash
  BY <1>7 DEF Verified, Linked, n, m
<1> QED
  BY <1>3, <1>7, <1>9, <1>10

\* A verified list that ends with the head of a chain is that chain.
LEMMA AnchoredListIsTheChain ==
    ASSUME NEW S, IsChain(S), S # {}, NEW U, NEW s \in Seq(U), Verified(s), LastHash(s) \in Heads(S)
    PROVE  /\ {s[i] : i \in 1..Len(s)} = Events(S)
           /\ Len(s) = Cardinality(S)
<1>1. PICK f \in Seq(S) : Enumerates(f, S) /\ Linked(f)
  BY DEF IsChain
<1> DEFINE n == Len(f)
           m == Len(s)
<1>2. n \in Nat \ {0} /\ f[n] \in S /\ Heads(S) = {f[n].hash}
  BY <1>1, ChainHasOneHead
<1>3. \A i \in 1..n : StoredRow(f[i]) /\ f[i].hash # NoHash /\ f[i] \in S
  BY <1>1, HashNamesTheRow DEF Linked, Enumerates
<1>4. m \in Nat \ {0} /\ s[m].hash = f[n].hash
  <2>1. LastHash(s) # NoHash
    BY <1>2, <1>3
  <2>2. s # <<>> /\ LastHash(s) = s[m].hash
    BY <2>1 DEF LastHash, Last
  <2> QED
    BY <1>2, <2>2
<1>5. \A t \in Nat : t < m /\ t < n => s[m - t].hash = f[n - t].hash
  BY <1>1, <1>2, <1>4, ListsAgreeBackwards
<1> HIDE DEF n, m
<1>6. m = n
  <2>1. CASE m < n
    <3>1. m - 1 \in Nat /\ m - 1 < m /\ m - 1 < n /\ m - (m - 1) = 1
      <4>1. n \in Nat /\ m \in Nat /\ m # 0
        BY <1>2, <1>4
      <4> QED
        BY <2>1, <4>1
    <3>2. PICK b \in 1..n : b = n - (m - 1) /\ b # 1 /\ b - 1 \in 1..n
      <4>1. n \in Nat /\ m \in Nat /\ m # 0
        BY <1>2, <1>4
      <4>2. n - (m - 1) \in 1..n /\ n - (m - 1) # 1 /\ (n - (m - 1)) - 1 \in 1..n
        BY <2>1, <4>1
      <4> QED
        BY <4>2
    <3>3. s[1].hash = f[b].hash /\ 1 \in 1..m
      BY <1>4, <1>5, <3>1, <3>2
    <3>4. s[1].content = f[b].content
      BY <1>3, <3>3, HashProvesTheRow DEF Verified, m
    <3>5. s[1].content.prev = NoHash /\ f[b].content.prev = f[b - 1].hash
      BY <1>1, <3>2, <3>3 DEF Verified, Linked, n, m
    <3> QED
      BY <1>3, <3>2, <3>4, <3>5
  <2>2. CASE n < m
    <3>1. n - 1 \in Nat /\ n - 1 < m /\ n - 1 < n /\ n - (n - 1) = 1
      <4>1. n \in Nat /\ m \in Nat /\ n # 0
        BY <1>2, <1>4
      <4> QED
        BY <2>2, <4>1
    <3>2. PICK a \in 1..m : a = m - (n - 1) /\ a # 1 /\ a - 1 \in 1..m
      <4>1. n \in Nat /\ m \in Nat /\ n # 0
        BY <1>2, <1>4
      <4>2. m - (n - 1) \in 1..m /\ m - (n - 1) # 1 /\ (m - (n - 1)) - 1 \in 1..m
        BY <2>2, <4>1
      <4> QED
        BY <4>2
    <3>3. s[a].hash = f[1].hash /\ 1 \in 1..n
      BY <1>2, <1>5, <3>1, <3>2
    <3>4. s[a].content = f[1].content
      BY <1>3, <3>2, <3>3, HashProvesTheRow DEF Verified, m
    <3>5. f[1].content.prev = NoHash /\ s[a].content.prev = s[a - 1].hash /\ s[a - 1].hash = Digest(s[a - 1].content)
      BY <1>1, <3>2, <3>3 DEF Verified, Linked, n, m
    <3> QED
      BY <3>4, <3>5, DigestsDiffer
  <2> QED
    BY <1>2, <1>4, <2>1, <2>2
<1>7. ASSUME NEW i \in 1..n
      PROVE  s[i] = [content |-> f[i].content, hash |-> f[i].hash]
  <2>1. n - i \in Nat /\ n - i < n /\ n - (n - i) = i
    BY <1>2
  <2>2. s[i].hash = f[i].hash
    BY <1>5, <1>6, <2>1
  <2>3. s[i].content = f[i].content
    BY <1>3, <1>6, <2>2, HashProvesTheRow DEF Verified, m
  <2> QED
    BY <1>6, <2>2, <2>3 DEF Verified, m
<1>8. {s[i] : i \in 1..m} = Events(S)
  <2>1. S = {f[i] : i \in 1..n}
    BY <1>1 DEF Enumerates, n
  <2>2. ASSUME NEW i \in 1..m PROVE s[i] \in Events(S)
    BY <1>3, <1>6, <1>7 DEF Events
  <2>3. ASSUME NEW e \in Events(S) PROVE \E i \in 1..m : e = s[i]
    <3>1. PICK r \in S : e = [content |-> r.content, hash |-> r.hash]
      BY DEF Events
    <3>2. PICK i \in 1..n : r = f[i]
      BY <2>1
    <3> QED
      BY <1>6, <1>7, <3>1, <3>2
  <2> QED
    BY <2>2, <2>3
<1>9. n = Cardinality(S)
  <2>1. f \in [1..n -> S] /\ \A r \in S : \E i \in 1..n : f[i] = r
    BY <1>1, LenProperties DEF Enumerates, n
  <2>2. \A i, j \in 1..n : f[i] = f[j] => i = j
    BY <1>1 DEF Linked, n
  <2>3. f \in Bijection(1..n, S)
    BY <2>1, <2>2 DEF Bijection, Injection, Surjection, IsInjective
  <2> QED
    BY <1>2, <2>3, FS_CountingElements DEF ExistsBijection
<1> QED
  BY <1>6, <1>8, <1>9 DEF m

-----------------------------------------------------------------------------
(***************************************************************************)
(* The inductive invariant.                                                *)
(***************************************************************************)
\* A sequence, of whatever it holds.
IsList(s) == \E U : s \in Seq(U)

\* A session's transaction: its rows and the head it read are of the chain
\* it sees, which no one else extends while it holds the lock.
Writing(w) ==
    /\ txn[w] = [kind |-> txn[w].kind, read |-> txn[w].read, head |-> txn[w].head,
                 new |-> txn[w].new, refused |-> txn[w].refused]
    /\ txn[w].kind \in AppendingKinds \cup {NoOne}
    /\ txn[w].read \in BOOLEAN /\ txn[w].refused \in BOOLEAN
    /\ IsList(txn[w].new) /\ Len(txn[w].new) <= MaxAppends
    /\ txn[w].new # <<>> \/ txn[w].read => lock = w
    /\ lock = w => txn[w].kind # NoOne
    /\ txn[w].kind # NoOne => auditRows # {}
    /\ IsChain(Visible(w))
    /\ txn[w].read => txn[w].head \in OrNone(IF txn[w].kind = "API" THEN Newest(Visible(w))
                                             ELSE Heads(Visible(w)))

\* An export is of a chain, and what it has shown so far verifies.
Exporting ==
    /\ export = [state |-> export.state, of |-> export.of, seen |-> export.seen, head |-> export.head]
    /\ export.state \in {"NONE", "OPEN", "ACCEPTED", "REFUSED"}
    /\ export.state # "NONE" => export.of # {}
    /\ IsChain(export.of)
    /\ IsList(export.seen) /\ Verified(export.seen)
    /\ export.state = "ACCEPTED" => export.head = LastHash(export.seen)

AuditInv ==
    /\ clock \in 0..MaxTime
    /\ lock \in Writers \cup {NoOne}
    /\ txn = [w \in Writers |-> txn[w]]
    /\ \A w \in Writers : Writing(w)
    /\ IsChain(auditRows)
    /\ Exporting

\* No rows are a chain, and one row without a predecessor is one.
LEMMA ShortChains ==
    /\ IsChain({})
    /\ \A row : StoredRow(row) /\ row.content.prev = NoHash => IsChain({row})
<1>1. IsChain({})
  <2> DEFINE f == <<>>
  <2>1. f \in Seq({}) /\ Len(f) = 0 /\ 1..Len(f) = {}
    OBVIOUS
  <2> HIDE DEF f
  <2>2. Enumerates(f, {}) /\ Linked(f)
    BY <2>1 DEF Enumerates, Linked
  <2> QED
    BY <2>1, <2>2 DEF IsChain
<1>2. ASSUME NEW row, StoredRow(row), row.content.prev = NoHash
      PROVE  IsChain({row})
  <2> DEFINE f == <<row>>
  <2>1. f \in Seq({row}) /\ Len(f) = 1 /\ 1..Len(f) = {1} /\ f[1] = row
    OBVIOUS
  <2> HIDE DEF f
  <2>2. Enumerates(f, {row}) /\ Linked(f)
    BY <1>2, <2>1 DEF Enumerates, Linked
  <2> QED
    BY <2>1, <2>2 DEF IsChain
<1> QED
  BY <1>1, <1>2

\* A new row is stored as a row, behind the hash it was given.
LEMMA RowsAreStored ==
    ASSUME clock \in 0..MaxTime, NEW id \in EventIds, NEW prev, NEW f \in Fractions,
           NEW row, row = Row(id, prev, f)
    PROVE  StoredRow(row) /\ row.content.prev = prev /\ row.content.id = id
<1> DEFINE c == [id |-> id, tenant |-> "ours", prev |-> prev, body |-> "fact", fraction |-> f]
           d == [id |-> id, tenant |-> "ours", prev |-> prev, body |-> "fact", fraction |-> 0]
<1>1. [c EXCEPT !.fraction = 0] = d /\ [d EXCEPT !.fraction = f] = c
  OBVIOUS
<1>2. row = [content |-> [c EXCEPT !.fraction = 0], hash |-> Digest(c), at |-> clock]
  BY DEF Row, Create, AsStored
<1>3. row.content = d /\ row.hash = Digest([d EXCEPT !.fraction = f]) /\ row.at = clock
  BY <1>1, <1>2
<1>4. d.id = id /\ d.prev = prev
  OBVIOUS
<1> HIDE DEF c
<1> QED
  BY <1>3, <1>4 DEF StoredRow

\* A session nothing happened to.
LEMMA OthersKeepWriting ==
    ASSUME NEW v, Writing(v), txn'[v] = txn[v], auditRows' = auditRows, lock' = v <=> lock = v
    PROVE  Writing(v)'
<1>1. Visible(v)' = Visible(v)
  BY DEF Visible
<1> QED
  BY <1>1 DEF Writing

\* An empty transaction sees the table.
LEMMA EmptySeesTheTable ==
    ASSUME NEW w, txn[w].new = <<>>
    PROVE  Visible(w) = auditRows
BY DEF Visible, Range

\* Idle sessions.
LEMMA IdleWrites ==
    ASSUME NEW w, NEW t, t.kind \in AppendingKinds \cup {NoOne},
           t.refused \in BOOLEAN, t.read = FALSE, t.new = <<>>,
           t = [kind |-> t.kind, read |-> t.read, head |-> t.head, new |-> t.new, refused |-> t.refused],
           txn'[w] = t, IsChain(auditRows'), t.kind # NoOne => auditRows' # {},
           lock' # w
    PROVE  Writing(w)'
<1>1. Visible(w)' = auditRows'
  BY DEF Visible, Range
<1>2. IsList(<<>>) /\ Len(<<>>) = 0 /\ 0 <= MaxAppends
  <2>1. <<>> \in Seq({})
    OBVIOUS
  <2>2. MaxAppends \in Nat
    BY AuditChainAssumption
  <2> QED
    BY <2>1, <2>2 DEF IsList
<1> QED
  BY <1>1, <1>2 DEF Writing

\* An empty table satisfies the invariant.
LEMMA AuditInvInit == AuditInit => AuditInv
<1> SUFFICES ASSUME AuditInit PROVE AuditInv
  OBVIOUS
<1> USE DEF AuditInit
<1>1. IsChain({})
  BY ShortChains
<1>2. IsList(<<>>) /\ Verified(<<>>) /\ Len(<<>>) = 0 /\ 0 <= MaxAppends
  <2>1. <<>> \in Seq({}) /\ Len(<<>>) = 0 /\ 1..0 = {}
    OBVIOUS
  <2>2. MaxAppends \in Nat
    BY AuditChainAssumption
  <2> QED
    BY <2>1, <2>2 DEF IsList, Verified
<1>3. ASSUME NEW w \in Writers
      PROVE  Writing(w)
  <2>1. txn[w] = Idle /\ lock # w
    BY AuditChainAssumption
  <2>2. Visible(w) = {}
    BY <2>1, EmptySeesTheTable DEF Idle
  <2> QED
    BY <1>1, <1>2, <2>1, <2>2 DEF Writing, Idle
<1>4. Exporting
  BY <1>1, <1>2 DEF Exporting, NoAudit
<1> QED
  BY <1>1, <1>3, <1>4 DEF AuditInv

-----------------------------------------------------------------------------
(***************************************************************************)
(* Every step keeps the invariant.                                         *)
(***************************************************************************)
\* The first row is a chain of its own, and no session has begun.
LEMMA TenantStarts ==
    ASSUME AuditInv, Provision
    PROVE  AuditInv'
<1>1. /\ auditRows = {} /\ clock' = clock /\ lock' = lock /\ txn' = txn /\ export' = export
  BY DEF Provision
<1>2. PICK id \in EventIds, f \in Fractions : auditRows' = {Row(id, NoHash, f)}
  BY DEF Provision
<1>3. IsChain(auditRows')
  <2>1. PICK row : row = Row(id, NoHash, f)
    OBVIOUS
  <2>2. StoredRow(row) /\ row.content.prev = NoHash
    BY <2>1, RowsAreStored DEF AuditInv
  <2> QED
    BY <1>2, <2>1, <2>2, ShortChains
<1>4. ASSUME NEW w \in Writers
      PROVE  Writing(w)'
  <2>1. txn[w].kind = NoOne /\ lock # w /\ txn[w].new = <<>> /\ txn[w].read = FALSE
    BY <1>1 DEF AuditInv, Writing
  <2>2. PICK t : t = txn[w]
    OBVIOUS
  <2>3. /\ t.kind \in AppendingKinds \cup {NoOne} /\ t.refused \in BOOLEAN
        /\ t = [kind |-> t.kind, read |-> t.read, head |-> t.head, new |-> t.new, refused |-> t.refused]
    BY <2>2 DEF AuditInv, Writing
  <2> QED
    BY <1>1, <1>3, <2>1, <2>2, <2>3, IdleWrites
<1>5. Exporting'
  BY <1>1 DEF AuditInv, Exporting
<1> QED
  BY <1>1, <1>3, <1>4, <1>5 DEF AuditInv

\* The clock is not part of the chain.
LEMMA ClockIsSet ==
    ASSUME AuditInv, SetClock
    PROVE  AuditInv'
<1>1. /\ clock' \in 0..MaxTime /\ auditRows' = auditRows /\ lock' = lock /\ txn' = txn /\ export' = export
  BY DEF SetClock
<1>2. \A w \in Writers : Writing(w)'
  BY <1>1, OthersKeepWriting DEF AuditInv
<1>3. Exporting'
  BY <1>1 DEF AuditInv, Exporting
<1> QED
  BY <1>1, <1>2, <1>3 DEF AuditInv

\* What is left to show of a step of one session that does not touch the
\* table.
LEMMA OneSessionMoves ==
    ASSUME AuditInv, NEW w \in Writers, NEW t,
           txn' = [txn EXCEPT ![w] = t], auditRows' = auditRows, clock' = clock, export' = export,
           lock' \in {lock, w, NoOne}, lock' # lock => lock \in {w, NoOne},
           Writing(w)'
    PROVE  AuditInv'
<1>1. ASSUME NEW v \in Writers, v # w
      PROVE  Writing(v)'
  <2>1. txn'[v] = txn[v] /\ Writing(v)
    BY <1>1 DEF AuditInv
  <2>2. lock' = v <=> lock = v
    BY <1>1, AuditChainAssumption
  <2> QED
    BY <2>1, <2>2, OthersKeepWriting
<1>2. txn' = [v \in Writers |-> txn'[v]]
  BY DEF AuditInv
<1>3. Exporting'
  BY DEF AuditInv, Exporting
<1> QED
  BY <1>1, <1>2, <1>3 DEF AuditInv

\* A transaction that ends without a row.
LEMMA SessionEnds ==
    ASSUME AuditInv, NEW w \in Writers, NEW t, t \in {Idle, [Idle EXCEPT !.refused = TRUE]},
           txn' = [txn EXCEPT ![w] = t], Release(w), auditRows' = auditRows, clock' = clock,
           export' = export
    PROVE  AuditInv'
<1>1. /\ t = [kind |-> t.kind, read |-> t.read, head |-> t.head, new |-> t.new, refused |-> t.refused]
      /\ t.kind = NoOne /\ t.read = FALSE /\ t.new = <<>> /\ t.refused \in BOOLEAN
  <2>1. CASE t = Idle
    BY <2>1 DEF Idle
  <2>2. CASE t = [Idle EXCEPT !.refused = TRUE]
    BY <2>2 DEF Idle
  <2> QED
    BY <2>1, <2>2
<1>2. txn'[w] = t
  BY DEF AuditInv
<1>3. lock' # w /\ lock' \in {lock, NoOne} /\ (lock' # lock => lock = w)
  BY AuditChainAssumption DEF Release
<1>4. Writing(w)'
  BY <1>1, <1>2, <1>3, IdleWrites DEF AuditInv
<1> QED
  BY <1>3, <1>4, OneSessionMoves

\* A session begins with nothing read.
LEMMA SessionBegins ==
    ASSUME AuditInv, NEW w \in Writers, Begin(w)
    PROVE  AuditInv'
<1>1. /\ auditRows # {} /\ txn[w].kind = NoOne
      /\ clock' = clock /\ auditRows' = auditRows /\ lock' = lock /\ export' = export
  BY DEF Begin
<1>2. PICK k \in AppendingKinds : txn' = [txn EXCEPT ![w] = [Idle EXCEPT !.kind = k]]
  BY DEF Begin
<1>3. PICK t : t = [Idle EXCEPT !.kind = k]
  OBVIOUS
<1>4. /\ t = [kind |-> t.kind, read |-> t.read, head |-> t.head, new |-> t.new, refused |-> t.refused]
      /\ t.kind = k /\ t.read = FALSE /\ t.new = <<>> /\ t.refused \in BOOLEAN
  BY <1>3 DEF Idle
<1>5. txn'[w] = t /\ lock' # w
  BY <1>1, <1>2, <1>3 DEF AuditInv, Writing
<1>6. Writing(w)'
  BY <1>1, <1>4, <1>5, IdleWrites DEF AuditInv
<1> QED
  BY <1>1, <1>2, <1>3, <1>6, OneSessionMoves

\* The lock is free when it is taken.
LEMMA ChainIsLocked ==
    ASSUME AuditInv, NEW w \in Writers, LockChain(w)
    PROVE  AuditInv'
<1>1. /\ txn[w].kind # NoOne /\ lock = NoOne /\ lock' = w
      /\ clock' = clock /\ auditRows' = auditRows /\ txn' = txn /\ export' = export
  BY DEF LockChain
<1>2. Writing(w) /\ Visible(w)' = Visible(w)
  BY <1>1 DEF AuditInv, Visible
<1>3. Writing(w)'
  BY <1>1, <1>2 DEF Writing
<1>4. PICK t : t = txn[w]
  OBVIOUS
<1>5. txn' = [txn EXCEPT ![w] = t]
  BY <1>1, <1>4 DEF AuditInv
<1> QED
  BY <1>1, <1>3, <1>5, OneSessionMoves

\* The head is read under the lock.
LEMMA HeadIsRead ==
    ASSUME AuditInv, NEW w \in Writers, ReadHead(w)
    PROVE  AuditInv'
<1>1. /\ txn[w].kind # NoOne /\ lock = w
      /\ clock' = clock /\ auditRows' = auditRows /\ lock' = lock /\ export' = export
  BY DEF ReadHead, MayRead
<1>2. PICK h \in HeadsRead(w) : txn' = [txn EXCEPT ![w] = [txn[w] EXCEPT !.read = TRUE, !.head = h]]
  BY DEF ReadHead
<1>3. Writing(w)
  BY DEF AuditInv
<1>4. PICK t : t = [txn[w] EXCEPT !.read = TRUE, !.head = h]
  OBVIOUS
<1>5. t = [kind |-> txn[w].kind, read |-> TRUE, head |-> h, new |-> txn[w].new, refused |-> txn[w].refused]
  BY <1>3, <1>4 DEF Writing
<1>6. txn'[w] = t
  BY <1>2, <1>4 DEF AuditInv
<1>7. Visible(w)' = Visible(w)
  BY <1>1, <1>5, <1>6 DEF Visible
<1>8. h \in OrNone(IF txn[w].kind = "API" THEN Newest(Visible(w)) ELSE Heads(Visible(w)))
  <2>1. CASE txn[w].kind = "API"
    BY <2>1 DEF HeadsRead
  <2>2. CASE txn[w].kind # "API"
    BY <2>2 DEF HeadsRead
  <2> QED
    BY <2>1, <2>2
<1>9. Writing(w)'
  BY <1>1, <1>3, <1>5, <1>6, <1>7, <1>8 DEF Writing
<1> QED
  BY <1>1, <1>2, <1>4, <1>9, OneSessionMoves

\* A session that may insert extends the chain it sees; one that may not has
\* taken for the head a row that has a successor, which only the API does, by
\* the clock (the writers' inserts under the two unique indexes).
LEMMA RowIsInserted ==
    ASSUME AuditInv, NEW w \in Writers, NEW fractions \in SUBSET Fractions, NEW carries \in BOOLEAN,
           carries => txn[w].kind # "API", InsertRow(w, fractions, carries)
    PROVE  /\ AuditInv'
           /\ \A v \in Writers : (txn'[v].refused /\ ~txn[v].refused) =>
                 txn[v].kind = "API" /\ Newest(Visible(v)) # Heads(Visible(v))
<1>1. lock = w /\ txn[w].read /\ Len(txn[w].new) < MaxAppends
  BY DEF InsertRow
<1>2. PICK id \in EventIds \ UsedIds, f \in fractions :
        LET row == Row(id, txn[w].head, f) IN
        \/ ~MayInsert(w, row) /\ Refuse(w)
        \/ /\ MayInsert(w, row)
           /\ txn' = [txn EXCEPT ![w] = [txn[w] EXCEPT !.new = Append(txn[w].new, row),
                                                       !.head = row.hash, !.read = carries]]
           /\ UNCHANGED <<clock, auditRows, lock, export>>
  BY DEF InsertRow
<1>3. PICK row : row = Row(id, txn[w].head, f)
  OBVIOUS
<1>4. /\ Writing(w) /\ txn[w].kind # NoOne /\ auditRows # {} /\ IsChain(Visible(w))
      /\ txn[w].head \in OrNone(IF txn[w].kind = "API" THEN Newest(Visible(w)) ELSE Heads(Visible(w)))
  BY <1>1 DEF AuditInv, Writing
<1>5. StoredRow(row) /\ row.content.prev = txn[w].head /\ row.content.id = id
  BY <1>3, RowsAreStored DEF AuditInv
<1>6. Visible(w) # {} /\ \E h : Heads(Visible(w)) = {h}
  <2>1. Visible(w) # {}
    BY <1>4 DEF Visible
  <2> QED
    BY <1>4, <2>1, ChainParts
<1>7. CASE ~MayInsert(w, row) /\ Refuse(w)
  <2>1. PICK r \in Visible(w) : r.content.prev = txn[w].head
    BY <1>5, <1>7 DEF MayInsert
  <2>2. txn[w].head \notin Heads(Visible(w))
    BY <2>1 DEF Heads
  <2>3. txn[w].kind = "API" /\ Newest(Visible(w)) # Heads(Visible(w))
    BY <1>4, <1>6, <2>2 DEF OrNone
  <2>4. PICK t : t = [Idle EXCEPT !.refused = TRUE]
    OBVIOUS
  <2>5. /\ txn' = [txn EXCEPT ![w] = t] /\ Release(w)
        /\ auditRows' = auditRows /\ clock' = clock /\ export' = export
    BY <1>7, <2>4 DEF Refuse
  <2>6. AuditInv'
    BY <2>4, <2>5, SessionEnds
  <2>7. \A v \in Writers : v # w => txn'[v] = txn[v]
    BY <2>5 DEF AuditInv
  <2> QED
    BY <2>3, <2>6, <2>7
<1>8. CASE /\ MayInsert(w, row)
           /\ txn' = [txn EXCEPT ![w] = [txn[w] EXCEPT !.new = Append(txn[w].new, row),
                                                       !.head = row.hash, !.read = carries]]
           /\ UNCHANGED <<clock, auditRows, lock, export>>
  <2>1. row.content.prev \in Hashes(Visible(w)) \cup {NoHash}
    <3>1. Heads(Visible(w)) \subseteq Hashes(Visible(w)) /\ Newest(Visible(w)) \subseteq Hashes(Visible(w))
      BY DEF Heads, Newest, Hashes
    <3> QED
      BY <1>4, <1>5, <3>1 DEF OrNone
  <2>2. \A r \in Visible(w) : r.content.prev # row.content.prev /\ r.content.id # row.content.id
    <3>1. \A r \in Visible(w) : r.content.prev # row.content.prev
      BY <1>8 DEF MayInsert
    <3>2. \A r \in Visible(w) : r.content.id \in UsedIds
      BY DEF Visible, UsedIds
    <3> QED
      BY <1>5, <3>1, <3>2
  <2>3. PICK S : S = Visible(w)
    OBVIOUS
  <2>4. IsChain(S \cup {row}) /\ Heads(S \cup {row}) = {row.hash}
    BY <1>4, <1>5, <1>6, <2>1, <2>2, <2>3, ChainGrows
  <2>5. PICK t : t = [txn[w] EXCEPT !.new = Append(txn[w].new, row), !.head = row.hash, !.read = carries]
    OBVIOUS
  <2>6. t = [kind |-> txn[w].kind, read |-> carries, head |-> row.hash,
             new |-> Append(txn[w].new, row), refused |-> txn[w].refused]
    BY <1>4, <2>5 DEF Writing
  <2>7. txn'[w] = t /\ txn' = [txn EXCEPT ![w] = t]
    BY <1>8, <2>5 DEF AuditInv
  <2>8. PICK U : txn[w].new \in Seq(U)
    BY <1>4 DEF Writing, IsList
  <2>9. PICK s : s = txn[w].new
    OBVIOUS
  <2>10. /\ Append(s, row) \in Seq(U \cup {row}) /\ Len(Append(s, row)) = Len(s) + 1
         /\ Range(Append(s, row)) = Range(s) \cup {row}
    <3>1. s \in Seq(U \cup {row}) /\ Len(s) \in Nat
      BY <2>8, <2>9
    <3> DEFINE g == Append(s, row)
    <3>2. /\ g \in Seq(U \cup {row}) /\ Len(g) = Len(s) + 1 /\ g[Len(s) + 1] = row
          /\ \A i \in 1..Len(s) : g[i] = s[i]
          /\ DOMAIN g = 1..(Len(s) + 1) /\ DOMAIN s = 1..Len(s)
      BY <3>1
    <3> HIDE DEF g
    <3>3. Range(g) = Range(s) \cup {row}
      <4>1. 1..(Len(s) + 1) = (1..Len(s)) \cup {Len(s) + 1}
        BY <3>1
      <4>2. Range(g) = {g[i] : i \in 1..(Len(s) + 1)} /\ Range(s) = {s[i] : i \in 1..Len(s)}
        BY <3>2 DEF Range
      <4> QED
        BY <3>2, <4>1, <4>2
    <3> QED
      BY <3>2, <3>3 DEF g
  <2>11. Visible(w)' = S \cup {row}
    BY <1>8, <2>3, <2>6, <2>7, <2>9, <2>10 DEF Visible
  <2>12. IsList(t.new) /\ Len(t.new) <= MaxAppends
    <3>1. Len(s) \in Nat /\ MaxAppends \in Nat
      BY <2>8, <2>9, AuditChainAssumption
    <3> QED
      BY <1>1, <2>6, <2>9, <2>10, <3>1 DEF IsList
  <2>13. t.read => t.head \in OrNone(IF t.kind = "API" THEN Newest(S \cup {row}) ELSE Heads(S \cup {row}))
    BY <2>4, <2>6 DEF OrNone
  <2>14. Writing(w)'
    <3>1. /\ t = [kind |-> t.kind, read |-> t.read, head |-> t.head, new |-> t.new, refused |-> t.refused]
          /\ t.kind \in AppendingKinds \cup {NoOne} /\ t.kind # NoOne
          /\ t.read \in BOOLEAN /\ t.refused \in BOOLEAN
      BY <1>4, <2>6 DEF Writing
    <3>2. lock' = w /\ auditRows' # {}
      BY <1>1, <1>4, <1>8
    <3> QED
      BY <2>4, <2>7, <2>11, <2>12, <2>13, <3>1, <3>2 DEF Writing
  <2>15. AuditInv'
    BY <1>1, <1>8, <2>7, <2>14, OneSessionMoves
  <2>16. \A v \in Writers : txn'[v].refused = txn[v].refused
    BY <2>6, <2>7 DEF AuditInv
  <2> QED
    BY <2>15, <2>16
<1> QED
  BY <1>2, <1>3, <1>7, <1>8

\* A commit makes the session's view the table; no one else has a view of its own.
LEMMA RowsAreCommitted ==
    ASSUME AuditInv, NEW w \in Writers, Commit(w)
    PROVE  AuditInv'
<1>1. /\ txn[w].new # <<>> /\ auditRows' = Visible(w) /\ txn' = [txn EXCEPT ![w] = Idle]
      /\ Release(w) /\ clock' = clock /\ export' = export
  BY DEF Commit, Visible
<1>2. Writing(w) /\ lock = w
  BY <1>1 DEF AuditInv, Writing
<1>3. IsChain(auditRows') /\ lock' = NoOne
  BY <1>1, <1>2 DEF Writing, Release
<1>4. ASSUME NEW v \in Writers
      PROVE  Writing(v)'
  <2>1. PICK t : t = txn'[v]
    OBVIOUS
  <2>2. lock' # v
    BY <1>3, AuditChainAssumption
  <2>3. auditRows \subseteq auditRows'
    BY <1>1 DEF Visible
  <2>4. /\ t = [kind |-> t.kind, read |-> t.read, head |-> t.head, new |-> t.new, refused |-> t.refused]
        /\ t.kind \in AppendingKinds \cup {NoOne} /\ t.refused \in BOOLEAN
        /\ t.read = FALSE /\ t.new = <<>> /\ (t.kind # NoOne => auditRows' # {})
    <3>1. CASE v = w
      <4>1. t = Idle
        BY <1>1, <2>1, <3>1 DEF AuditInv
      <4> QED
        BY <4>1 DEF Idle
    <3>2. CASE v # w
      <4>1. t = txn[v] /\ lock # v /\ Writing(v)
        BY <1>1, <1>2, <2>1, <3>2 DEF AuditInv
      <4> QED
        BY <2>3, <4>1 DEF Writing
    <3> QED
      BY <3>1, <3>2
  <2> QED
    BY <1>3, <2>1, <2>2, <2>4, IdleWrites
<1>5. txn' = [v \in Writers |-> txn'[v]]
  BY <1>1 DEF AuditInv
<1>6. Exporting'
  BY <1>1 DEF AuditInv, Exporting
<1> QED
  BY <1>1, <1>3, <1>4, <1>5, <1>6 DEF AuditInv

\* A rollback forgets the rows.
LEMMA RowsAreRolledBack ==
    ASSUME AuditInv, NEW w \in Writers, Rollback(w)
    PROVE  AuditInv'
<1>1. PICK t : t = Idle
  OBVIOUS
<1> QED
  BY <1>1, SessionEnds DEF Rollback

\* What is left to show of a step of the export.
LEMMA ExportMoves ==
    ASSUME AuditInv, clock' = clock, auditRows' = auditRows, lock' = lock, txn' = txn, Exporting'
    PROVE  AuditInv'
<1>1. \A w \in Writers : Writing(w)'
  BY OthersKeepWriting DEF AuditInv
<1> QED
  BY <1>1 DEF AuditInv

\* An export starts from the table as it is.
LEMMA ExportStarts ==
    ASSUME AuditInv, StartExport
    PROVE  AuditInv'
<1>1. /\ clock' = clock /\ auditRows' = auditRows /\ lock' = lock /\ txn' = txn /\ auditRows # {}
      /\ export' = [state |-> "OPEN", of |-> auditRows, seen |-> <<>>, head |-> NoHash]
  BY DEF StartExport, NoAudit
<1>2. IsList(<<>>) /\ Verified(<<>>)
  <2>1. <<>> \in Seq({}) /\ Len(<<>>) = 0 /\ 1..0 = {}
    OBVIOUS
  <2> QED
    BY <2>1 DEF IsList, Verified
<1>3. Exporting'
  BY <1>1, <1>2 DEF AuditInv, Exporting
<1> QED
  BY <1>1, <1>3, ExportMoves

\* An export may show any event, but only contents of whole microseconds.
LEMMA EventsAreWhole ==
    ASSUME NEW S, \A r \in S : StoredRow(r), NEW e \in Events(S) \cup Forged(S)
    PROVE  e = [content |-> e.content, hash |-> e.hash] /\ e.content.fraction = 0
<1> DEFINE contents == {r.content : r \in S}
           bodies == {[c EXCEPT !.body = b] : c \in contents, b \in {"altered", "blank"}}
           tenants == {[c EXCEPT !.tenant = "other"] : c \in contents}
           prevs == {[c EXCEPT !.prev = h] : c \in contents, h \in Hashes(S) \cup {NoHash}}
           changed == bodies \cup tenants \cup prevs
<1>1. ASSUME NEW r \in S
      PROVE  r.content.fraction = 0
             /\ DOMAIN r.content = {"id", "tenant", "prev", "body", "fraction"}
  <2>1. PICK d : d = [id |-> r.content.id, tenant |-> "ours", prev |-> r.content.prev,
                      body |-> "fact", fraction |-> 0]
    OBVIOUS
  <2>2. d.fraction = 0 /\ DOMAIN d = {"id", "tenant", "prev", "body", "fraction"}
    BY <2>1
  <2>3. r.content = d
    BY <2>1 DEF StoredRow
  <2> QED
    BY <2>2, <2>3
<1>2. \A c \in contents : c.fraction = 0 /\ DOMAIN c = {"id", "tenant", "prev", "body", "fraction"}
  BY <1>1
<1> HIDE DEF contents
<1>3. ASSUME NEW x \in bodies \cup tenants \cup prevs
      PROVE  x.fraction = 0
  <2>1. CASE x \in bodies
    <3>1. PICK c \in contents, b \in {"altered", "blank"} : x = [c EXCEPT !.body = b]
      BY <2>1
    <3> QED
      BY <1>2, <3>1
  <2>2. CASE x \in tenants
    <3>1. PICK c \in contents : x = [c EXCEPT !.tenant = "other"]
      BY <2>2
    <3> QED
      BY <1>2, <3>1
  <2>3. CASE x \in prevs
    <3>1. PICK c \in contents, h \in Hashes(S) \cup {NoHash} : x = [c EXCEPT !.prev = h]
      BY <2>3
    <3> QED
      BY <1>2, <3>1
  <2> QED
    BY <1>3, <2>1, <2>2, <2>3
<1> HIDE DEF bodies, tenants, prevs
<1>5. \A c \in changed : c.fraction = 0
  BY <1>3
<1>6. Forged(S) = {Create(c) : c \in changed} \cup {[content |-> c, hash |-> r.hash] : c \in changed, r \in S}
  BY DEF Forged, contents, bodies, tenants, prevs
<1> HIDE DEF changed
<1>7. CASE e \in Events(S)
  <2>1. PICK r \in S : e = [content |-> r.content, hash |-> r.hash]
    BY <1>7 DEF Events
  <2> QED
    BY <1>1, <2>1
<1>8. CASE e \in {Create(c) : c \in changed}
  BY <1>5, <1>8 DEF Create
<1>9. CASE e \in {[content |-> c, hash |-> r.hash] : c \in changed, r \in S}
  BY <1>5, <1>9
<1> QED
  BY <1>6, <1>7, <1>8, <1>9

\* A verified list stays one with the next event that verifies.
LEMMA VerifiedGrows ==
    ASSUME NEW U, NEW s \in Seq(U), Verified(s), NEW e, VerifyNext(s, e),
           e = [content |-> e.content, hash |-> e.hash], e.content.fraction = 0
    PROVE  Verified(Append(s, e)) /\ IsList(Append(s, e))
<1> DEFINE g == Append(s, e)
           n == Len(s)
<1>1. /\ g \in Seq(U \cup {e}) /\ Len(g) = n + 1 /\ g[n + 1] = e /\ n \in Nat
      /\ \A i \in 1..n : g[i] = s[i]
  <2>1. s \in Seq(U \cup {e})
    OBVIOUS
  <2> QED
    BY <2>1
<1>2. e.hash = Digest(e.content) /\ e.content.prev = IF n = 0 THEN NoHash ELSE s[n].hash
  BY DEF VerifyNext, Verifies, Last
<1> HIDE DEF g
<1>3. ASSUME NEW i \in 1..Len(g)
      PROVE  /\ g[i] = [content |-> g[i].content, hash |-> g[i].hash]
             /\ g[i].content.fraction = 0
             /\ g[i].hash = Digest(g[i].content)
             /\ g[i].content.prev = IF i = 1 THEN NoHash ELSE g[i - 1].hash
  <2>1. CASE i = n + 1
    <3>1. (i = 1 <=> n = 0) /\ i - 1 = n /\ (n # 0 => n \in 1..n)
      BY <1>1, <2>1
    <3> QED
      BY <1>1, <1>2, <2>1, <3>1
  <2>2. CASE i # n + 1
    <3>1. i \in 1..n /\ (i # 1 => i - 1 \in 1..n)
      BY <1>1, <2>2
    <3>2. g[i] = s[i] /\ (i # 1 => g[i - 1] = s[i - 1])
      BY <1>1, <3>1
    <3> QED
      BY <3>1, <3>2 DEF Verified
  <2> QED
    BY <2>1, <2>2
<1> QED
  BY <1>1, <1>3 DEF Verified, IsList, g

\* An event that verifies is appended; any other ends the export.
LEMMA EventIsShown ==
    ASSUME AuditInv, Present
    PROVE  AuditInv'
<1>1. /\ clock' = clock /\ auditRows' = auditRows /\ lock' = lock /\ txn' = txn
      /\ export.state = "OPEN"
  BY DEF Present
<1>2. PICK e \in Events(export.of) \cup Forged(export.of) :
          export' = IF VerifyNext(export.seen, e)
                    THEN [export EXCEPT !.seen = Append(@, e)]
                    ELSE [export EXCEPT !.state = "REFUSED", !.seen = <<>>]
  BY DEF Present
<1>3. Exporting /\ IsChain(export.of) /\ \A r \in export.of : StoredRow(r)
  BY ChainParts DEF AuditInv, Exporting
<1>4. CASE VerifyNext(export.seen, e)
  <2>1. e = [content |-> e.content, hash |-> e.hash] /\ e.content.fraction = 0
    BY <1>2, <1>3, EventsAreWhole
  <2>2. PICK s, U : s = export.seen /\ s \in Seq(U)
    BY <1>3 DEF Exporting, IsList
  <2>3. Verified(Append(s, e)) /\ IsList(Append(s, e))
    BY <1>3, <1>4, <2>1, <2>2, VerifiedGrows DEF Exporting
  <2>4. export' = [state |-> "OPEN", of |-> export.of, seen |-> Append(s, e), head |-> export.head]
    BY <1>1, <1>2, <1>3, <1>4, <2>2 DEF Exporting
  <2>5. Exporting'
    BY <1>1, <1>3, <2>3, <2>4 DEF Exporting
  <2> QED
    BY <1>1, <2>5, ExportMoves
<1>5. CASE ~VerifyNext(export.seen, e)
  <2>1. export' = [state |-> "REFUSED", of |-> export.of, seen |-> <<>>, head |-> export.head]
    BY <1>1, <1>2, <1>3, <1>5 DEF Exporting
  <2>2. IsList(<<>>) /\ Verified(<<>>)
    <3>1. <<>> \in Seq({}) /\ Len(<<>>) = 0 /\ 1..0 = {}
      OBVIOUS
    <3> QED
      BY <3>1 DEF IsList, Verified
  <2>3. Exporting'
    BY <1>1, <1>3, <2>1, <2>2 DEF Exporting
  <2> QED
    BY <1>1, <2>3, ExportMoves
<1> QED
  BY <1>4, <1>5

\* An accepted export has the hash of its last event for its head.
LEMMA ExportEnds ==
    ASSUME AuditInv, EndExport
    PROVE  AuditInv'
<1>1. /\ clock' = clock /\ auditRows' = auditRows /\ lock' = lock /\ txn' = txn
      /\ export.state = "OPEN"
  BY DEF EndExport
<1>2. PICK claim \in Claims :
          export' = IF ClaimsHold(claim, export.seen)
                    THEN [export EXCEPT !.state = "ACCEPTED", !.head = claim.head]
                    ELSE [export EXCEPT !.state = "REFUSED", !.seen = <<>>]
  BY DEF EndExport
<1>3. Exporting
  BY DEF AuditInv
<1>4. CASE ClaimsHold(claim, export.seen)
  <2>1. claim.head = LastHash(export.seen)
    BY <1>4 DEF ClaimsHold
  <2>2. export' = [state |-> "ACCEPTED", of |-> export.of, seen |-> export.seen, head |-> claim.head]
    BY <1>2, <1>3, <1>4 DEF Exporting
  <2>3. Exporting'
    BY <1>1, <1>3, <2>1, <2>2 DEF Exporting
  <2> QED
    BY <1>1, <2>3, ExportMoves
<1>5. CASE ~ClaimsHold(claim, export.seen)
  <2>1. export' = [state |-> "REFUSED", of |-> export.of, seen |-> <<>>, head |-> export.head]
    BY <1>2, <1>3, <1>5 DEF Exporting
  <2>2. IsList(<<>>) /\ Verified(<<>>)
    <3>1. <<>> \in Seq({}) /\ Len(<<>>) = 0 /\ 1..0 = {}
      OBVIOUS
    <3> QED
      BY <3>1 DEF IsList, Verified
  <2>3. Exporting'
    BY <1>1, <1>3, <2>1, <2>2 DEF Exporting
  <2> QED
    BY <1>1, <2>3, ExportMoves
<1> QED
  BY <1>4, <1>5

\* A step refuses no row, or refuses it for the clock's sake.
RefusesByTheClock ==
    \A w \in Writers :
        (txn'[w].refused /\ ~txn[w].refused) =>
            txn[w].kind = "API" /\ Newest(Visible(w)) # Heads(Visible(w))

\* Every step of a writer keeps the invariant and refuses by the clock only.
LEMMA WritesAreSound ==
    ASSUME AuditInv, NEW w \in Writers, Write(w)
    PROVE  AuditInv' /\ RefusesByTheClock
<1>0. 0 \in Fractions /\ {0} \subseteq Fractions /\ txn = [v \in Writers |-> txn[v]] /\ Writing(w)
  BY AuditChainAssumption DEF AuditInv
<1>1. CASE Begin(w) \/ Commit(w) \/ Rollback(w)
  <2>1. AuditInv'
    BY <1>1, SessionBegins, RowsAreCommitted, RowsAreRolledBack
  <2>2. PICK t : txn' = [txn EXCEPT ![w] = t] /\ ~t.refused
    <3>1. CASE Begin(w)
      <4>1. PICK k \in AppendingKinds : txn' = [txn EXCEPT ![w] = [Idle EXCEPT !.kind = k]]
        BY <3>1 DEF Begin
      <4>2. ~[Idle EXCEPT !.kind = k].refused
        BY DEF Idle
      <4> QED
        BY <4>1, <4>2
    <3>2. CASE Commit(w) \/ Rollback(w)
      <4>1. txn' = [txn EXCEPT ![w] = Idle] /\ ~Idle.refused
        BY <3>2 DEF Commit, Rollback, Idle
      <4> QED
        BY <4>1
    <3> QED
      BY <1>1, <3>1, <3>2
  <2>3. \A v \in Writers : txn'[v].refused => txn[v].refused
    BY <1>0, <2>2
  <2> QED
    BY <2>1, <2>3 DEF RefusesByTheClock
<1>2. CASE LockChain(w)
  <2>1. AuditInv'
    BY <1>2, ChainIsLocked
  <2> QED
    BY <1>2, <2>1 DEF LockChain, RefusesByTheClock
<1>3. CASE ReadHead(w)
  <2>1. AuditInv'
    BY <1>3, HeadIsRead
  <2>2. PICK h : txn' = [txn EXCEPT ![w] = [txn[w] EXCEPT !.read = TRUE, !.head = h]]
    BY <1>3 DEF ReadHead
  <2>3. [txn[w] EXCEPT !.read = TRUE, !.head = h].refused = txn[w].refused
    BY <1>0 DEF Writing
  <2>4. \A v \in Writers : txn'[v].refused = txn[v].refused
    BY <1>0, <2>2, <2>3
  <2> QED
    BY <2>1, <2>4 DEF RefusesByTheClock
<1>4. CASE AppendAudit(w)
  BY <1>0, <1>4, RowIsInserted DEF AppendAudit, RefusesByTheClock
<1>5. CASE AppendTransitionAudit(w)
  BY <1>0, <1>5, RowIsInserted DEF AppendTransitionAudit, RefusesByTheClock
<1>6. CASE InsertAuditEvent(w)
  BY <1>6, RowIsInserted DEF InsertAuditEvent, RefusesByTheClock
<1>7. CASE AppendOperationalFailureAudit(w)
  BY <1>7, RowIsInserted DEF AppendOperationalFailureAudit, RefusesByTheClock
<1>8. CASE AppendWorkerAudit(w)
  BY <1>8, RowIsInserted DEF AppendWorkerAudit, RefusesByTheClock
<1>9. CASE AppendFact(w)
  BY <1>9, RowIsInserted DEF AppendFact, RefusesByTheClock
<1> QED
  BY <1>1, <1>2, <1>3, <1>4, <1>5, <1>6, <1>7, <1>8, <1>9 DEF Write

\* The invariant is inductive, and the other steps refuse nothing.
LEMMA AuditInvNext ==
    AuditInv /\ [AuditNext]_auditVars => AuditInv' /\ [RefusesByTheClock]_auditVars
<1> SUFFICES ASSUME AuditInv, [AuditNext]_auditVars
             PROVE  AuditInv' /\ [RefusesByTheClock]_auditVars
  OBVIOUS
<1>1. CASE Provision
  <2>1. AuditInv'
    BY <1>1, TenantStarts
  <2> QED
    BY <1>1, <2>1 DEF Provision, RefusesByTheClock
<1>2. CASE SetClock
  <2>1. AuditInv'
    BY <1>2, ClockIsSet
  <2> QED
    BY <1>2, <2>1 DEF SetClock, RefusesByTheClock
<1>3. CASE \E w \in Writers : Write(w)
  BY <1>3, WritesAreSound
<1>4. CASE ExportStep
  <2>1. AuditInv'
    BY <1>4, ExportStarts, EventIsShown, ExportEnds DEF ExportStep
  <2>2. txn' = txn
    BY <1>4 DEF ExportStep, StartExport, Present, EndExport
  <2> QED
    BY <2>1, <2>2 DEF RefusesByTheClock
<1>5. CASE UNCHANGED auditVars
  <2>1. /\ clock' = clock /\ auditRows' = auditRows /\ lock' = lock /\ txn' = txn /\ export' = export
    BY <1>5 DEF auditVars
  <2>2. Exporting'
    BY <2>1 DEF AuditInv, Exporting
  <2>3. AuditInv'
    BY <2>1, <2>2, ExportMoves
  <2> QED
    BY <1>5, <2>3
<1> QED
  BY <1>1, <1>2, <1>3, <1>4, <1>5 DEF AuditNext

\* The table and what every session sees are chains, a head that was read is
\* still the head, and an export is a verified list of a chain's rows:
\* inductive together.
THEOREM AuditInvariant == AuditSpec => []AuditInv
<1>1. AuditInit => AuditInv
  BY AuditInvInit
<1>2. AuditInv /\ [AuditNext]_auditVars => AuditInv'
  BY AuditInvNext
<1> QED
  BY <1>1, <1>2, PTL DEF AuditSpec

\* The committed rows are one chain, a writer is refused only for the clock's
\* sake, and an accepted export that ends with the chain's head is the chain,
\* for any sessions, clock readings, fractions and number of rows
\* (append_audit and its six siblings, verify_audit_chain).
THEOREM AuditStaysOneChain == AuditSpec => AuditIsOneChain
<1>1. AuditInv => AuditTypeOK /\ ChainIsOne /\ AnchoredExportIsExact
  <2> SUFFICES ASSUME AuditInv
               PROVE  AuditTypeOK /\ ChainIsOne /\ AnchoredExportIsExact
    OBVIOUS
  <2>1. AuditTypeOK
    <3>1. \A r \in auditRows : StoredRow(r)
      BY ChainParts DEF AuditInv
    <3>2. lock # NoOne => txn[lock].kind \in AppendingKinds
      BY DEF AuditInv, Writing
    <3>3. \A w \in Writers : /\ txn[w].kind \in AppendingKinds \cup {NoOne}
                             /\ Len(txn[w].new) <= MaxAppends
                             /\ (txn[w].new # <<>> => lock = w)
      BY DEF AuditInv, Writing
    <3>4. \A r \in auditRows :
             /\ r.content.id \in EventIds /\ r.at \in 0..MaxTime
             /\ \E f \in Fractions : r.hash = Digest([r.content EXCEPT !.fraction = f])
      BY <3>1 DEF StoredRow
    <3>5. clock \in 0..MaxTime /\ lock \in Writers \cup {NoOne}
          /\ export.state \in {"NONE", "OPEN", "ACCEPTED", "REFUSED"}
      BY DEF AuditInv, Exporting
    <3> QED
      BY <3>2, <3>3, <3>4, <3>5 DEF AuditTypeOK
  <2>2. ChainIsOne
    <3>1. PICK P : P = {r.content.prev : r \in auditRows}
      OBVIOUS
    <3>2. IsChain(auditRows)
      BY DEF AuditInv
    <3>3. /\ Cardinality(P) = Cardinality(auditRows)
          /\ auditRows # {} => NoHash \in P
          /\ P \ {NoHash} \subseteq Hashes(auditRows)
      BY <3>1, <3>2, ChainIsCounted
    <3> QED
      BY <3>1, <3>3 DEF ChainIsOne
  <2>3. AnchoredExportIsExact
    <3> SUFFICES ASSUME export.state = "ACCEPTED", export.head \in Heads(export.of)
                 PROVE  /\ Range(export.seen) = Events(export.of)
                        /\ Len(export.seen) = Cardinality(export.of)
                        /\ \A i \in 2..Len(export.seen) :
                              export.seen[i].content.prev = export.seen[i - 1].hash
      BY DEF AnchoredExportIsExact
    <3>1. /\ IsChain(export.of) /\ export.of # {} /\ Verified(export.seen)
          /\ LastHash(export.seen) \in Heads(export.of)
      BY DEF AuditInv, Exporting
    <3>2. PICK U, s : s = export.seen /\ s \in Seq(U)
      BY DEF AuditInv, Exporting, IsList
    <3>3. PICK S : S = export.of
      OBVIOUS
    <3>4. /\ {s[i] : i \in 1..Len(s)} = Events(S)
          /\ Len(s) = Cardinality(S)
      BY <3>1, <3>2, <3>3, AnchoredListIsTheChain
    <3>5. Range(s) = {s[i] : i \in 1..Len(s)}
      BY <3>2 DEF Range
    <3>6. \A i \in 2..Len(s) : s[i].content.prev = s[i - 1].hash
      <4>1. Len(s) \in Nat /\ \A i \in 2..Len(s) : i \in 1..Len(s) /\ i # 1
        BY <3>2
      <4> QED
        BY <3>1, <3>2, <4>1 DEF Verified
    <3> QED
      BY <3>2, <3>3, <3>4, <3>5, <3>6
  <2> QED
    BY <2>1, <2>2, <2>3
<1>2. AuditInv /\ [AuditNext]_auditVars => [RefusesByTheClock]_auditVars
  BY AuditInvNext
<1>3. AuditSpec => [](AuditTypeOK /\ ChainIsOne /\ AnchoredExportIsExact)
  BY <1>1, AuditInvariant, PTL
<1>4. AuditSpec => [][RefusesByTheClock]_auditVars
  BY <1>2, AuditInvariant, PTL DEF AuditSpec
<1> QED
  BY <1>3, <1>4, PTL DEF AuditIsOneChain, RefusedOnlyByTheClock, RefusesByTheClock
=============================================================================
