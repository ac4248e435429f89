-------------------------- MODULE FrontDoorProofs --------------------------
(***************************************************************************)
(* What is let in.  Work, for every number of callers, keys, syncs and     *)
(* items: the theorems about the API's mutations (Api) and about the       *)
(* intake of snapshots (Intake).  Workers, for every clock, set of parts,  *)
(* details and reasons: the theorems about the health a Runmill daemon     *)
(* reports and the verdict the reconciliation makes of it (WorkerHealth).  *)
(***************************************************************************)
EXTENDS Api, Intake, WorkerHealth, FiniteSetTheorems, SequenceTheorems, TLAPS

-----------------------------------------------------------------------------
(***************************************************************************)
(* The API.  ApiIsSound relates what was answered, what is recorded and    *)
(* what the rows say.  It is inductive with how versions order them.       *)
(***************************************************************************)
\* A job was queued by a request on record.
JobsAreOnRecord == \A s \in Slots : jobs[s] # NoJob => records[s] # NoRecord

Moving == {u \in Slots : u[1] \in {"ACCEPT", "CANCEL"}}

\* A request that moved the work expected a version the work has left.
RequestsArePast ==
    \A s \in Moving : records[s] # NoRecord => records[s].request < work.version

\* An advance job whose version is still the work's finds it as accepted.
AdvanceIsOfAccepted ==
    \A s \in Slots : s[1] = "ACCEPT" /\ jobs[s] # NoJob =>
        /\ jobs[s].expect <= work.version
        /\ jobs[s].expect = work.version => work.state = "ACCEPTED"

\* A receipt before dispatch is the end of the work and of its delivery.
ReceiptIsTheEnd == receipt => work.state = "CANCELLED" /\ delivery = "CANCELLED"

ApiInv ==
    /\ ApiIsSound /\ JobsAreOnRecord /\ RequestsArePast
    /\ AdvanceIsOfAccepted /\ ReceiptIsTheEnd

-----------------------------------------------------------------------------
(***************************************************************************)
(* The intake.  IntakeIsSound relates the item, its events and its audit.  *)
(* It is inductive with the order that versions give to all of them.       *)
(***************************************************************************)
\* A row is an item, and work in delivery was accepted.
ItemsAreWhole ==
    \A i \in Items :
        /\ items[i].state = "NONE" => items[i] = NoWork
        /\ items[i].state \in Delivered => items[i].accepted

\* An event is of a version the item has reached.
EventsArePast == \A e \in outbox : e.version <= items[e.item].version

\* An item's events can be counted, and the last fact that changed it says
\* what it points at.
FactsAreCurrent ==
    \A i \in Items :
        /\ IsFiniteSet({e \in outbox : e.item = i})
        /\ audit[i] # <<>> /\ audit[i][Len(audit[i])].action # "AUTHORITY_REEVALUATION_REQUIRED"
              => audit[i][Len(audit[i])].after = items[i].snap

\* Who read the present version read the present snapshot.
ViewsAreOfVersions ==
    \A i \in Items :
        /\ seen[i].version <= items[i].version
        /\ seen[i].version = items[i].version => seen[i].snap = items[i].snap

\* A receipt of a discovery names an item that exists.
DiscoveriesExist ==
    \A k \in SubmitKeys : submissions[k] # NoSubmission =>
        /\ submissions[k].receipt.item \in Items
        /\ items[submissions[k].receipt.item].state # "NONE"

IntakeInv ==
    /\ IntakeIsSound /\ ItemsAreWhole /\ EventsArePast /\ FactsAreCurrent
    /\ ViewsAreOfVersions /\ DiscoveriesExist

-----------------------------------------------------------------------------
(* The API: completing a key.                                              *)

\* The receipt a key is completed with is the only one its callers are told.
LEMMA KeyIsCompleted ==
    ASSUME ApiTypeOK, AnswersAgree, NEW op \in Ops, NEW k \in Keys, NEW v \in 1..MaxVersion,
           NEW r \in Receipt, claim_idempotency(op, k), complete_idempotency(op, k, v, r)
    PROVE  /\ records' \in [Slots -> Record] /\ answers' \in [Slots -> SUBSET Receipt]
           /\ \A s \in Slots : records'[s] # NoRecord => records'[s].receipt \in Receipt
           /\ AnswersAgree'
           /\ <<op, k>> \in Slots /\ records[<<op, k>>] = NoRecord
           /\ records'[<<op, k>>] # NoRecord /\ records'[<<op, k>>].request = v
           /\ \A s \in Slots : s # <<op, k>> => records'[s] = records[s]
<1> DEFINE row == [request |-> v, receipt |-> r]
<1>1. <<op, k>> \in Slots /\ records[<<op, k>>] = NoRecord
  BY DEF Slots, claim_idempotency
<1>2. row \in Record /\ row.receipt = r /\ row.request = v /\ row # NoRecord
  BY ApiAssumption DEF Record, NoRecord, NoReceipt
<1>3. records' = [records EXCEPT ![<<op, k>>] = row]
  BY DEF complete_idempotency
<1>4. \/ answers' = answers
      \/ answers' = [answers EXCEPT ![<<op, k>>] = answers[<<op, k>>] \cup {r}]
  BY DEF complete_idempotency
<1>5. records \in [Slots -> Record] /\ answers \in [Slots -> SUBSET Receipt]
      /\ \A s \in Slots : records[s] # NoRecord => records[s].receipt \in Receipt
  BY DEF ApiTypeOK
<1> HIDE DEF row
<1>6. records' \in [Slots -> Record] /\ records'[<<op, k>>] = row
      /\ \A s \in Slots : s # <<op, k>> => records'[s] = records[s]
  BY <1>1, <1>2, <1>3, <1>5
<1>7. answers' \in [Slots -> SUBSET Receipt]
      /\ answers'[<<op, k>>] \subseteq answers[<<op, k>>] \cup {r}
      /\ \A s \in Slots : s # <<op, k>> => answers'[s] = answers[s]
  BY <1>1, <1>4, <1>5
<1>8. answers[<<op, k>>] = {}
  <2>1. answers[<<op, k>>] \subseteq {NoReceipt} /\ answers[<<op, k>>] \subseteq Receipt
    BY <1>1, <1>5 DEF AnswersAgree, NoRecord
  <2>2. NoReceipt \notin Receipt
    BY DEF NoReceipt, Receipt
  <2> QED  BY <2>1, <2>2
<1>9. \A s \in Slots : answers'[s] \subseteq {records'[s].receipt}
  BY <1>2, <1>6, <1>7, <1>8 DEF AnswersAgree
<1> QED  BY <1>1, <1>2, <1>5, <1>6, <1>7, <1>9 DEF AnswersAgree

\* Told again what is on record.
LEMMA ReplayKeepsInv ==
    ASSUME ApiInv, NEW op \in Ops, NEW k \in Keys, Replay(op, k)
    PROVE  ApiInv'
<1>1. ApiTypeOK'
  BY DEF ApiInv, ApiIsSound, ApiTypeOK, Replay, Slots
<1>2. AnswersAgree'
  BY DEF ApiInv, ApiIsSound, ApiTypeOK, AnswersAgree, Replay, Slots
<1> QED
  BY <1>1, <1>2 DEF ApiInv, ApiIsSound, Replay, NoLostUpdate, NeverDispatchedAndCancelled,
     AttentionIsCovered, JobsAreOnRecord, RequestsArePast, AdvanceIsOfAccepted, ReceiptIsTheEnd

\* A request that moves the work leaves the version it expected behind.
LEMMA MovedOnce ==
    ASSUME ApiInv, NEW op \in {"ACCEPT", "CANCEL"} \cap Ops, NEW k \in Keys,
           work'.version \in Nat, work'.version > work.version,
           records'[<<op, k>>] # NoRecord, records'[<<op, k>>].request = work.version,
           \A s \in Slots : s # <<op, k>> => records'[s] = records[s]
    PROVE  NoLostUpdate' /\ RequestsArePast'
<1>1. work.version \in Nat /\ <<op, k>> \in Slots
  BY ApiAssumption DEF ApiInv, ApiIsSound, ApiTypeOK, Slots
<1>2. \A s \in Moving : records[s] # NoRecord =>
          records[s].request < work.version /\ records[s].request \in Nat
  BY ApiAssumption DEF ApiInv, ApiIsSound, ApiTypeOK, RequestsArePast, Record, Moving
<1>3. \A s \in Moving : s \in Slots
  BY DEF Moving
<1>4. RequestsArePast'
  BY <1>1, <1>2, <1>3 DEF RequestsArePast, Moving, Slots
<1>5. \A s, t \in Moving : s # t /\ records'[s] # NoRecord /\ records'[t] # NoRecord
          => records'[s].request # records'[t].request
  <2> SUFFICES ASSUME NEW s \in Moving, NEW t \in Moving, s # t, records'[s] # NoRecord,
                      records'[t] # NoRecord
               PROVE  records'[s].request # records'[t].request
    OBVIOUS
  <2>1. CASE s = <<op, k>>
    BY <2>1, <1>1, <1>2, <1>3
  <2>2. CASE t = <<op, k>>
    BY <2>2, <1>1, <1>2, <1>3
  <2>3. CASE s # <<op, k>> /\ t # <<op, k>>
    BY <2>3, <1>3 DEF ApiInv, ApiIsSound, NoLostUpdate, Moving
  <2> QED  BY <2>1, <2>2, <2>3
<1> QED  BY <1>4, <1>5 DEF NoLostUpdate, Moving, Slots

\* The work's row after a move.
LEMMA WorkMoves ==
    ASSUME work \in [state : WorkStates, version : 1..MaxVersion, attempt : BOOLEAN],
           NEW state \in WorkStates, NEW n \in 1..MaxVersion, n > work.version,
           work' = [work EXCEPT !.state = state, !.version = n]
    PROVE  /\ work' \in [state : WorkStates, version : 1..MaxVersion, attempt : BOOLEAN]
           /\ work'.version = n /\ n > work.version /\ n \in Nat /\ work'.state = state
           /\ work'.attempt = work.attempt
<1>1. work'.version = n /\ work'.state = state /\ work'.attempt = work.attempt
  OBVIOUS
<1>2. work' \in [state : WorkStates, version : 1..MaxVersion, attempt : BOOLEAN]
  OBVIOUS
<1> QED  BY <1>1, <1>2, ApiAssumption

\* A new job is a job.
LEMMA NewJobIsJob ==
    ASSUME NEW v \in 0..MaxVersion
    PROVE  /\ NewJob(v) \in Job /\ NewJob(v) # NoJob /\ NewJob(v).expect = v
           /\ NewJob(v).status = "PENDING" /\ NewJob(v).attempts = 0
BY ApiAssumption DEF NewJob, NoJob, Job, JobStates

-----------------------------------------------------------------------------
(* The API: accepting and cancelling.                                      *)

LEMMA AcceptKeepsInv ==
    ASSUME ApiInv, NEW k \in Keys, NEW v \in 1..MaxVersion, accept_work_item(k, v)
    PROVE  ApiInv'
<1> DEFINE s == <<"ACCEPT", k>>
           n == work.version + 1
           r == [status |-> "accepted", version |-> n]
<1>1. /\ claim_idempotency("ACCEPT", k) /\ complete_idempotency("ACCEPT", k, v, r)
      /\ v = work.version /\ work.state = "READY" /\ n \in 1..MaxVersion
      /\ work' = [work EXCEPT !.state = "ACCEPTED", !.version = n]
      /\ delivery' = "ACTIVE" /\ anchor' = "DELIVERY"
      /\ jobs' = [jobs EXCEPT ![s] = NewJob(n)]
      /\ UNCHANGED <<recovery, dispatched, receipt, exhaustion, superseded, competing, run,
                     evidence, approval, capable>>
  BY ApiAssumption DEF accept_work_item, require_expected_version, ApiInv, ApiIsSound, ApiTypeOK
<1>2. "ACCEPT" \in Ops /\ s \in Slots /\ r \in Receipt
  BY <1>1, ApiAssumption DEF Slots, Receipt
<1>3. /\ records' \in [Slots -> Record] /\ answers' \in [Slots -> SUBSET Receipt]
      /\ \A t \in Slots : records'[t] # NoRecord => records'[t].receipt \in Receipt
      /\ AnswersAgree' /\ records[s] = NoRecord /\ records'[s] # NoRecord
      /\ records'[s].request = v
      /\ \A t \in Slots : t # s => records'[t] = records[t]
  BY <1>1, <1>2, KeyIsCompleted DEF ApiInv, ApiIsSound
<1>4. /\ jobs \in [Slots -> Job] /\ work.version \in Nat
      /\ work \in [state : WorkStates, version : 1..MaxVersion, attempt : BOOLEAN]
  BY ApiAssumption DEF ApiInv, ApiIsSound, ApiTypeOK
<1>5. /\ jobs' \in [Slots -> Job] /\ jobs'[s] # NoJob /\ jobs'[s].expect = n
      /\ jobs'[s].status = "PENDING" /\ \A t \in Slots : t # s => jobs'[t] = jobs[t]
  BY <1>1, <1>2, <1>4, NewJobIsJob
<1>6. /\ work' \in [state : WorkStates, version : 1..MaxVersion, attempt : BOOLEAN]
      /\ work'.version = n /\ n > work.version /\ n \in Nat /\ work'.state = "ACCEPTED"
  <2>1. "ACCEPTED" \in WorkStates /\ n > work.version
    BY <1>4 DEF WorkStates
  <2> HIDE DEF n
  <2> QED  BY <1>1, <1>4, <2>1, WorkMoves
<1>7. ~receipt
  BY <1>1 DEF ApiInv, ReceiptIsTheEnd
<1> HIDE DEF s, n, r
<1>8. ApiTypeOK'
  BY <1>1, <1>3, <1>5, <1>6 DEF ApiInv, ApiIsSound, ApiTypeOK, Anchors
<1>9. NoLostUpdate' /\ RequestsArePast'
  BY <1>1, <1>2, <1>3, <1>6, MovedOnce DEF s
<1>10. AttentionIsCovered'
  BY <1>1, <1>5, <1>6 DEF ApiInv, ApiIsSound, AttentionIsCovered, WorkBound
<1>11. JobsAreOnRecord'
  BY <1>3, <1>5 DEF ApiInv, JobsAreOnRecord
<1>12. AdvanceIsOfAccepted'
  <2> SUFFICES ASSUME NEW t \in Slots, t[1] = "ACCEPT", jobs'[t] # NoJob
               PROVE  jobs'[t].expect <= n
    BY <1>6 DEF AdvanceIsOfAccepted
  <2>1. t # s => jobs[t].expect <= work.version /\ jobs[t].expect \in Nat
    BY <1>4, <1>5, ApiAssumption DEF ApiInv, AdvanceIsOfAccepted, Job
  <2> QED  BY <2>1, <1>4, <1>5, <1>6
<1>13. NeverDispatchedAndCancelled' /\ ReceiptIsTheEnd'
  BY <1>1, <1>7 DEF NeverDispatchedAndCancelled, ReceiptIsTheEnd
<1> QED  BY <1>3, <1>8, <1>9, <1>10, <1>11, <1>12, <1>13 DEF ApiInv, ApiIsSound

LEMMA CancelBeforeKeepsInv ==
    ASSUME ApiInv, "CANCEL" \in Ops, NEW k \in Keys, NEW v \in 1..MaxVersion,
           cancel_accepted_before_dispatch(k, v)
    PROVE  ApiInv'
<1> DEFINE c == <<"CANCEL", k>>
           n == work.version + 2
           r == [status |-> "cancelled", version |-> n]
<1>1. PICK s \in Slots : lock_pre_dispatch_cancellation_binding(s) /\ jobs' = EndAdvanceJob(s)
  BY DEF cancel_accepted_before_dispatch
<1>2. /\ claim_idempotency("CANCEL", k) /\ complete_idempotency("CANCEL", k, v, r)
      /\ v = work.version /\ n \in 1..MaxVersion
      /\ work.state = "ACCEPTED" /\ ~work.attempt /\ require_pristine_pre_dispatch_boundary
      /\ work' = [work EXCEPT !.state = "CANCELLED", !.version = n]
      /\ delivery' = "CANCELLED" /\ receipt' = TRUE /\ anchor' = "RECEIPT"
      /\ UNCHANGED <<recovery, dispatched, exhaustion, superseded, competing, run, evidence,
                     approval, capable>>
  BY ApiAssumption DEF cancel_accepted_before_dispatch, require_expected_version, TerminalReceipt,
     ApiInv, ApiIsSound, ApiTypeOK
<1>3. /\ records' \in [Slots -> Record] /\ answers' \in [Slots -> SUBSET Receipt]
      /\ \A t \in Slots : records'[t] # NoRecord => records'[t].receipt \in Receipt
      /\ AnswersAgree' /\ records[c] = NoRecord /\ records'[c] # NoRecord
      /\ records'[c].request = v
      /\ \A t \in Slots : t # c => records'[t] = records[t]
  <2>1. r \in Receipt
    BY <1>2, ApiAssumption DEF Receipt
  <2> QED  BY <1>2, <2>1, KeyIsCompleted DEF ApiInv, ApiIsSound
<1>4. /\ jobs \in [Slots -> Job] /\ work.version \in Nat
      /\ work \in [state : WorkStates, version : 1..MaxVersion, attempt : BOOLEAN]
  BY ApiAssumption DEF ApiInv, ApiIsSound, ApiTypeOK
<1>5. /\ jobs' \in [Slots -> Job] /\ jobs'[s].status = "CANCELLED"
      /\ jobs'[s].expect = jobs[s].expect /\ jobs[s] # NoJob
      /\ \A t \in Slots : t # s => jobs'[t] = jobs[t]
  BY <1>1, <1>4 DEF EndAdvanceJob, lock_pre_dispatch_cancellation_binding, BindAdvanceJob, Job,
     JobStates, NoJob
<1>6. \A t \in WorkBound : t # s => jobs[t] = NoJob
  BY <1>1 DEF lock_pre_dispatch_cancellation_binding
<1>7. /\ work' \in [state : WorkStates, version : 1..MaxVersion, attempt : BOOLEAN]
      /\ work'.version = n /\ n > work.version /\ n \in Nat /\ work'.state = "CANCELLED"
      /\ work'.attempt = work.attempt
  <2>1. "CANCELLED" \in WorkStates /\ n > work.version
    BY <1>4 DEF WorkStates
  <2> HIDE DEF n
  <2> QED  BY <1>2, <1>4, <2>1, WorkMoves
<1> HIDE DEF c, n, r
<1>8. ApiTypeOK'
  BY <1>2, <1>3, <1>5, <1>7 DEF ApiInv, ApiIsSound, ApiTypeOK, Anchors
<1>9. NoLostUpdate' /\ RequestsArePast'
  BY <1>2, <1>3, <1>7, MovedOnce DEF c
<1>10. AttentionIsCovered'
  <2>1. exhaustion' = "NONE" /\ exhaustion = "NONE" /\ superseded' = superseded
    BY <1>2 DEF require_pristine_pre_dispatch_boundary
  <2>2. \A t \in WorkBound : t \in Slots
    BY DEF WorkBound
  <2>3. \A t \in WorkBound : jobs'[t].status = "DEAD" => jobs[t].status = "DEAD"
    BY <1>5, <2>2
  <2>4. \A t \in WorkBound : jobs[t].status = "DEAD" => exhaustion # "NONE" \/ superseded # {}
    BY DEF ApiInv, ApiIsSound, AttentionIsCovered
  <2> QED  BY <1>7, <2>1, <2>3, <2>4 DEF AttentionIsCovered, WorkBound, Slots
<1>11. JobsAreOnRecord'
  BY <1>3, <1>5 DEF ApiInv, JobsAreOnRecord
<1>12. AdvanceIsOfAccepted'
  <2> SUFFICES ASSUME NEW t \in Slots, t[1] = "ACCEPT", jobs'[t] # NoJob
               PROVE  jobs'[t].expect < n
    BY <1>4, <1>5, <1>7, ApiAssumption DEF AdvanceIsOfAccepted, Job
  <2>1. jobs[t] # NoJob /\ jobs'[t].expect = jobs[t].expect
    BY <1>5
  <2>2. jobs[t].expect <= work.version /\ jobs[t].expect \in Nat
    BY <1>4, <2>1, ApiAssumption DEF ApiInv, AdvanceIsOfAccepted, Job
  <2> QED  BY <2>1, <2>2, <1>4, <1>7
<1>13. NeverDispatchedAndCancelled'
  <2>1. run' = "NONE" /\ ~dispatched' /\ ~work'.attempt
    BY <1>1, <1>2, <1>7 DEF require_pristine_pre_dispatch_boundary,
       lock_pre_dispatch_cancellation_binding
  <2>2. \A t \in WorkBound : jobs'[t].status \notin Live
    BY <1>5, <1>6 DEF Live, NoJob, WorkBound
  <2> QED  BY <2>1, <2>2 DEF NeverDispatchedAndCancelled, WorkBound, Slots
<1>14. ReceiptIsTheEnd'
  BY <1>2, <1>7 DEF ReceiptIsTheEnd
<1> QED  BY <1>3, <1>8, <1>9, <1>10, <1>11, <1>12, <1>13, <1>14 DEF ApiInv, ApiIsSound

LEMMA CancelRunningKeepsInv ==
    ASSUME ApiInv, "CANCEL" \in Ops, NEW k \in Keys, NEW v \in 1..MaxVersion,
           cancel_work_item(k, v)
    PROVE  ApiInv'
<1> DEFINE s == <<"CANCEL", k>>
           n == work.version + 1
           r == [status |-> "cancellation_requested", version |-> n]
<1>1. /\ claim_idempotency("CANCEL", k) /\ complete_idempotency("CANCEL", k, v, r)
      /\ v = work.version /\ n \in 1..MaxVersion /\ ~receipt
      /\ work' = [work EXCEPT !.state = "CANCEL_REQUESTED", !.version = n]
      /\ anchor' = "RECOVERY" /\ recovery' \in {"NONE", "ACTIVE", "WAITING"}
      /\ jobs' = [jobs EXCEPT ![s] = NewJob(n)]
      /\ UNCHANGED <<delivery, dispatched, receipt, competing, run, evidence, approval, capable>>
  BY ApiAssumption DEF cancel_work_item, require_expected_version, ensure_active_workflow,
     lock_work_cancellation_authority_guard, RequestCancellation, ApiInv, ApiIsSound, ApiTypeOK
<1>2. /\ exhaustion' = "NONE" /\ superseded' \subseteq Slots /\ superseded \subseteq superseded'
      /\ exhaustion # "NONE" => superseded' # {}
  <2>1. ReplaceOwner(k) /\ exhaustion \in {"NONE", "ATTEMPT", "NO_ATTEMPT"}
        /\ superseded \subseteq Slots /\ s \in Slots
        /\ (exhaustion # "NONE" => work.state = "ESCALATED")
    BY DEF cancel_work_item, ApiInv, ApiIsSound, ApiTypeOK, AttentionIsCovered, Slots
  <2>2. CASE work.state = "ESCALATED"
    <3>1. exhaustion' = "NONE" /\ superseded' = superseded \cup {s}
      BY <2>1, <2>2 DEF ReplaceOwner, close_exhausted_cancellation_escalation,
         append_cancellation_escalation_supersession
    <3> QED  BY <2>1, <3>1
  <2>3. CASE work.state # "ESCALATED"
    BY <2>1, <2>3 DEF ReplaceOwner
  <2> QED  BY <2>2, <2>3
<1>3. /\ records' \in [Slots -> Record] /\ answers' \in [Slots -> SUBSET Receipt]
      /\ \A t \in Slots : records'[t] # NoRecord => records'[t].receipt \in Receipt
      /\ AnswersAgree' /\ s \in Slots /\ records[s] = NoRecord /\ records'[s] # NoRecord
      /\ records'[s].request = v
      /\ \A t \in Slots : t # s => records'[t] = records[t]
  <2>1. r \in Receipt
    BY <1>1, ApiAssumption DEF Receipt
  <2> QED  BY <1>1, <2>1, KeyIsCompleted DEF ApiInv, ApiIsSound
<1>4. /\ jobs \in [Slots -> Job] /\ work.version \in Nat
      /\ work \in [state : WorkStates, version : 1..MaxVersion, attempt : BOOLEAN]
  BY ApiAssumption DEF ApiInv, ApiIsSound, ApiTypeOK
<1>5. /\ jobs' \in [Slots -> Job] /\ jobs'[s] # NoJob /\ jobs'[s].status = "PENDING"
      /\ \A t \in Slots : t # s => jobs'[t] = jobs[t]
  BY <1>1, <1>3, <1>4, NewJobIsJob
<1>6. /\ work' \in [state : WorkStates, version : 1..MaxVersion, attempt : BOOLEAN]
      /\ work'.version = n /\ n > work.version /\ n \in Nat /\ work'.state = "CANCEL_REQUESTED"
  <2>1. "CANCEL_REQUESTED" \in WorkStates /\ n > work.version
    BY <1>4 DEF WorkStates
  <2> HIDE DEF n
  <2> QED  BY <1>1, <1>4, <2>1, WorkMoves
<1>7. s[1] # "ACCEPT"
  OBVIOUS
<1> HIDE DEF s, n, r
<1>8. ApiTypeOK'
  BY <1>1, <1>2, <1>3, <1>5, <1>6 DEF ApiInv, ApiIsSound, ApiTypeOK, Anchors
<1>9. NoLostUpdate' /\ RequestsArePast'
  BY <1>1, <1>3, <1>6, MovedOnce DEF s
<1>10. AttentionIsCovered'
  <2>1. \A t \in WorkBound : jobs'[t].status = "DEAD" => jobs[t].status = "DEAD"
    BY <1>5 DEF WorkBound
  <2>2. \A t \in WorkBound : jobs[t].status = "DEAD" => exhaustion # "NONE" \/ superseded # {}
    BY DEF ApiInv, ApiIsSound, AttentionIsCovered
  <2> QED  BY <1>2, <1>6, <2>1, <2>2 DEF AttentionIsCovered, WorkBound, Slots
<1>11. JobsAreOnRecord'
  BY <1>3, <1>5 DEF ApiInv, JobsAreOnRecord
<1>12. AdvanceIsOfAccepted'
  <2> SUFFICES ASSUME NEW t \in Slots, t[1] = "ACCEPT", jobs'[t] # NoJob
               PROVE  jobs'[t].expect < n
    BY <1>4, <1>5, <1>6, ApiAssumption DEF AdvanceIsOfAccepted, Job
  <2>1. jobs[t] # NoJob /\ jobs'[t] = jobs[t]
    BY <1>5, <1>7
  <2>2. jobs[t].expect <= work.version /\ jobs[t].expect \in Nat
    BY <1>4, <2>1, ApiAssumption DEF ApiInv, AdvanceIsOfAccepted, Job
  <2> QED  BY <2>1, <2>2, <1>4, <1>6
<1>13. NeverDispatchedAndCancelled' /\ ReceiptIsTheEnd'
  BY <1>1 DEF NeverDispatchedAndCancelled, ReceiptIsTheEnd
<1> QED  BY <1>3, <1>8, <1>9, <1>10, <1>11, <1>12, <1>13 DEF ApiInv, ApiIsSound

-----------------------------------------------------------------------------
(* The API: queueing, the reactor and the run.                             *)

\* An operation that only queues, on work whose delivery lives or on a worker.
LEMMA EnqueueKeepsInv ==
    ASSUME ApiInv, NEW op \in {"DECIDE", "VERIFY", "RECONCILE"} \cap Ops, NEW k \in Keys,
           Enqueue(op, k), op # "RECONCILE" => require_active_delivery_workflow
    PROVE  ApiInv'
<1> DEFINE s == <<op, k>>
           r == [status |-> "queued", version |-> 0]
<1>1. /\ claim_idempotency(op, k) /\ complete_idempotency(op, k, 1, r)
      /\ jobs' = [jobs EXCEPT ![s] = NewJob(0)]
      /\ UNCHANGED <<work, delivery, recovery, dispatched, receipt, exhaustion, superseded,
                     competing, anchor, run, evidence, approval, capable>>
  BY DEF Enqueue
<1>2. /\ records' \in [Slots -> Record] /\ answers' \in [Slots -> SUBSET Receipt]
      /\ \A t \in Slots : records'[t] # NoRecord => records'[t].receipt \in Receipt
      /\ AnswersAgree' /\ s \in Slots /\ records[s] = NoRecord /\ records'[s] # NoRecord
      /\ \A t \in Slots : t # s => records'[t] = records[t]
  <2>1. r \in Receipt /\ 1 \in 1..MaxVersion
    BY ApiAssumption DEF Receipt
  <2> QED  BY <1>1, <2>1, KeyIsCompleted DEF ApiInv, ApiIsSound
<1>3. jobs \in [Slots -> Job]
  BY DEF ApiInv, ApiIsSound, ApiTypeOK
<1>4. /\ jobs' \in [Slots -> Job] /\ jobs'[s] # NoJob /\ jobs'[s].status = "PENDING"
      /\ \A t \in Slots : t # s => jobs'[t] = jobs[t]
  <2>1. 0 \in 0..MaxVersion
    BY ApiAssumption
  <2> QED  BY <1>1, <1>2, <1>3, <2>1, NewJobIsJob
<1>5. s[1] \notin {"ACCEPT", "CANCEL"} /\ s[1] = op
  OBVIOUS
<1>6. s \in WorkBound => ~receipt
  BY <1>5 DEF WorkBound, ApiInv, ReceiptIsTheEnd, require_active_delivery_workflow
<1> HIDE DEF s, r
<1>7. ApiTypeOK'
  BY <1>1, <1>2, <1>4 DEF ApiInv, ApiIsSound, ApiTypeOK
<1>8. NoLostUpdate' /\ RequestsArePast'
  <2>1. \A t \in Moving : t \in Slots /\ records'[t] = records[t]
    BY <1>2, <1>5 DEF Moving
  <2> QED
    BY <1>1, <2>1 DEF ApiInv, ApiIsSound, NoLostUpdate, RequestsArePast, Moving, Slots
<1>9. AttentionIsCovered'
  BY <1>1, <1>4 DEF ApiInv, ApiIsSound, AttentionIsCovered, WorkBound, Slots
<1>10. JobsAreOnRecord' /\ AdvanceIsOfAccepted'
  BY <1>1, <1>2, <1>4, <1>5 DEF ApiInv, JobsAreOnRecord, AdvanceIsOfAccepted
<1>11. NeverDispatchedAndCancelled' /\ ReceiptIsTheEnd'
  BY <1>1, <1>4, <1>6 DEF ApiInv, ApiIsSound, NeverDispatchedAndCancelled, ReceiptIsTheEnd,
     WorkBound, Slots
<1> QED  BY <1>2, <1>7, <1>8, <1>9, <1>10, <1>11 DEF ApiInv, ApiIsSound

\* A live job that goes on, is done, or dies without a work item.
LEMMA JobMovesKeepsInv ==
    ASSUME ApiInv, NEW s \in Slots, jobs[s].status \in Live, NEW n \in Job,
           n.status # "NONE", n.expect = jobs[s].expect, s \in WorkBound => n.status # "DEAD",
           jobs' = [jobs EXCEPT ![s] = n], approval' \in BOOLEAN,
           UNCHANGED <<work, delivery, recovery, records, answers, dispatched, receipt,
                       exhaustion, superseded, competing, anchor, run, evidence, capable>>
    PROVE  ApiInv'
<1>1. /\ jobs \in [Slots -> Job] /\ jobs' \in [Slots -> Job] /\ jobs'[s] = n
      /\ \A t \in Slots : t # s => jobs'[t] = jobs[t]
  BY DEF ApiInv, ApiIsSound, ApiTypeOK
<1>2. jobs[s] # NoJob
  BY DEF Live, NoJob
<1>3. ApiTypeOK'
  BY <1>1 DEF ApiInv, ApiIsSound, ApiTypeOK
<1>4. AnswersAgree' /\ NoLostUpdate' /\ RequestsArePast' /\ ReceiptIsTheEnd'
  BY DEF ApiInv, ApiIsSound, AnswersAgree, NoLostUpdate, RequestsArePast, ReceiptIsTheEnd, Moving
<1>5. NeverDispatchedAndCancelled'
  BY <1>1 DEF ApiInv, ApiIsSound, NeverDispatchedAndCancelled, WorkBound, Slots
<1>6. AttentionIsCovered'
  BY <1>1 DEF ApiInv, ApiIsSound, AttentionIsCovered, WorkBound, Slots
<1>7. JobsAreOnRecord' /\ AdvanceIsOfAccepted'
  BY <1>1, <1>2 DEF ApiInv, JobsAreOnRecord, AdvanceIsOfAccepted
<1> QED  BY <1>3, <1>4, <1>5, <1>6, <1>7 DEF ApiInv, ApiIsSound

LEMMA ReactorKeepsInv ==
    ASSUME ApiInv, NEW s \in Slots, Claim(s) \/ Fail(s) \/ DeadLetterUnbound(s) \/ Finish(s)
    PROVE  ApiInv'
<1>1. jobs[s] \in Job /\ jobs \in [Slots -> Job] /\ approval \in BOOLEAN
  BY DEF ApiInv, ApiIsSound, ApiTypeOK
<1>2. CASE Claim(s)
  <2> DEFINE n == [jobs[s] EXCEPT !.status = "RUNNING", !.attempts = jobs[s].attempts + 1]
  <2>1. n \in Job /\ n.status = "RUNNING" /\ n.expect = jobs[s].expect
    BY <1>1, <1>2, ApiAssumption DEF Claim, Job, JobStates
  <2>2. jobs' = [jobs EXCEPT ![s] = n]
    BY <1>1, <1>2 DEF Claim
  <2>3. jobs[s].status \in Live /\ approval' \in BOOLEAN
        /\ UNCHANGED <<work, delivery, recovery, records, answers, dispatched, receipt,
                       exhaustion, superseded, competing, anchor, run, evidence, capable>>
    BY <1>1, <1>2 DEF Claim, Live
  <2> HIDE DEF n
  <2> QED  BY <2>1, <2>2, <2>3, JobMovesKeepsInv
<1>3. CASE Fail(s) \/ DeadLetterUnbound(s) \/ Finish(s)
  <2>1. PICK t \in {"RETRY", "DEAD", "COMPLETED"} :
            jobs' = [jobs EXCEPT ![s].status = t] /\ (s \in WorkBound => t # "DEAD")
    BY <1>3 DEF Fail, DeadLetterUnbound, Finish
  <2> DEFINE n == [jobs[s] EXCEPT !.status = t]
  <2>2. n \in Job /\ n.status = t /\ n.expect = jobs[s].expect
    BY <1>1 DEF Job, JobStates
  <2>3. jobs' = [jobs EXCEPT ![s] = n]
    BY <1>1, <2>1
  <2>4. jobs[s].status \in Live /\ approval' \in BOOLEAN
        /\ UNCHANGED <<work, delivery, recovery, records, answers, dispatched, receipt,
                       exhaustion, superseded, competing, anchor, run, evidence, capable>>
    BY <1>1, <1>3 DEF Fail, DeadLetterUnbound, Finish, Live
  <2> HIDE DEF n
  <2> QED  BY <2>1, <2>2, <2>3, <2>4, JobMovesKeepsInv
<1> QED  BY <1>2, <1>3

\* What the end of a job that moves the work has in common: its own row keeps
\* what it expected, and every advance job is of an earlier version.
LEMMA EndedJob ==
    ASSUME ApiInv, NEW s \in Slots, jobs[s].status = "RUNNING", NEW t \in {"DEAD", "COMPLETED"},
           jobs' = [jobs EXCEPT ![s].status = t], NEW n \in 1..MaxVersion, n > work.version
    PROVE  /\ jobs' \in [Slots -> Job] /\ jobs'[s].status = t
           /\ \A u \in Slots : u # s => jobs'[u] = jobs[u]
           /\ \A u \in Slots : jobs'[u] # NoJob => jobs[u] # NoJob
           /\ \A u \in Slots : u[1] = "ACCEPT" /\ jobs'[u] # NoJob => jobs'[u].expect < n
<1>1. jobs \in [Slots -> Job] /\ work.version \in Nat /\ n \in Nat /\ jobs[s] # NoJob
  BY ApiAssumption DEF ApiInv, ApiIsSound, ApiTypeOK, NoJob
<1>2. /\ jobs' \in [Slots -> Job] /\ jobs'[s].status = t /\ jobs'[s].expect = jobs[s].expect
      /\ \A u \in Slots : u # s => jobs'[u] = jobs[u]
  BY <1>1 DEF Job, JobStates
<1>3. \A u \in Slots : jobs'[u] # NoJob => jobs[u] # NoJob
  BY <1>1, <1>2
<1>4. ASSUME NEW u \in Slots, u[1] = "ACCEPT", jobs'[u] # NoJob PROVE jobs'[u].expect < n
  <2>1. jobs[u].expect <= work.version /\ jobs[u].expect \in Nat
    BY <1>1, <1>3, <1>4, ApiAssumption DEF ApiInv, AdvanceIsOfAccepted, Job
  <2>2. jobs'[u].expect = jobs[u].expect
    BY <1>2
  <2> QED  BY <1>1, <2>1, <2>2
<1> QED  BY <1>2, <1>3, <1>4

LEMMA DeadLetterKeepsInv ==
    ASSUME ApiInv, NEW s \in Slots, DeadLetter(s)
    PROVE  ApiInv'
<1> DEFINE n == work.version + 1
<1>1. /\ s \in WorkBound /\ jobs[s].status = "RUNNING" /\ ~receipt
      /\ n \in 1..MaxVersion /\ n > work.version
      /\ jobs' = [jobs EXCEPT ![s].status = "DEAD"] /\ exhaustion' = DeadLetterOwner(s)
      /\ work' = [work EXCEPT !.state = "ESCALATED", !.version = n] /\ anchor' = "ESCALATION"
      /\ dispatched' = TRUE
      /\ UNCHANGED <<records, answers, receipt, superseded, competing, run, evidence, approval,
                     capable>>
  BY ApiAssumption DEF DeadLetter, lock_work_cancellation_authority_guard, ApiInv, ApiIsSound,
     ApiTypeOK
<1>2. /\ exhaustion' \in {"ATTEMPT", "NO_ATTEMPT"}
      /\ delivery' \in {"NONE", "ACTIVE", "WAITING", "CANCELLED"}
      /\ recovery' \in {"NONE", "ACTIVE", "WAITING"}
  <2>1. /\ exhaustion \in {"NONE", "ATTEMPT", "NO_ATTEMPT"}
        /\ delivery \in {"NONE", "ACTIVE", "WAITING", "CANCELLED"}
        /\ recovery \in {"NONE", "ACTIVE", "WAITING"}
    BY DEF ApiInv, ApiIsSound, ApiTypeOK
  <2>2. exhaustion' \in {"ATTEMPT", "NO_ATTEMPT"}
    BY <1>1, <2>1 DEF DeadLetterOwner
  <2>3. \/ recovery' = "WAITING" /\ delivery' = delivery
        \/ delivery' = "WAITING" /\ recovery' = recovery
    BY DEF DeadLetter
  <2> QED  BY <2>1, <2>2, <2>3
<1>3. work \in [state : WorkStates, version : 1..MaxVersion, attempt : BOOLEAN]
      /\ "ESCALATED" \in WorkStates
  BY DEF ApiInv, ApiIsSound, ApiTypeOK, WorkStates
<1> HIDE DEF n
<1>4. /\ work' \in [state : WorkStates, version : 1..MaxVersion, attempt : BOOLEAN]
      /\ work'.version = n /\ n \in Nat /\ work'.state = "ESCALATED"
  BY <1>1, <1>3, WorkMoves
<1>5. /\ jobs' \in [Slots -> Job]
      /\ \A u \in Slots : jobs'[u] # NoJob => jobs[u] # NoJob
      /\ \A u \in Slots : u[1] = "ACCEPT" /\ jobs'[u] # NoJob => jobs'[u].expect < n
  BY <1>1, EndedJob
<1>6. ApiTypeOK'
  BY <1>1, <1>2, <1>4, <1>5 DEF ApiInv, ApiIsSound, ApiTypeOK, Anchors
<1>7. AnswersAgree' /\ NoLostUpdate'
  BY <1>1 DEF ApiInv, ApiIsSound, AnswersAgree, NoLostUpdate
<1>8. RequestsArePast'
  <2>1. \A u \in Moving : records[u] # NoRecord =>
            records[u].request < work.version /\ records[u].request \in Nat
    BY ApiAssumption DEF ApiInv, ApiIsSound, ApiTypeOK, RequestsArePast, Record, Moving
  <2>2. work.version \in Nat
    BY <1>3, ApiAssumption
  <2> QED  BY <1>1, <1>4, <2>1, <2>2 DEF RequestsArePast, Moving, Slots
<1>9. AttentionIsCovered'
  BY <1>1, <1>2, <1>4 DEF AttentionIsCovered
<1>10. JobsAreOnRecord'
  BY <1>1, <1>5 DEF ApiInv, JobsAreOnRecord
<1>11. AdvanceIsOfAccepted'
  <2> SUFFICES ASSUME NEW u \in Slots, u[1] = "ACCEPT", jobs'[u] # NoJob
               PROVE  jobs'[u].expect <= n /\ jobs'[u].expect # n
    BY <1>4 DEF AdvanceIsOfAccepted
  <2>1. jobs'[u].expect \in Nat /\ jobs'[u].expect < n
    BY <1>5, ApiAssumption DEF Job
  <2> QED  BY <1>4, <2>1
<1>12. NeverDispatchedAndCancelled' /\ ReceiptIsTheEnd'
  BY <1>1 DEF NeverDispatchedAndCancelled, ReceiptIsTheEnd
<1> QED  BY <1>6, <1>7, <1>8, <1>9, <1>10, <1>11, <1>12 DEF ApiInv, ApiIsSound

LEMMA DispatchKeepsInv ==
    ASSUME ApiInv, NEW s \in Slots, Dispatch(s)
    PROVE  ApiInv'
<1> DEFINE n == work.version + 1
<1>1. /\ s[1] = "ACCEPT" /\ jobs[s].status = "RUNNING" /\ jobs[s].expect = work.version
      /\ n \in 1..MaxVersion /\ n > work.version
      /\ jobs' = [jobs EXCEPT ![s].status = "COMPLETED"]
      /\ work' = [work EXCEPT !.state = "RUNNING", !.version = n, !.attempt = TRUE]
      /\ dispatched' = TRUE /\ run' = "LIVE"
      /\ UNCHANGED <<delivery, recovery, records, answers, receipt, exhaustion, superseded,
                     competing, anchor, evidence, approval, capable>>
  BY ApiAssumption DEF Dispatch, ApiInv, ApiIsSound, ApiTypeOK
<1>2. work \in [state : WorkStates, version : 1..MaxVersion, attempt : BOOLEAN]
      /\ "RUNNING" \in WorkStates
  BY DEF ApiInv, ApiIsSound, ApiTypeOK, WorkStates
<1>3. work.state = "ACCEPTED" /\ ~receipt /\ exhaustion = "NONE"
  <2>1. jobs[s] # NoJob
    BY <1>1 DEF NoJob
  <2>2. work.state = "ACCEPTED"
    BY <1>1, <2>1 DEF ApiInv, AdvanceIsOfAccepted
  <2> QED  BY <2>2 DEF ApiInv, ApiIsSound, ReceiptIsTheEnd, AttentionIsCovered
<1> HIDE DEF n
<1>4. /\ work' \in [state : WorkStates, version : 1..MaxVersion, attempt : BOOLEAN]
      /\ work'.version = n /\ work'.state = "RUNNING"
  BY <1>1, <1>2
<1>5. /\ jobs' \in [Slots -> Job] /\ jobs'[s].status = "COMPLETED"
      /\ \A u \in Slots : u # s => jobs'[u] = jobs[u]
      /\ \A u \in Slots : jobs'[u] # NoJob => jobs[u] # NoJob
      /\ \A u \in Slots : u[1] = "ACCEPT" /\ jobs'[u] # NoJob => jobs'[u].expect < n
  BY <1>1, EndedJob
<1>6. ApiTypeOK'
  BY <1>1, <1>4, <1>5 DEF ApiInv, ApiIsSound, ApiTypeOK
<1>7. AnswersAgree' /\ NoLostUpdate'
  BY <1>1 DEF ApiInv, ApiIsSound, AnswersAgree, NoLostUpdate
<1>8. RequestsArePast'
  <2>1. \A u \in Moving : records[u] # NoRecord =>
            records[u].request < work.version /\ records[u].request \in Nat
    BY ApiAssumption DEF ApiInv, ApiIsSound, ApiTypeOK, RequestsArePast, Record, Moving
  <2>2. work.version \in Nat /\ n \in Nat
    BY <1>1, <1>2, ApiAssumption
  <2> QED  BY <1>1, <1>4, <2>1, <2>2 DEF RequestsArePast, Moving, Slots
<1>9. AttentionIsCovered'
  BY <1>1, <1>3, <1>4, <1>5 DEF ApiInv, ApiIsSound, AttentionIsCovered, WorkBound, Slots
<1>10. JobsAreOnRecord'
  BY <1>1, <1>5 DEF ApiInv, JobsAreOnRecord
<1>11. AdvanceIsOfAccepted'
  <2> SUFFICES ASSUME NEW u \in Slots, u[1] = "ACCEPT", jobs'[u] # NoJob
               PROVE  jobs'[u].expect <= n /\ jobs'[u].expect # n
    BY <1>4 DEF AdvanceIsOfAccepted
  <2>1. jobs'[u].expect \in Nat /\ jobs'[u].expect < n /\ n \in Nat
    BY <1>1, <1>5, ApiAssumption DEF Job
  <2> QED  BY <2>1
<1>12. NeverDispatchedAndCancelled' /\ ReceiptIsTheEnd'
  BY <1>1, <1>3 DEF NeverDispatchedAndCancelled, ReceiptIsTheEnd
<1> QED  BY <1>6, <1>7, <1>8, <1>9, <1>10, <1>11, <1>12 DEF ApiInv, ApiIsSound

\* The run, the source and a restart touch no row that the API's answers name.
LEMMA SurroundingsKeepInv ==
    ASSUME ApiInv, RunProceeds \/ SourceChanges \/ Restart \/ UNCHANGED apiVars
    PROVE  ApiInv'
<1>1. /\ UNCHANGED <<work, delivery, recovery, jobs, records, answers, receipt, superseded,
                     exhaustion, anchor>>
      /\ run = "NONE" => run' = "NONE"
      /\ receipt /\ ~dispatched => ~dispatched'
  BY DEF RunProceeds, SourceChanges, Restart, apiVars, ApiInv, ReceiptIsTheEnd
<1>2. ApiTypeOK'
  <2>1. /\ dispatched' \in BOOLEAN /\ competing' \in BOOLEAN /\ run' \in {"NONE", "LIVE", "ENDED"}
        /\ evidence' \in BOOLEAN /\ approval' \in BOOLEAN /\ capable' \in SUBSET Ops
    BY DEF RunProceeds, SourceChanges, Restart, apiVars, ApiInv, ApiIsSound, ApiTypeOK
  <2> QED  BY <1>1, <2>1 DEF ApiInv, ApiIsSound, ApiTypeOK
<1> QED
  BY <1>1, <1>2 DEF ApiInv, ApiIsSound, AnswersAgree, NoLostUpdate, NeverDispatchedAndCancelled,
     AttentionIsCovered, JobsAreOnRecord, RequestsArePast, AdvanceIsOfAccepted, ReceiptIsTheEnd,
     Moving, WorkBound

LEMMA ApiInitInv == ApiInit => ApiInv
<1> SUFFICES ASSUME ApiInit PROVE ApiInv
  OBVIOUS
<1>1. /\ NoJob \in Job /\ NoRecord \in Record /\ NoJob.status = "NONE"
      /\ [state |-> "READY", version |-> 1, attempt |-> FALSE]
            \in [state : WorkStates, version : 1..MaxVersion, attempt : BOOLEAN]
  BY ApiAssumption DEF NoJob, Job, JobStates, NoRecord, Record, NoReceipt, WorkStates
<1>2. ApiTypeOK
  BY <1>1 DEF ApiInit, ApiTypeOK, Anchors
<1>3. \A s \in Slots : jobs[s] = NoJob /\ records[s] = NoRecord /\ answers[s] = {}
  BY DEF ApiInit
<1> QED
  BY <1>1, <1>2, <1>3 DEF ApiInit, ApiInv, ApiIsSound, AnswersAgree, NoLostUpdate,
     NeverDispatchedAndCancelled, AttentionIsCovered, JobsAreOnRecord, RequestsArePast,
     AdvanceIsOfAccepted, ReceiptIsTheEnd, Moving, WorkBound

LEMMA ApiInvStep == ApiInv /\ [ApiNext]_apiVars => ApiInv'
<1> SUFFICES ASSUME ApiInv, [ApiNext]_apiVars PROVE ApiInv'
  OBVIOUS
<1>1. CASE Accept
  BY <1>1, AcceptKeepsInv DEF Accept
<1>2. CASE CancelBeforeDispatch
  BY <1>2, CancelBeforeKeepsInv DEF CancelBeforeDispatch
<1>3. CASE CancelRunning
  BY <1>3, CancelRunningKeepsInv DEF CancelRunning
<1>4. CASE Decide \/ Verify \/ Reconcile
  <2>1. PICK op \in {"DECIDE", "VERIFY", "RECONCILE"} \cap Ops, k \in Keys :
            Enqueue(op, k) /\ (op # "RECONCILE" => require_active_delivery_workflow)
    BY <1>4 DEF Decide, Verify, Reconcile, decide_approval, verify_evidence, reconcile_worker
  <2> QED  BY <2>1, EnqueueKeepsInv
<1>5. CASE \E op \in Ops, k \in Keys : Replay(op, k)
  BY <1>5, ReplayKeepsInv
<1>6. CASE \E s \in Slots : Claim(s) \/ Fail(s) \/ DeadLetter(s) \/ DeadLetterUnbound(s)
                            \/ Finish(s) \/ Dispatch(s)
  BY <1>6, ReactorKeepsInv, DeadLetterKeepsInv, DispatchKeepsInv
<1>7. CASE RunProceeds \/ SourceChanges \/ Restart \/ UNCHANGED apiVars
  BY <1>7, SurroundingsKeepInv
<1> QED  BY <1>1, <1>2, <1>3, <1>4, <1>5, <1>6, <1>7 DEF ApiNext

\* The inductive invariant of the API holds in every reachable state.
THEOREM ApiInvariant == ApiSpec => []ApiInv
BY ApiInitInv, ApiInvStep, PTL DEF ApiSpec

(***************************************************************************)
(* Whatever callers, keys and restarts there are: one answer per key, no   *)
(* lost update, never both a dispatch and a cancellation before it, and an *)
(* owner for escalated work (api/postgres.rs).                             *)
(***************************************************************************)
THEOREM ApiStaysSound == ApiSpec => []ApiIsSound
<1>1. ApiInv => ApiIsSound
  BY DEF ApiInv
<1> QED  BY <1>1, ApiInvariant, PTL

\* What no step does to a job.
JobIsKept(s) ==
    /\ jobs[s].status = "RUNNING" => jobs'[s].status # "CANCELLED"
    /\ jobs[s] # NoJob => jobs'[s] # NoJob /\ jobs'[s].attempts >= jobs[s].attempts

\* A job whose row a step leaves, or only moves along, is kept.
LEMMA MovedJobIsKept ==
    ASSUME ApiInv, NEW s \in Slots, NEW t, t # "NONE", jobs[s].status = "RUNNING" => t # "CANCELLED",
           jobs' = [jobs EXCEPT ![s].status = t]
    PROVE  \A u \in Slots : JobIsKept(u)
<1>1. \A u \in Slots : jobs[u] \in Job /\ jobs[u].attempts \in Nat
  BY ApiAssumption DEF ApiInv, ApiIsSound, ApiTypeOK, Job
<1>2. /\ jobs'[s].status = t /\ jobs'[s].attempts = jobs[s].attempts /\ NoJob.status = "NONE"
      /\ \A u \in Slots : u # s => jobs'[u] = jobs[u]
  BY <1>1 DEF ApiInv, ApiIsSound, ApiTypeOK, Job, NoJob
<1>3. jobs'[s] # NoJob
  BY <1>2
<1>4. JobIsKept(s)
  BY <1>1, <1>2, <1>3 DEF JobIsKept
<1> QED  BY <1>1, <1>2, <1>4 DEF JobIsKept

\* A job is queued for a key that had none.
LEMMA QueuedJobIsKept ==
    ASSUME ApiInv, NEW op \in Ops, NEW k \in Keys, NEW v \in 0..MaxVersion,
           claim_idempotency(op, k), jobs' = [jobs EXCEPT ![<<op, k>>] = NewJob(v)]
    PROVE  \A u \in Slots : JobIsKept(u)
<1>1. \A u \in Slots : jobs[u] \in Job /\ jobs[u].attempts \in Nat
  BY ApiAssumption DEF ApiInv, ApiIsSound, ApiTypeOK, Job
<1>2. <<op, k>> \in Slots /\ jobs[<<op, k>>] = NoJob
  BY DEF Slots, claim_idempotency, ApiInv, JobsAreOnRecord
<1>3. \A u \in Slots : u # <<op, k>> => jobs'[u] = jobs[u]
  BY DEF ApiInv, ApiIsSound, ApiTypeOK
<1> QED  BY <1>1, <1>2, <1>3 DEF JobIsKept, NoJob

(***************************************************************************)
(* A job some reactor holds is never cancelled from under it, and no       *)
(* repeated request starts a job again (lock_pre_dispatch_cancellation_-   *)
(* binding, claim_idempotency).                                            *)
(***************************************************************************)
THEOREM JobsStayKept == ApiSpec => JobsAreKept
<1>1. ASSUME ApiInv, [ApiNext]_apiVars PROVE \A s \in Slots : JobIsKept(s)
  <2>1. \A u \in Slots : jobs[u] \in Job /\ jobs[u].attempts \in Nat
    BY <1>1, ApiAssumption DEF ApiInv, ApiIsSound, ApiTypeOK, Job
  <2>2. CASE jobs' = jobs
    BY <2>1, <2>2 DEF JobIsKept
  <2>3. ASSUME NEW k \in Keys, NEW v \in 1..MaxVersion, accept_work_item(k, v)
        PROVE  \A s \in Slots : JobIsKept(s)
    <3>1. "ACCEPT" \in Ops /\ work.version + 1 \in 0..MaxVersion
      BY <1>1, <2>3, ApiAssumption DEF accept_work_item, ApiInv, ApiIsSound, ApiTypeOK
    <3> QED  BY <1>1, <2>3, <3>1, QueuedJobIsKept DEF accept_work_item
  <2>4. ASSUME NEW k \in Keys, NEW v \in 1..MaxVersion, cancel_accepted_before_dispatch(k, v)
        PROVE  \A s \in Slots : JobIsKept(s)
    <3>1. PICK s \in Slots : jobs[s].status \in {"PENDING", "RETRY"} /\ jobs' = EndAdvanceJob(s)
      BY <2>4 DEF cancel_accepted_before_dispatch, lock_pre_dispatch_cancellation_binding,
         BindAdvanceJob
    <3> QED  BY <1>1, <3>1, MovedJobIsKept DEF EndAdvanceJob
  <2>5. ASSUME "CANCEL" \in Ops, NEW k \in Keys, NEW v \in 1..MaxVersion, cancel_work_item(k, v)
        PROVE  \A s \in Slots : JobIsKept(s)
    <3>1. work.version + 1 \in 0..MaxVersion
      BY <1>1, <2>5, ApiAssumption DEF cancel_work_item, RequestCancellation, ApiInv, ApiIsSound,
         ApiTypeOK
    <3> QED  BY <1>1, <2>5, <3>1, QueuedJobIsKept DEF cancel_work_item, RequestCancellation
  <2>6. ASSUME NEW op \in Ops, NEW k \in Keys, Enqueue(op, k)
        PROVE  \A s \in Slots : JobIsKept(s)
    <3>1. 0 \in 0..MaxVersion
      BY ApiAssumption
    <3> QED  BY <1>1, <2>6, <3>1, QueuedJobIsKept DEF Enqueue
  <2>7. ASSUME NEW s \in Slots, Claim(s) PROVE \A u \in Slots : JobIsKept(u)
    <3>1. /\ jobs'[s].status = "RUNNING" /\ jobs'[s].attempts = jobs[s].attempts + 1
          /\ NoJob.status = "NONE" /\ \A u \in Slots : u # s => jobs'[u] = jobs[u]
      BY <1>1, <2>1, <2>7 DEF Claim, ApiInv, ApiIsSound, ApiTypeOK, Job, NoJob
    <3> QED  BY <2>1, <3>1 DEF JobIsKept
  <2>8. ASSUME NEW s \in Slots,
               Fail(s) \/ DeadLetter(s) \/ DeadLetterUnbound(s) \/ Finish(s) \/ Dispatch(s)
        PROVE  \A u \in Slots : JobIsKept(u)
    <3>1. PICK t \in {"RETRY", "DEAD", "COMPLETED"} : jobs' = [jobs EXCEPT ![s].status = t]
      BY <2>8 DEF Fail, DeadLetter, DeadLetterUnbound, Finish, Dispatch
    <3> QED  BY <1>1, <3>1, MovedJobIsKept
  <2>9. CASE RunProceeds \/ SourceChanges \/ Restart \/ UNCHANGED apiVars
             \/ \E op \in Ops, k \in Keys : Replay(op, k)
    BY <2>2, <2>9 DEF RunProceeds, SourceChanges, Restart, apiVars, Replay
  <2> QED
    BY <1>1, <2>3, <2>4, <2>5, <2>6, <2>7, <2>8, <2>9 DEF ApiNext, Accept, CancelBeforeDispatch,
       CancelRunning, Decide, Verify, Reconcile, decide_approval, verify_evidence, reconcile_worker
<1>2. ASSUME ApiInv, [ApiNext]_apiVars
      PROVE  /\ [\A s \in Slots : jobs[s].status = "RUNNING" => jobs'[s].status # "CANCELLED"]_apiVars
             /\ [\A s \in Slots : jobs[s] # NoJob =>
                    jobs'[s] # NoJob /\ jobs'[s].attempts >= jobs[s].attempts]_apiVars
  BY <1>1, <1>2 DEF JobIsKept
<1> QED
  BY <1>2, ApiInvariant, PTL DEF ApiSpec, JobsAreKept, ClaimedIsNotCancelled, NeverQueuedTwice

-----------------------------------------------------------------------------
(* The intake: what one snapshot does to its item.                         *)

USE IntakeAssumption, NoContentAssumption

\* What a snapshot leaves of its item, by outcome.
LEMMA OutcomeIsOne ==
    ASSUME IntakeInv, NEW i \in Items, NEW c \in Contents, Persists(i, c)
    PROVE  \/ /\ OutcomeOf(i, c) = "DISCOVERED" /\ items[i] = NoWork
              /\ Emits(i, c) /\ ~OpensFence(i, c) /\ VersionAfter(i, c) = 1
              /\ WorkAfter(i, c) = [state |-> "DISCOVERED", snap |-> c, version |-> 1,
                                    accepted |-> FALSE, policy |-> NoContent]
           \/ /\ OutcomeOf(i, c) = "UNCHANGED" /\ items[i].state # "NONE"
              /\ ~Emits(i, c) /\ ~OpensFence(i, c) /\ WorkAfter(i, c) = items[i]
              /\ VersionAfter(i, c) = items[i].version
           \/ /\ OutcomeOf(i, c) = "READINESS_REQUEUED" /\ items[i].state # "NONE"
              /\ Emits(i, c) /\ ~OpensFence(i, c)
              /\ ~items[i].accepted /\ items[i].state # "REFUSED"
              /\ VersionAfter(i, c) = items[i].version + 1
              /\ WorkAfter(i, c) = [items[i] EXCEPT !.state = "READINESS_PENDING", !.snap = c,
                                           !.policy = NoContent, !.version = items[i].version + 1]
           \/ /\ OutcomeOf(i, c) = "AUTHORITY_REEVALUATION_REQUIRED" /\ items[i].state # "NONE"
              /\ items[i].accepted \/ items[i].state = "REFUSED"
              /\ WorkAfter(i, c) = items[i]
              /\ OpensFence(i, c) <=> Emits(i, c) /\ items[i].accepted
              /\ VersionAfter(i, c) = items[i].version
<1>1. items[i] \in Work /\ items[i].version \in Nat
  BY DEF IntakeInv, IntakeIsSound, IntakeTypeOK, Work
<1>2. ASSUME VersionAfter(i, c) > items[i].version PROVE ~Recorded(i, c)
  <2> SUFFICES ASSUME SourceEvent(i, c) \in outbox PROVE FALSE
    BY DEF Recorded
  <2>1. SourceEvent(i, c).version <= items[SourceEvent(i, c).item].version
    BY DEF IntakeInv, EventsArePast
  <2>2. SourceEvent(i, c).version = VersionAfter(i, c) /\ SourceEvent(i, c).item = i
    BY DEF SourceEvent
  <2>3. VersionAfter(i, c) \in Nat
    BY <1>1 DEF VersionAfter
  <2> QED  BY <1>1, <1>2, <2>1, <2>2, <2>3
<1>3. CASE items[i].state = "NONE"
  <2>0. OutcomeOf(i, c) = "DISCOVERED" /\ items[i] = NoWork
    BY <1>3 DEF OutcomeOf, IntakeInv, ItemsAreWhole
  <2>1. OutcomeOf(i, c) = "DISCOVERED" /\ items[i] = NoWork /\ VersionAfter(i, c) = 1
    BY <2>0 DEF VersionAfter, NoWork
  <2>2. ~Recorded(i, c)
    BY <1>2, <2>1 DEF NoWork
  <2> QED  BY <2>1, <2>2 DEF Emits, OpensFence, WorkAfter
<1>4. CASE items[i].state # "NONE" /\ items[i].snap = c
  BY <1>4 DEF OutcomeOf, VersionAfter, Emits, OpensFence, WorkAfter
<1>5. CASE items[i].state # "NONE" /\ items[i].snap # c /\ ~items[i].accepted
           /\ items[i].state \in Requeueable
  <2>1. OutcomeOf(i, c) = "READINESS_REQUEUED" /\ VersionAfter(i, c) = items[i].version + 1
    BY <1>5 DEF OutcomeOf, VersionAfter
  <2>2. ~Recorded(i, c)
    BY <1>1, <1>2, <2>1
  <2>3. items[i].state # "REFUSED"
    BY <1>5 DEF Requeueable
  <2> QED  BY <1>5, <2>1, <2>2, <2>3 DEF Emits, OpensFence, WorkAfter
<1>6. CASE items[i].state # "NONE" /\ items[i].snap # c
           /\ ~(~items[i].accepted /\ items[i].state \in Requeueable)
  <2>1. OutcomeOf(i, c) = "AUTHORITY_REEVALUATION_REQUIRED"
    BY <1>6 DEF OutcomeOf
  <2>2. items[i].accepted \/ items[i].state = "REFUSED"
    <3>1. items[i].state \in Delivered => items[i].accepted
      BY DEF IntakeInv, ItemsAreWhole
    <3>2. items[i].state \in ItemStates
      BY <1>1 DEF Work
    <3> QED  BY <1>6, <3>1, <3>2 DEF ItemStates
  <2> QED  BY <1>6, <2>1, <2>2 DEF Emits, OpensFence, WorkAfter, VersionAfter
<1> QED  BY <1>3, <1>4, <1>5, <1>6

\* The item's row after a snapshot.
LEMMA WorkAfterIsWork ==
    ASSUME IntakeInv, NEW i \in Items, NEW c \in Contents, Persists(i, c)
    PROVE  LET w == WorkAfter(i, c) IN
           /\ w \in Work /\ w.state # "NONE" /\ w.version >= items[i].version
           /\ w.version = items[i].version => w = items[i]
           /\ items[i].accepted \/ items[i].state = "REFUSED" => w = items[i]
           /\ w.state \in Delivered => w.accepted
           /\ w.policy # NoContent => w.policy = w.snap
           /\ w = items[i] \/ w.snap = c
           /\ w.version >= VersionAfter(i, c) /\ VersionAfter(i, c) \in Nat
           /\ OutcomeOf(i, c) = "AUTHORITY_REEVALUATION_REQUIRED"
                 => w = items[i] /\ (w.accepted \/ w.state = "REFUSED")
           /\ Emits(i, c) /\ OutcomeOf(i, c) # "AUTHORITY_REEVALUATION_REQUIRED" => w.snap = c
           /\ ~Emits(i, c) => w = items[i]
<1> DEFINE w == WorkAfter(i, c)
<1>1. /\ items[i] \in Work /\ items[i].version \in Nat /\ c \in Candidates /\ NoContent \in Candidates
      /\ items[i].state \in Delivered => items[i].accepted
      /\ items[i].policy # NoContent => items[i].policy = items[i].snap
  BY DEF IntakeInv, IntakeIsSound, IntakeTypeOK, Work, ItemsAreWhole, ReadinessIsCurrent, Candidates
<1>2. CASE w = items[i] /\ items[i].state # "NONE" /\ VersionAfter(i, c) = items[i].version
           /\ (OutcomeOf(i, c) = "AUTHORITY_REEVALUATION_REQUIRED"
                  => items[i].accepted \/ items[i].state = "REFUSED")
           /\ (Emits(i, c) => OutcomeOf(i, c) = "AUTHORITY_REEVALUATION_REQUIRED")
  BY <1>1, <1>2
<1>3. CASE items[i] = NoWork /\ VersionAfter(i, c) = 1 /\ Emits(i, c)
           /\ OutcomeOf(i, c) = "DISCOVERED"
           /\ w = [state |-> "DISCOVERED", snap |-> c, version |-> 1, accepted |-> FALSE,
                   policy |-> NoContent]
  <2>1. items[i].version = 0 /\ ~items[i].accepted /\ items[i].state = "NONE"
    BY <1>3 DEF NoWork
  <2>2. w \in Work /\ w.state = "DISCOVERED" /\ w.snap = c /\ w.version = 1 /\ ~w.accepted
        /\ w.policy = NoContent
    BY <1>1, <1>3 DEF Work, ItemStates, Requeueable
  <2> HIDE DEF w
  <2> QED  BY <1>3, <2>1, <2>2 DEF w, Delivered
<1>4. CASE ~items[i].accepted /\ items[i].state # "REFUSED"
           /\ VersionAfter(i, c) = items[i].version + 1 /\ Emits(i, c)
           /\ OutcomeOf(i, c) = "READINESS_REQUEUED"
           /\ w = [items[i] EXCEPT !.state = "READINESS_PENDING", !.snap = c,
                           !.policy = NoContent, !.version = items[i].version + 1]
  <2>1. w \in Work /\ w.state = "READINESS_PENDING" /\ w.snap = c /\ ~w.accepted
        /\ w.version = items[i].version + 1 /\ w.policy = NoContent
    <3>1. "READINESS_PENDING" \in ItemStates /\ items[i].version + 1 \in Nat
      BY <1>1 DEF ItemStates, Requeueable
    <3>2. /\ w.state = "READINESS_PENDING" /\ w.snap = c /\ w.version = items[i].version + 1
          /\ w.policy = NoContent /\ w.accepted = items[i].accepted
      BY <1>1, <1>4 DEF Work
    <3>3. w \in Work
      BY <1>1, <1>4, <3>1 DEF Work
    <3> QED  BY <1>4, <3>2, <3>3
  <2> HIDE DEF w
  <2> QED  BY <1>1, <1>4, <2>1 DEF w, Delivered
<1> QED  BY <1>2, <1>3, <1>4, OutcomeIsOne

-----------------------------------------------------------------------------
(* The intake: persisting a batch.                                         *)

\* Event and audit fact of a snapshot have their types.
LEMMA EventIsEvent ==
    ASSUME IntakeInv, NEW i \in Items, NEW c \in Contents, Persists(i, c)
    PROVE  /\ SourceEvent(i, c) \in Event /\ SourceEvent(i, c).item = i
           /\ SourceEvent(i, c).kind = OutcomeOf(i, c) /\ SourceEvent(i, c).content = c
           /\ SourceEvent(i, c).retained = items[i].snap
           /\ SourceEvent(i, c).version = VersionAfter(i, c)
           /\ [action |-> OutcomeOf(i, c), before |-> items[i].snap, after |-> c] \in AuditFact
<1>1. items[i] \in Work /\ items[i].snap \in Candidates /\ items[i].policy \in Candidates
      /\ NoContent \in Candidates
  BY DEF IntakeInv, IntakeIsSound, IntakeTypeOK, Work, Candidates
<1>2. OutcomeOf(i, c) \in Outcomes /\ VersionAfter(i, c) \in Nat
  BY OutcomeIsOne, WorkAfterIsWork DEF Outcomes
<1>3. (IF OutcomeOf(i, c) = "AUTHORITY_REEVALUATION_REQUIRED" THEN items[i].policy ELSE NoContent)
          \in Candidates
  BY <1>1
<1> QED  BY <1>1, <1>2, <1>3 DEF SourceEvent, Event, AuditFact

\* The rows after a batch, one item at a time.
LEMMA BatchRows ==
    ASSUME NEW D \in SUBSET Items, NEW batch \in [D -> Contents], Persist(batch)
    PROVE  /\ \A i \in D : batch[i] \in Contents /\ Persists(i, batch[i])
           /\ \A i \in D : /\ items'[i] = WorkAfter(i, batch[i])
                           /\ audit'[i] = AuditAfter(i, batch[i])
                           /\ OpensFence(i, batch[i]) => fence'[i] = batch[i]
                           /\ ~OpensFence(i, batch[i]) => fence'[i] = fence[i]
           /\ \A i \in Items \ D : items'[i] = items[i] /\ audit'[i] = audit[i] /\ fence'[i] = fence[i]
           /\ outbox' = outbox \cup {SourceEvent(i, batch[i]) : i \in {j \in D : Emits(j, batch[j])}}
           /\ snapshots' = snapshots \cup {<<i, batch[i]>> : i \in D}
           /\ escalations' = escalations \cup
                 {<<i, batch[i]>> : i \in {j \in D : OpensFence(j, batch[j]) /\ ~Escalated(j)}}
<1>1. DOMAIN batch = D
  OBVIOUS
<1>2. \A i \in D : batch[i] \in Contents /\ Persists(i, batch[i])
  BY <1>1 DEF Persist
<1>3. /\ items' = [i \in Items |-> IF i \in D THEN WorkAfter(i, batch[i]) ELSE items[i]]
      /\ audit' = [i \in Items |-> IF i \in D THEN AuditAfter(i, batch[i]) ELSE audit[i]]
      /\ fence' = [i \in Items |-> IF i \in D /\ OpensFence(i, batch[i]) THEN batch[i] ELSE fence[i]]
  BY <1>1 DEF Persist
<1>4. /\ outbox' = outbox \cup {SourceEvent(i, batch[i]) : i \in {j \in D : Emits(j, batch[j])}}
      /\ snapshots' = snapshots \cup {<<i, batch[i]>> : i \in D}
      /\ escalations' = escalations \cup
            {<<i, batch[i]>> : i \in {j \in D : OpensFence(j, batch[j]) /\ ~Escalated(j)}}
  BY <1>1 DEF Persist, Captured, EscalationsDue
<1>5. \A i \in D : /\ items'[i] = WorkAfter(i, batch[i])
                   /\ audit'[i] = AuditAfter(i, batch[i])
                   /\ OpensFence(i, batch[i]) => fence'[i] = batch[i]
                   /\ ~OpensFence(i, batch[i]) => fence'[i] = fence[i]
  BY <1>3
<1>6. \A i \in Items \ D : items'[i] = items[i] /\ audit'[i] = audit[i] /\ fence'[i] = fence[i]
  BY <1>3
<1> QED  BY <1>2, <1>4, <1>5, <1>6

LEMMA BatchTypes ==
    ASSUME IntakeInv, NEW D \in SUBSET Items, NEW batch \in [D -> Contents], Persist(batch)
    PROVE  /\ snapshots' \subseteq Items \X Contents /\ items' \in [Items -> Work]
           /\ outbox' \subseteq Event /\ audit' \in [Items -> Seq(AuditFact)]
           /\ fence' \in [Items -> Candidates] /\ escalations' \subseteq Items \X Candidates
<1>1. /\ snapshots \subseteq Items \X Contents /\ items \in [Items -> Work]
      /\ outbox \subseteq Event /\ audit \in [Items -> Seq(AuditFact)]
      /\ fence \in [Items -> Candidates] /\ escalations \subseteq Items \X Candidates
  BY DEF IntakeInv, IntakeIsSound, IntakeTypeOK
<1>2. DOMAIN batch = D /\ \A i \in D : batch[i] \in Contents /\ Persists(i, batch[i])
  BY DEF Persist
<1>3. \A i \in D : WorkAfter(i, batch[i]) \in Work
  BY <1>2, WorkAfterIsWork
<1>4. \A i \in D : AuditAfter(i, batch[i]) \in Seq(AuditFact)
  <2> TAKE i \in D
  <2>1. [action |-> OutcomeOf(i, batch[i]), before |-> items[i].snap, after |-> batch[i]] \in AuditFact
    BY <1>2, EventIsEvent
  <2>2. audit[i] \in Seq(AuditFact)
    BY <1>1
  <2> QED  BY <2>1, <2>2, AppendProperties DEF AuditAfter
<1>5. items' \in [Items -> Work] /\ audit' \in [Items -> Seq(AuditFact)]
  BY <1>1, <1>2, <1>3, <1>4 DEF Persist
<1>6. fence' \in [Items -> Candidates]
  BY <1>1, <1>2 DEF Persist, Candidates
<1>7. /\ outbox' = outbox \cup {SourceEvent(i, batch[i]) : i \in {j \in D : Emits(j, batch[j])}}
      /\ snapshots' = snapshots \cup {<<i, batch[i]>> : i \in D}
      /\ escalations' = escalations \cup
            {<<i, batch[i]>> : i \in {j \in D : OpensFence(j, batch[j]) /\ ~Escalated(j)}}
  BY BatchRows
<1>8. outbox' \subseteq Event
  <2>1. \A i \in D : SourceEvent(i, batch[i]) \in Event
    BY <1>2, EventIsEvent
  <2> QED  BY <1>1, <1>7, <2>1
<1>9. snapshots' \subseteq Items \X Contents /\ escalations' \subseteq Items \X Candidates
  <2>1. \A i \in D : /\ <<i, batch[i]>> \in Items \X Contents
                     /\ <<i, batch[i]>> \in Items \X Candidates
    BY <1>2 DEF Candidates
  <2> QED  BY <1>1, <1>7, <2>1
<1> QED  BY <1>5, <1>6, <1>8, <1>9

\* Every item after a batch is as a snapshot leaves it, or as it was.
LEMMA BatchItems ==
    ASSUME IntakeInv, NEW D \in SUBSET Items, NEW batch \in [D -> Contents], Persist(batch)
    PROVE  \A i \in Items :
               /\ items[i] \in Work /\ items'[i] \in Work /\ items'[i].version >= items[i].version
               /\ items'[i].version = items[i].version => items'[i] = items[i]
               /\ items[i].accepted \/ items[i].state = "REFUSED" => items'[i] = items[i]
               /\ items'[i].state = "NONE" => items'[i] = items[i]
               /\ items'[i].state \in Delivered => items'[i].accepted
               /\ items'[i].policy # NoContent => items'[i].policy = items'[i].snap
               /\ items'[i] = items[i] \/ (i \in D /\ items'[i].snap = batch[i])
               /\ i \in D => items'[i].state # "NONE"
<1> TAKE i \in Items
<1>1. items[i] \in Work /\ items[i].version \in Nat
      /\ (items[i].state \in Delivered => items[i].accepted)
      /\ (items[i].policy # NoContent => items[i].policy = items[i].snap)
  BY DEF IntakeInv, IntakeIsSound, IntakeTypeOK, Work, ItemsAreWhole, ReadinessIsCurrent
<1>2. CASE i \in D
  <2>1. batch[i] \in Contents /\ Persists(i, batch[i]) /\ items'[i] = WorkAfter(i, batch[i])
    BY <1>2, BatchRows
  <2> QED  BY <1>1, <1>2, <2>1, WorkAfterIsWork
<1>3. CASE i \notin D
  <2>1. items'[i] = items[i]
    BY <1>3, BatchRows
  <2> QED  BY <1>1, <1>3, <2>1
<1> QED  BY <1>2, <1>3

LEMMA BatchKeepsItems ==
    ASSUME IntakeInv, NEW D \in SUBSET Items, NEW batch \in [D -> Contents], Persist(batch),
           seen' = seen
    PROVE  ItemsAreWhole' /\ ReadinessIsCurrent' /\ ViewsAreOfVersions'
<1>1. ItemsAreWhole'
  BY BatchItems DEF IntakeInv, ItemsAreWhole
<1>2. ReadinessIsCurrent'
  BY BatchItems DEF ReadinessIsCurrent
<1>3. ViewsAreOfVersions'
  <2> SUFFICES ASSUME NEW i \in Items
               PROVE  /\ seen[i].version <= items'[i].version
                      /\ seen[i].version = items'[i].version => seen[i].snap = items'[i].snap
    BY DEF ViewsAreOfVersions
  <2>1. /\ seen[i].version \in Nat /\ items[i].version \in Nat /\ items'[i].version \in Nat
        /\ items'[i].version >= items[i].version
        /\ items'[i].version = items[i].version => items'[i] = items[i]
    BY BatchItems DEF IntakeInv, IntakeIsSound, IntakeTypeOK, Views, Work
  <2>2. /\ seen[i].version <= items[i].version
        /\ seen[i].version = items[i].version => seen[i].snap = items[i].snap
    BY DEF IntakeInv, ViewsAreOfVersions
  <2> QED  BY <2>1, <2>2
<1> QED  BY <1>1, <1>2, <1>3

LEMMA BatchKeepsEvents ==
    ASSUME IntakeInv, NEW D \in SUBSET Items, NEW batch \in [D -> Contents], Persist(batch)
    PROVE  EventsArePast' /\ ChangeIsOwned'
<1> DEFINE Owned(e) == e.kind = "AUTHORITY_REEVALUATION_REQUIRED"
                => /\ e.retained = items[e.item].snap
                   /\ items[e.item].accepted \/ items[e.item].state = "REFUSED"
                   /\ items[e.item].accepted
                         => /\ fence[e.item] = e.content
                            /\ \E x \in {e.content, NoContent} : <<e.item, x>> \in escalations
<1>1. /\ outbox' = outbox \cup {SourceEvent(i, batch[i]) : i \in {j \in D : Emits(j, batch[j])}}
      /\ escalations' = escalations \cup
            {<<i, batch[i]>> : i \in {j \in D : OpensFence(j, batch[j]) /\ ~Escalated(j)}}
  BY BatchRows
<1>2. \A i \in D : /\ batch[i] \in Contents /\ Persists(i, batch[i]) /\ i \in Items
                   /\ items'[i] = WorkAfter(i, batch[i])
                   /\ OpensFence(i, batch[i]) => fence'[i] = batch[i]
                   /\ ~OpensFence(i, batch[i]) => fence'[i] = fence[i]
  <2>1. \A i \in D : batch[i] \in Contents /\ Persists(i, batch[i])
    BY BatchRows
  <2>2. \A i \in D : items'[i] = WorkAfter(i, batch[i])
    BY BatchRows
  <2>3. \A i \in D : /\ OpensFence(i, batch[i]) => fence'[i] = batch[i]
                     /\ ~OpensFence(i, batch[i]) => fence'[i] = fence[i]
    BY DEF Persist
  <2> QED  BY <2>1, <2>2, <2>3
<1>3. \A i \in Items, c \in Contents : <<i, c>> \in escalations => fence[i] = c
  BY DEF IntakeInv, IntakeIsSound, ChangeIsOwned
<1>4. \A i \in Items : fence[i] # NoContent => fence'[i] = fence[i]
  <2> TAKE i \in Items
  <2> SUFFICES ASSUME fence[i] # NoContent PROVE fence'[i] = fence[i]
    OBVIOUS
  <2>1. CASE i \in D /\ OpensFence(i, batch[i])
    BY <1>2, <2>1 DEF Persists, FenceAgrees
  <2>2. CASE i \in D /\ ~OpensFence(i, batch[i])
    BY <1>2, <2>2
  <2>3. CASE i \notin D
    BY <2>3, BatchRows
  <2> QED  BY <2>1, <2>2, <2>3
<1>5. ASSUME NEW i \in Items, NEW c \in Contents, <<i, c>> \in escalations' PROVE fence'[i] = c
  <2>1. CASE <<i, c>> \in escalations
    BY <1>3, <1>4, <2>1
  <2>2. CASE i \in D /\ OpensFence(i, batch[i]) /\ c = batch[i]
    BY <1>2, <2>2
  <2> QED  BY <1>1, <1>5, <2>1, <2>2
<1>6. ASSUME NEW e \in outbox PROVE e.version <= items'[e.item].version /\ Owned(e)'
  <2>1. e.item \in Items /\ e.version \in Nat /\ e.content \in Contents
    BY DEF IntakeInv, IntakeIsSound, IntakeTypeOK, Event
  <2>2. e.version <= items[e.item].version /\ Owned(e)
    BY DEF IntakeInv, IntakeIsSound, EventsArePast, ChangeIsOwned
  <2>3. /\ items[e.item].version \in Nat /\ items'[e.item].version \in Nat
        /\ items'[e.item].version >= items[e.item].version
        /\ items[e.item].accepted \/ items[e.item].state = "REFUSED"
              => items'[e.item] = items[e.item]
    BY <2>1, BatchItems DEF Work
  <2>4. e.content # NoContent
    BY <2>1
  <2>5. e.version <= items'[e.item].version
    BY <2>1, <2>2, <2>3
  <2>6. Owned(e)'
    BY <1>1, <1>4, <2>1, <2>2, <2>3, <2>4
  <2> QED  BY <2>5, <2>6
<1>7. ASSUME NEW e \in outbox', e \notin outbox PROVE e.version <= items'[e.item].version /\ Owned(e)'
  <2>1. PICK i \in D : Emits(i, batch[i]) /\ e = SourceEvent(i, batch[i])
    BY <1>1, <1>7
  <2>2. /\ e.item = i /\ e.kind = OutcomeOf(i, batch[i]) /\ e.content = batch[i]
        /\ e.retained = items[i].snap /\ e.version = VersionAfter(i, batch[i])
    BY <2>1 DEF SourceEvent
  <2>3. /\ items'[i].version >= VersionAfter(i, batch[i]) /\ VersionAfter(i, batch[i]) \in Nat
        /\ items'[i].version \in Nat
    BY <1>2, WorkAfterIsWork DEF Work
  <2>4. ASSUME e.kind = "AUTHORITY_REEVALUATION_REQUIRED"
        PROVE  /\ items'[i] = items[i] /\ (items[i].accepted \/ items[i].state = "REFUSED")
               /\ items[i].accepted => OpensFence(i, batch[i])
    <3>1. OutcomeOf(i, batch[i]) = "AUTHORITY_REEVALUATION_REQUIRED"
      BY <2>2, <2>4
    <3>2. /\ i \in Items /\ batch[i] \in Contents /\ Persists(i, batch[i])
          /\ items'[i] = WorkAfter(i, batch[i])
      BY <1>2
    <3>3. /\ items[i].accepted \/ items[i].state = "REFUSED"
          /\ WorkAfter(i, batch[i]) = items[i]
          /\ OpensFence(i, batch[i]) <=> Emits(i, batch[i]) /\ items[i].accepted
      BY <3>1, <3>2, OutcomeIsOne
    <3> QED  BY <2>1, <3>2, <3>3
  <2>5. ASSUME OpensFence(i, batch[i])
        PROVE  /\ fence'[i] = batch[i]
               /\ \E x \in {batch[i], NoContent} : <<i, x>> \in escalations'
    <3>1. CASE ~Escalated(i)
      BY <1>1, <1>2, <2>5, <3>1
    <3>2. CASE Escalated(i)
      <4>1. PICK x \in Candidates : <<i, x>> \in escalations
        BY <3>2 DEF Escalated
      <4>2. x = NoContent \/ fence[i] = x
        BY <1>2, <1>3, <4>1 DEF Candidates
      <4>3. x \in {batch[i], NoContent}
        BY <1>2, <2>5, <4>2 DEF Persists, FenceAgrees
      <4> QED  BY <1>1, <1>2, <2>5, <4>1, <4>3
    <3> QED  BY <3>1, <3>2
  <2>6. Owned(e)'
    BY <2>2, <2>4, <2>5
  <2> QED  BY <2>2, <2>3, <2>6
<1>8. EventsArePast'
  BY <1>6, <1>7 DEF EventsArePast
<1>9. ChangeIsOwned'
  BY <1>5, <1>6, <1>7 DEF ChangeIsOwned
<1> QED  BY <1>8, <1>9

EventsOf(i) == {e \in outbox : e.item = i}

\* An item's events grow by the event of its snapshot, if there is one.
LEMMA EventsGrow ==
    ASSUME IntakeInv, NEW D \in SUBSET Items, NEW batch \in [D -> Contents], Persist(batch),
           NEW i \in Items
    PROVE  /\ i \in D /\ Emits(i, batch[i]) =>
                 /\ EventsOf(i)' = EventsOf(i) \cup {SourceEvent(i, batch[i])}
                 /\ SourceEvent(i, batch[i]) \notin EventsOf(i)
                 /\ SourceEvent(i, batch[i]) \in outbox'
           /\ ~(i \in D /\ Emits(i, batch[i])) => EventsOf(i)' = EventsOf(i)
<1>1. outbox' = outbox \cup {SourceEvent(j, batch[j]) : j \in {k \in D : Emits(k, batch[k])}}
  BY BatchRows
<1>2. \A j \in D : SourceEvent(j, batch[j]).item = j
  BY DEF SourceEvent
<1>3. CASE i \in D /\ Emits(i, batch[i])
  <2>1. SourceEvent(i, batch[i]) \notin outbox
    BY <1>3 DEF Emits, Recorded
  <2> QED  BY <1>1, <1>2, <1>3, <2>1 DEF EventsOf
<1>4. CASE ~(i \in D /\ Emits(i, batch[i]))
  BY <1>1, <1>2, <1>4 DEF EventsOf
<1> QED  BY <1>3, <1>4

\* What is said of one item's audit.
FactsTell(i) ==
    /\ Len(audit[i]) = Cardinality(EventsOf(i)) /\ IsFiniteSet(EventsOf(i))
    /\ \A n \in 1..Len(audit[i]) :
           \E e \in outbox : /\ e.item = i /\ e.kind = audit[i][n].action
                             /\ e.content = audit[i][n].after
                             /\ e.retained = audit[i][n].before
    /\ \A n \in 2..Len(audit[i]) :
           audit[i][n - 1].action # "AUTHORITY_REEVALUATION_REQUIRED"
               => audit[i][n].before = audit[i][n - 1].after
    /\ audit[i] # <<>> /\ audit[i][Len(audit[i])].action # "AUTHORITY_REEVALUATION_REQUIRED"
          => audit[i][Len(audit[i])].after = items[i].snap

LEMMA AuditTells ==
    ASSUME audit \in [Items -> Seq(AuditFact)], AuditTellsTheHistory, FactsAreCurrent, NEW i \in Items
    PROVE  FactsTell(i)
<1>1. DOMAIN audit[i] = 1..Len(audit[i])
  BY LenProperties
<1>2. Len(audit[i]) = Cardinality(EventsOf(i)) /\ IsFiniteSet(EventsOf(i))
  BY DEF AuditTellsTheHistory, FactsAreCurrent, EventsOf
<1>3. \A n \in 1..Len(audit[i]) :
          \E e \in outbox : /\ e.item = i /\ e.kind = audit[i][n].action
                            /\ e.content = audit[i][n].after
                            /\ e.retained = audit[i][n].before
  BY <1>1 DEF AuditTellsTheHistory
<1>4. \A n \in 2..Len(audit[i]) :
          audit[i][n - 1].action # "AUTHORITY_REEVALUATION_REQUIRED"
              => audit[i][n].before = audit[i][n - 1].after
  BY DEF AuditTellsTheHistory
<1>5. audit[i] # <<>> /\ audit[i][Len(audit[i])].action # "AUTHORITY_REEVALUATION_REQUIRED"
          => audit[i][Len(audit[i])].after = items[i].snap
  BY DEF FactsAreCurrent
<1> QED  BY <1>2, <1>3, <1>4, <1>5 DEF FactsTell

LEMMA BatchKeepsFacts ==
    ASSUME IntakeInv, NEW D \in SUBSET Items, NEW batch \in [D -> Contents], Persist(batch)
    PROVE  AuditTellsTheHistory' /\ FactsAreCurrent'
<1>1. audit \in [Items -> Seq(AuditFact)] /\ (audit \in [Items -> Seq(AuditFact)])'
  BY BatchTypes DEF IntakeInv, IntakeIsSound, IntakeTypeOK
<1>2. \A i \in Items : FactsTell(i)
  BY <1>1, AuditTells DEF IntakeInv, IntakeIsSound
<1>3. ASSUME NEW i \in Items PROVE FactsTell(i)'
  <2> DEFINE s == audit[i]
             c == batch[i]
             f == [action |-> OutcomeOf(i, c), before |-> items[i].snap, after |-> c]
  <2>1. outbox \subseteq outbox'
    BY DEF Persist
  <2>2. s \in Seq(AuditFact) /\ Len(s) \in Nat
    BY <1>1, LenProperties
  <2>3. CASE i \in D /\ Emits(i, c)
    <3>1. /\ c \in Contents /\ Persists(i, c) /\ items'[i] = WorkAfter(i, c)
          /\ audit'[i] = Append(s, f)
      BY <2>3, BatchRows DEF AuditAfter
    <3>2. /\ f \in AuditFact /\ f.action = OutcomeOf(i, c) /\ f.before = items[i].snap /\ f.after = c
          /\ SourceEvent(i, c).item = i /\ SourceEvent(i, c).kind = OutcomeOf(i, c)
          /\ SourceEvent(i, c).content = c /\ SourceEvent(i, c).retained = items[i].snap
      BY <3>1, EventIsEvent
    <3>3. OutcomeOf(i, c) # "AUTHORITY_REEVALUATION_REQUIRED" => items'[i].snap = c
      BY <2>3, <3>1, WorkAfterIsWork
    <3>4. /\ EventsOf(i)' = EventsOf(i) \cup {SourceEvent(i, c)}
          /\ SourceEvent(i, c) \notin EventsOf(i) /\ SourceEvent(i, c) \in outbox'
      BY <2>3, EventsGrow
    <3>5. IsFiniteSet(EventsOf(i)') /\ Cardinality(EventsOf(i)') = Len(s) + 1
      <4> DEFINE S == EventsOf(i)
                 x == SourceEvent(i, c)
      <4>1. IsFiniteSet(S) /\ Cardinality(S) = Len(s)
        BY <1>2 DEF FactsTell
      <4>2. x \notin S /\ EventsOf(i)' = S \cup {x}
        BY <3>4
      <4> HIDE DEF S, x
      <4>3. IsFiniteSet(S \cup {x}) /\ Cardinality(S \cup {x}) = Cardinality(S) + 1
        BY <4>1, <4>2, FS_AddElement
      <4> QED  BY <4>1, <4>2, <4>3
    <3> HIDE DEF f
    <3>6. /\ Len(Append(s, f)) = Len(s) + 1 /\ Append(s, f)[Len(s) + 1] = f
          /\ \A n \in 1..Len(s) : Append(s, f)[n] = s[n]
          /\ Append(s, f) # <<>>
      BY <2>2, <3>2
    <3>7. ASSUME NEW n \in 1..(Len(s) + 1)
          PROVE  \E e \in outbox' : /\ e.item = i /\ e.kind = audit'[i][n].action
                                    /\ e.content = audit'[i][n].after
                                    /\ e.retained = audit'[i][n].before
      <4>1. CASE n = Len(s) + 1
        BY <3>1, <3>2, <3>4, <3>6, <4>1
      <4>2. CASE n # Len(s) + 1
        <5>1. n \in 1..Len(s) /\ audit'[i][n] = s[n]
          BY <2>2, <3>1, <3>6, <4>2
        <5> QED  BY <1>2, <2>1, <5>1 DEF FactsTell
      <4> QED  BY <4>1, <4>2
    <3>8. ASSUME NEW n \in 2..(Len(s) + 1),
                 audit'[i][n - 1].action # "AUTHORITY_REEVALUATION_REQUIRED"
          PROVE  audit'[i][n].before = audit'[i][n - 1].after
      <4>1. n - 1 \in 1..Len(s) /\ audit'[i][n - 1] = s[n - 1]
        BY <2>2, <3>1, <3>6
      <4>2. CASE n = Len(s) + 1
        <5>1. s # <<>> /\ n - 1 = Len(s)
          BY <2>2, <4>1, <4>2
        <5>2. s[Len(s)].after = items[i].snap
          BY <1>2, <3>8, <4>1, <5>1 DEF FactsTell
        <5> QED  BY <3>1, <3>2, <3>6, <4>1, <4>2, <5>1, <5>2
      <4>3. CASE n # Len(s) + 1
        <5>1. n \in 2..Len(s) /\ audit'[i][n] = s[n]
          BY <2>2, <3>1, <3>6, <4>3
        <5> QED  BY <1>2, <3>8, <4>1, <5>1 DEF FactsTell
      <4> QED  BY <4>2, <4>3
    <3>9. audit'[i][Len(s) + 1].action # "AUTHORITY_REEVALUATION_REQUIRED"
              => audit'[i][Len(s) + 1].after = items'[i].snap
      BY <3>1, <3>2, <3>3, <3>6
    <3>10. Len(audit'[i]) = Len(s) + 1
      BY <3>1, <3>6
    <3> QED  BY <3>5, <3>7, <3>8, <3>9, <3>10 DEF FactsTell
  <2>4. CASE ~(i \in D /\ Emits(i, c))
    <3>1. audit'[i] = s
      <4>1. CASE i \in D
        <5>1. audit'[i] = AuditAfter(i, c) /\ ~Emits(i, c)
          BY <2>4, <4>1, BatchRows
        <5> QED  BY <5>1 DEF AuditAfter
      <4>2. CASE i \notin D
        BY <4>2, BatchRows
      <4> QED  BY <4>1, <4>2
    <3>2. items'[i] = items[i]
      <4>1. CASE i \in D
        <5>1. c \in Contents /\ Persists(i, c) /\ items'[i] = WorkAfter(i, c)
          BY <4>1, BatchRows
        <5> QED  BY <2>4, <4>1, <5>1, WorkAfterIsWork
      <4>2. CASE i \notin D
        BY <4>2, BatchRows
      <4> QED  BY <4>1, <4>2
    <3>3. EventsOf(i)' = EventsOf(i)
      BY <2>4, EventsGrow
    <3>4. FactsTell(i)
      BY <1>2
    <3>5. Len(audit'[i]) = Cardinality(EventsOf(i)') /\ IsFiniteSet(EventsOf(i)')
      BY <3>1, <3>3, <3>4 DEF FactsTell
    <3>6. \A n \in 1..Len(audit'[i]) :
              \E e \in outbox' : /\ e.item = i /\ e.kind = audit'[i][n].action
                                 /\ e.content = audit'[i][n].after
                                 /\ e.retained = audit'[i][n].before
      BY <2>1, <3>1, <3>4 DEF FactsTell
    <3>7. \A n \in 2..Len(audit'[i]) :
              audit'[i][n - 1].action # "AUTHORITY_REEVALUATION_REQUIRED"
                  => audit'[i][n].before = audit'[i][n - 1].after
      BY <3>1, <3>4 DEF FactsTell
    <3>8. audit'[i] # <<>> /\ audit'[i][Len(audit'[i])].action # "AUTHORITY_REEVALUATION_REQUIRED"
              => audit'[i][Len(audit'[i])].after = items'[i].snap
      BY <3>1, <3>2, <3>4 DEF FactsTell
    <3> QED  BY <3>5, <3>6, <3>7, <3>8 DEF FactsTell
  <2> QED  BY <2>3, <2>4
<1>4. \A i \in Items : FactsTell(i)'
  BY <1>3
<1>5. \A i \in Items : DOMAIN audit'[i] = 1..Len(audit'[i])
  BY <1>1, LenProperties
<1>6. FactsAreCurrent'
  BY <1>4 DEF FactsTell, FactsAreCurrent, EventsOf
<1>7. AuditTellsTheHistory'
  <2> SUFFICES ASSUME NEW i \in Items
               PROVE  /\ Len(audit'[i]) = Cardinality({e \in outbox' : e.item = i})
                      /\ \A n \in DOMAIN audit'[i] :
                             \E e \in outbox' : /\ e.item = i /\ e.kind = audit'[i][n].action
                                                /\ e.content = audit'[i][n].after
                                                /\ e.retained = audit'[i][n].before
                      /\ \A n \in 2..Len(audit'[i]) :
                             audit'[i][n - 1].action # "AUTHORITY_REEVALUATION_REQUIRED"
                                 => audit'[i][n].before = audit'[i][n - 1].after
    BY DEF AuditTellsTheHistory
  <2>1. FactsTell(i)' /\ DOMAIN audit'[i] = 1..Len(audit'[i])
    BY <1>4, <1>5
  <2>2. Len(audit'[i]) = Cardinality({e \in outbox' : e.item = i})
    BY <2>1 DEF FactsTell, EventsOf
  <2>3. \A n \in DOMAIN audit'[i] :
            \E e \in outbox' : /\ e.item = i /\ e.kind = audit'[i][n].action
                               /\ e.content = audit'[i][n].after
                               /\ e.retained = audit'[i][n].before
    BY <2>1 DEF FactsTell
  <2> QED  BY <2>1, <2>2, <2>3 DEF FactsTell
<1> QED  BY <1>6, <1>7

LEMMA BatchKeepsSnapshots ==
    ASSUME IntakeInv, NEW D \in SUBSET Items, NEW batch \in [D -> Contents], Persist(batch)
    PROVE  /\ \A i \in Items : items'[i].state # "NONE" => <<i, items'[i].snap>> \in snapshots'
           /\ \A i \in Items, c, d \in Contents :
                  <<i, c>> \in snapshots' /\ <<i, d>> \in snapshots' /\ c.rev = d.rev => c = d
<1>1. snapshots' = snapshots \cup {<<i, batch[i]>> : i \in D}
  BY BatchRows
<1>2. \A i \in D : batch[i] \in Contents /\ Persists(i, batch[i])
  BY BatchRows
<1>3. /\ \A i \in Items : items[i].state # "NONE" => <<i, items[i].snap>> \in snapshots
      /\ \A i \in Items, c, d \in Contents :
             <<i, c>> \in snapshots /\ <<i, d>> \in snapshots /\ c.rev = d.rev => c = d
  BY DEF IntakeInv, IntakeIsSound, OneItemPerIdentity
<1>4. ASSUME NEW i \in Items, items'[i].state # "NONE" PROVE <<i, items'[i].snap>> \in snapshots'
  <2>1. items'[i] = items[i] \/ (i \in D /\ items'[i].snap = batch[i])
    BY BatchItems
  <2> QED  BY <1>1, <1>3, <1>4, <2>1
<1>5. ASSUME NEW i \in Items, NEW c \in Contents, NEW d \in Contents,
             <<i, c>> \in snapshots', <<i, d>> \in snapshots', c.rev = d.rev
      PROVE  c = d
  <2>1. /\ <<i, c>> \in snapshots \/ (i \in D /\ c = batch[i])
        /\ <<i, d>> \in snapshots \/ (i \in D /\ d = batch[i])
    BY <1>1, <1>5
  <2>2. ASSUME i \in D, NEW x \in Contents, <<i, x>> \in snapshots, x.rev = batch[i].rev
        PROVE  x = batch[i]
    BY <1>2, <2>2 DEF Persists, RevisionIsFree
  <2>3. CASE <<i, c>> \in snapshots /\ <<i, d>> \in snapshots
    BY <1>3, <1>5, <2>3
  <2>4. CASE <<i, c>> \in snapshots /\ i \in D /\ d = batch[i]
    BY <1>5, <2>2, <2>4
  <2>5. CASE <<i, d>> \in snapshots /\ i \in D /\ c = batch[i]
    BY <1>5, <2>2, <2>5
  <2> QED  BY <2>1, <2>3, <2>4, <2>5
<1> QED  BY <1>4, <1>5

\* A batch keeps everything but what the submissions' records say.
LEMMA BatchKeepsRows ==
    ASSUME IntakeInv, NEW D \in SUBSET Items, NEW batch \in [D -> Contents], Persist(batch),
           provider' = provider, sync' \in [Syncs -> Sync], seen' = seen,
           submissions' \in [SubmitKeys -> SubmitRecord \cup {NoSubmission}],
           DiscoveriesExist',
           \A k, l \in SubmitKeys :
               k # l /\ submissions'[k] # NoSubmission /\ submissions'[l] # NoSubmission
                 => ~(/\ submissions'[k].receipt.disposition = "DISCOVERED"
                      /\ submissions'[l].receipt.disposition = "DISCOVERED"
                      /\ submissions'[k].receipt.item = submissions'[l].receipt.item)
    PROVE  IntakeInv'
<1>1. IntakeTypeOK'
  BY BatchTypes DEF IntakeInv, IntakeIsSound, IntakeTypeOK
<1>2. ItemsAreWhole' /\ ReadinessIsCurrent' /\ ViewsAreOfVersions'
  BY BatchKeepsItems
<1>3. EventsArePast' /\ ChangeIsOwned'
  BY BatchKeepsEvents
<1>4. AuditTellsTheHistory' /\ FactsAreCurrent'
  BY BatchKeepsFacts
<1>5. OneItemPerIdentity'
  BY BatchKeepsSnapshots DEF OneItemPerIdentity
<1> QED  BY <1>1, <1>2, <1>3, <1>4, <1>5 DEF IntakeInv, IntakeIsSound

-----------------------------------------------------------------------------
(* The intake: the sync job.                                               *)

\* A collection names listed issues and their contents.
LEMMA CollectedIsBatch ==
    /\ \A got \in Collected : DOMAIN got \in SUBSET Listed /\ got \in [DOMAIN got -> Contents]
    /\ \A D \in SUBSET Listed : \A got \in [D -> Contents] : got \in Collected
    /\ Nothing \in Collected
<1>1. \A D \in SUBSET Listed : \A got \in [D -> Contents] : got \in Collected
  BY DEF Collected
<1>2. Nothing \in [{} -> Contents]
  BY DEF Nothing
<1>3. {} \in SUBSET Listed
  OBVIOUS
<1>4. Nothing \in Collected
  BY <1>1, <1>2, <1>3
<1>5. ASSUME NEW got \in Collected
      PROVE  DOMAIN got \in SUBSET Listed /\ got \in [DOMAIN got -> Contents]
  <2>1. PICK D \in SUBSET Listed : got \in [D -> Contents]
    BY DEF Collected
  <2> QED  BY <2>1
<1> QED  BY <1>1, <1>4, <1>5

\* Pages are merged into a collection.
LEMMA MergeIsCollected ==
    ASSUME provider \in [Listed -> Contents], NEW got \in Collected, NEW page \in SUBSET Listed
    PROVE  Merge(got, page) \in Collected
<1> DEFINE D == DOMAIN got \cup page
<1>1. D \in SUBSET Listed /\ got \in [DOMAIN got -> Contents]
  BY CollectedIsBatch
<1>2. Merge(got, page) \in [D -> Contents]
  BY <1>1 DEF Merge
<1> HIDE DEF D
<1> QED  BY <1>1, <1>2, CollectedIsBatch

\* Without a fact, an event or another snapshot, the audit still tells.
LEMMA SameFacts ==
    ASSUME AuditTellsTheHistory, FactsAreCurrent, audit' = audit, outbox' = outbox,
           \A i \in Items : items'[i].snap = items[i].snap
    PROVE  AuditTellsTheHistory' /\ FactsAreCurrent'
<1>1. FactsAreCurrent'
  BY DEF FactsAreCurrent
<1>2. AuditTellsTheHistory'
  <2> SUFFICES ASSUME NEW i \in Items
               PROVE  /\ Len(audit'[i]) = Cardinality({e \in outbox' : e.item = i})
                      /\ \A n \in DOMAIN audit'[i] :
                             \E e \in outbox' : /\ e.item = i /\ e.kind = audit'[i][n].action
                                                /\ e.content = audit'[i][n].after
                                                /\ e.retained = audit'[i][n].before
                      /\ \A n \in 2..Len(audit'[i]) :
                             audit'[i][n - 1].action # "AUTHORITY_REEVALUATION_REQUIRED"
                                 => audit'[i][n].before = audit'[i][n - 1].after
    BY DEF AuditTellsTheHistory
  <2>1. Len(audit'[i]) = Cardinality({e \in outbox' : e.item = i})
    BY DEF AuditTellsTheHistory
  <2>2. \A n \in DOMAIN audit[i] :
            \E e \in outbox : /\ e.item = i /\ e.kind = audit[i][n].action
                              /\ e.content = audit[i][n].after
                              /\ e.retained = audit[i][n].before
    BY DEF AuditTellsTheHistory
  <2>3. \A n \in 2..Len(audit[i]) :
            audit[i][n - 1].action # "AUTHORITY_REEVALUATION_REQUIRED"
                => audit[i][n].before = audit[i][n - 1].after
    BY DEF AuditTellsTheHistory
  <2> QED  BY <2>1, <2>2, <2>3
<1> QED  BY <1>1, <1>2

\* A step that leaves the rows alone keeps what is said of them.
LEMMA SameRowsKeepInv ==
    ASSUME IntakeInv, provider' \in [Listed -> Contents], sync' \in [Syncs -> Sync],
           UNCHANGED <<snapshots, items, outbox, audit, fence, escalations, submissions, seen>>
    PROVE  IntakeInv'
<1>1. /\ snapshots' = snapshots /\ items' = items /\ outbox' = outbox /\ audit' = audit
      /\ fence' = fence /\ escalations' = escalations /\ submissions' = submissions /\ seen' = seen
  OBVIOUS
<1>2. IntakeTypeOK'
  BY <1>1 DEF IntakeInv, IntakeIsSound, IntakeTypeOK
<1>3. ReadinessIsCurrent' /\ ChangeIsOwned' /\ ItemsAreWhole' /\ EventsArePast'
  BY <1>1 DEF IntakeInv, IntakeIsSound, ReadinessIsCurrent, ChangeIsOwned, ItemsAreWhole,
     EventsArePast
<1>4. AuditTellsTheHistory' /\ FactsAreCurrent'
  BY <1>1, SameFacts DEF IntakeInv, IntakeIsSound
<1>5. OneItemPerIdentity' /\ ViewsAreOfVersions' /\ DiscoveriesExist'
  BY <1>1 DEF IntakeInv, IntakeIsSound, OneItemPerIdentity, ViewsAreOfVersions, DiscoveriesExist
<1> QED  BY <1>2, <1>3, <1>4, <1>5 DEF IntakeInv, IntakeIsSound

\* The steps of a sync that touch nothing but its job.
LEMMA SyncJobKeepsInv ==
    ASSUME IntakeInv, NEW s \in Syncs, QueueSync(s) \/ ClaimSync(s) \/ FetchPage(s) \/ FailSync(s)
    PROVE  IntakeInv'
<1>1. UNCHANGED <<provider, snapshots, items, outbox, audit, fence, escalations, submissions, seen>>
  BY DEF QueueSync, ClaimSync, FetchPage, FailSync
<1>2. /\ sync \in [Syncs -> Sync] /\ sync[s] \in Sync /\ provider \in [Listed -> Contents]
      /\ Nothing \in Collected
  BY CollectedIsBatch DEF IntakeInv, IntakeIsSound, IntakeTypeOK
<1>3. sync' \in [Syncs -> Sync]
  <2>1. CASE QueueSync(s)
    BY <1>2, <2>1 DEF QueueSync, Sync
  <2>2. CASE ClaimSync(s)
    <3> DEFINE n == [status |-> "RUNNING", attempts |-> sync[s].attempts + 1, pages |-> 0,
                     whole |-> FALSE, got |-> Nothing]
    <3>1. sync' = [sync EXCEPT ![s] = n]
      BY <2>2 DEF ClaimSync
    <3>2. n \in Sync
      BY <1>2, <2>2 DEF ClaimSync, Sync
    <3> HIDE DEF n
    <3> QED  BY <1>2, <3>1, <3>2
  <2>3. CASE FetchPage(s)
    <3>1. PICK page \in SUBSET Listed, more \in BOOLEAN :
              sync' = [sync EXCEPT ![s].pages = @ + 1, ![s].whole = ~more,
                                   ![s].got = Merge(@, page)]
      BY <2>3 DEF FetchPage
    <3> DEFINE n == [sync[s] EXCEPT !.pages = sync[s].pages + 1, !.whole = ~more,
                                    !.got = Merge(sync[s].got, page)]
    <3>2. sync' = [sync EXCEPT ![s] = n]
      BY <1>2, <3>1 DEF Sync
    <3>3. sync[s].got \in Collected /\ sync[s].pages + 1 \in 0..MaxPages
      <4>1. sync[s].got \in Collected /\ sync[s].pages \in 0..MaxPages
        BY <1>2 DEF Sync
      <4>2. sync[s].pages < MaxPages
        BY <2>3 DEF FetchPage, PageAllowed
      <4> QED  BY <4>1, <4>2
    <3>4. Merge(sync[s].got, page) \in Collected
      BY <1>2, <3>3, MergeIsCollected
    <3>5. n \in Sync
      BY <1>2, <3>3, <3>4 DEF Sync
    <3> HIDE DEF n
    <3> QED  BY <1>2, <3>2, <3>5
  <2>4. CASE FailSync(s)
    <3>1. FailedSync(sync[s]) \in Sync
      <4>1. PICK t \in {"NONE", "PENDING", "RUNNING", "COMPLETED", "DEAD"} :
                FailedSync(sync[s]) = [sync[s] EXCEPT !.status = t, !.pages = 0, !.whole = FALSE,
                                                      !.got = Nothing]
        BY DEF FailedSync
      <4>2. 0 \in 0..MaxPages
        OBVIOUS
      <4> QED  BY <1>2, <4>1, <4>2 DEF Sync
    <3> QED  BY <1>2, <2>4, <3>1 DEF FailSync
  <2> QED  BY <2>1, <2>2, <2>3, <2>4
<1> QED  BY <1>1, <1>2, <1>3, SameRowsKeepInv

\* An edit is a content the provider may list.
LEMMA EditIssueKeepsInv ==
    ASSUME IntakeInv, NEW i \in Listed, EditIssue(i)
    PROVE  IntakeInv'
<1>1. provider' \in [Listed -> Contents] /\ sync' \in [Syncs -> Sync]
  BY DEF EditIssue, IntakeInv, IntakeIsSound, IntakeTypeOK
<1> QED  BY <1>1, SameRowsKeepInv DEF EditIssue

\* Every item whose discovery is on a receipt is still there after a batch.
LEMMA BatchKeepsDiscoveries ==
    ASSUME IntakeInv, NEW D \in SUBSET Items, NEW batch \in [D -> Contents], Persist(batch),
           NEW k \in SubmitKeys, submissions[k] # NoSubmission
    PROVE  /\ submissions[k].receipt.item \in Items
           /\ items'[submissions[k].receipt.item].state # "NONE"
<1>1. /\ submissions[k].receipt.item \in Items
      /\ items[submissions[k].receipt.item].state # "NONE"
  BY DEF IntakeInv, DiscoveriesExist
<1> QED  BY <1>1, BatchItems

LEMMA PersistSyncKeepsInv ==
    ASSUME IntakeInv, NEW s \in Syncs, PersistSync(s)
    PROVE  IntakeInv'
<1> DEFINE got == sync[s].got
           D == DOMAIN got
<1>1. sync \in [Syncs -> Sync] /\ sync[s] \in Sync
  BY DEF IntakeInv, IntakeIsSound, IntakeTypeOK
<1>2. got \in Collected
  BY <1>1 DEF Sync
<1>3. D \in SUBSET Items /\ got \in [D -> Contents]
  BY <1>2, CollectedIsBatch DEF Items
<1>4. /\ Persist(got) /\ provider' = provider /\ submissions' = submissions /\ seen' = seen
      /\ sync' = [sync EXCEPT ![s].status = "COMPLETED", ![s].got = Nothing]
  BY DEF PersistSync
<1>5. sync' \in [Syncs -> Sync]
  <2>1. Nothing \in Collected
    BY CollectedIsBatch
  <2> QED  BY <1>1, <1>4, <2>1 DEF Sync
<1>6. submissions' \in [SubmitKeys -> SubmitRecord \cup {NoSubmission}]
  BY <1>4 DEF IntakeInv, IntakeIsSound, IntakeTypeOK
<1> HIDE DEF D, got
<1>7. DiscoveriesExist'
  BY <1>3, <1>4, BatchKeepsDiscoveries DEF DiscoveriesExist
<1>8. \A k, l \in SubmitKeys :
          k # l /\ submissions'[k] # NoSubmission /\ submissions'[l] # NoSubmission
            => ~(/\ submissions'[k].receipt.disposition = "DISCOVERED"
                 /\ submissions'[l].receipt.disposition = "DISCOVERED"
                 /\ submissions'[k].receipt.item = submissions'[l].receipt.item)
  BY <1>4 DEF IntakeInv, IntakeIsSound, OneItemPerIdentity
<1> QED  BY <1>3, <1>4, <1>5, <1>6, <1>7, <1>8, BatchKeepsRows

-----------------------------------------------------------------------------
(* The intake: a submission.                                               *)

\* A key's record is the receipt of what its snapshot did.
LEMMA SubmitRecords ==
    ASSUME IntakeInv, NEW k \in SubmitKeys, NEW i \in Items, NEW c \in Contents, Persists(i, c),
           submissions' = Completed(k, i, c)
    PROVE  /\ submissions' \in [SubmitKeys -> SubmitRecord \cup {NoSubmission}]
           /\ submissions'[k].receipt.item = i
           /\ submissions'[k].receipt.disposition = "DISCOVERED" => items[i].state = "NONE"
           /\ \A l \in SubmitKeys : l # k => submissions'[l] = submissions[l]
<1> DEFINE r == SubmissionReceipt(i, c)
<1>1. submissions \in [SubmitKeys -> SubmitRecord \cup {NoSubmission}]
  BY DEF IntakeInv, IntakeIsSound, IntakeTypeOK
<1>2. OutcomeOf(i, c) \in Outcomes /\ VersionAfter(i, c) \in Nat /\ items[i].accepted \in BOOLEAN
  <2>1. OutcomeOf(i, c) \in Outcomes
    BY DEF OutcomeOf, Outcomes
  <2>2. VersionAfter(i, c) \in Nat
    BY WorkAfterIsWork
  <2> QED  BY <2>1, <2>2 DEF IntakeInv, IntakeIsSound, IntakeTypeOK, Work
<1>3. r \in SubmitReceipt /\ r.item = i /\ r.disposition = OutcomeOf(i, c)
  BY <1>2 DEF SubmissionReceipt, SubmitReceipt
<1>4. OutcomeOf(i, c) = "DISCOVERED" => items[i].state = "NONE"
  BY DEF OutcomeOf
<1>5. submissions' = [submissions EXCEPT ![k] = [request |-> <<i, c>>, receipt |-> r]]
  BY DEF Completed
<1> HIDE DEF r
<1>6. [request |-> <<i, c>>, receipt |-> r] \in SubmitRecord
  BY <1>3 DEF SubmitRecord
<1>7. submissions'[k] = [request |-> <<i, c>>, receipt |-> r]
  BY <1>1, <1>5
<1> QED  BY <1>1, <1>3, <1>4, <1>5, <1>6, <1>7

LEMMA SubmitKeepsInv ==
    ASSUME IntakeInv, NEW k \in SubmitKeys, NEW i \in Submitted, NEW c \in Contents, Submit(k, i, c)
    PROVE  IntakeInv'
<1> DEFINE batch == [j \in {i} |-> c]
<1>1. i \in Items /\ {i} \in SUBSET Items /\ batch \in [{i} -> Contents] /\ batch[i] = c
  BY DEF Items
<1>2. /\ Persist(batch) /\ submissions' = Completed(k, i, c) /\ Unclaimed(k)
      /\ provider' = provider /\ sync' = sync /\ seen' = seen
  BY DEF Submit
<1> HIDE DEF batch
<1>3. Persists(i, c)
  BY <1>1, <1>2, BatchRows
<1>4. /\ submissions' \in [SubmitKeys -> SubmitRecord \cup {NoSubmission}]
      /\ submissions'[k].receipt.item = i
      /\ submissions'[k].receipt.disposition = "DISCOVERED" => items[i].state = "NONE"
      /\ \A l \in SubmitKeys : l # k => submissions'[l] = submissions[l]
  BY <1>1, <1>2, <1>3, SubmitRecords
<1>5. DiscoveriesExist'
  <2> SUFFICES ASSUME NEW l \in SubmitKeys, submissions'[l] # NoSubmission
               PROVE  /\ submissions'[l].receipt.item \in Items
                      /\ items'[submissions'[l].receipt.item].state # "NONE"
    BY DEF DiscoveriesExist
  <2>1. CASE l = k
    <3>1. items'[i].state # "NONE"
      BY <1>1, <1>2, BatchItems
    <3> QED  BY <1>1, <1>4, <2>1, <3>1
  <2>2. CASE l # k
    <3>1. submissions'[l] = submissions[l]
      BY <1>4, <2>2
    <3> QED  BY <1>1, <1>2, <3>1, BatchKeepsDiscoveries
  <2> QED  BY <2>1, <2>2
<1>6. ASSUME NEW l \in SubmitKeys, l # k, submissions'[l] # NoSubmission,
             submissions'[k].receipt.disposition = "DISCOVERED"
      PROVE  submissions'[l].receipt.item # i
  <2>1. submissions'[l] = submissions[l]
    BY <1>4, <1>6
  <2>2. items[submissions[l].receipt.item].state # "NONE"
    BY <1>6, <2>1 DEF IntakeInv, DiscoveriesExist
  <2> QED  BY <1>4, <1>6, <2>1, <2>2
<1>7. ASSUME NEW l \in SubmitKeys, NEW m \in SubmitKeys, l # m,
             submissions'[l] # NoSubmission, submissions'[m] # NoSubmission
      PROVE  ~(/\ submissions'[l].receipt.disposition = "DISCOVERED"
               /\ submissions'[m].receipt.disposition = "DISCOVERED"
               /\ submissions'[l].receipt.item = submissions'[m].receipt.item)
  <2>1. CASE l = k
    BY <1>4, <1>6, <1>7, <2>1
  <2>2. CASE m = k
    BY <1>4, <1>6, <1>7, <2>2
  <2>3. CASE l # k /\ m # k
    BY <1>4, <1>7, <2>3 DEF IntakeInv, IntakeIsSound, OneItemPerIdentity
  <2> QED  BY <2>1, <2>2, <2>3
<1>8. sync' \in [Syncs -> Sync]
  BY <1>2 DEF IntakeInv, IntakeIsSound, IntakeTypeOK
<1>9. \A l, m \in SubmitKeys :
          l # m /\ submissions'[l] # NoSubmission /\ submissions'[m] # NoSubmission
            => ~(/\ submissions'[l].receipt.disposition = "DISCOVERED"
                 /\ submissions'[m].receipt.disposition = "DISCOVERED"
                 /\ submissions'[l].receipt.item = submissions'[m].receipt.item)
  BY <1>7
<1> QED  BY <1>1, <1>2, <1>4, <1>5, <1>8, <1>9, BatchKeepsRows

-----------------------------------------------------------------------------
(* The intake: the steps of an item.                                       *)

\* An item that moves to its next version, with the snapshot it has.
LEMMA ItemMovesKeepsInv ==
    ASSUME IntakeInv, NEW i \in Items, NEW w \in Work, items' = [items EXCEPT ![i] = w],
           items[i].state # "NONE", w.state # "NONE", w.snap = items[i].snap,
           w.version = items[i].version + 1, items[i].accepted => w.accepted,
           items[i].state = "REFUSED" => items[i].accepted,
           w.state \in Delivered => w.accepted,
           w.policy # NoContent => w.policy = w.snap,
           escalations' \in {escalations, escalations \cup {<<i, NoContent>>}},
           UNCHANGED <<provider, sync, snapshots, outbox, audit, fence, submissions, seen>>
    PROVE  IntakeInv'
<1>1. /\ provider' = provider /\ sync' = sync /\ snapshots' = snapshots /\ outbox' = outbox
      /\ audit' = audit /\ fence' = fence /\ submissions' = submissions /\ seen' = seen
  OBVIOUS
<1>2. items \in [Items -> Work] /\ items' \in [Items -> Work]
      /\ items'[i] = w /\ \A j \in Items : j # i => items'[j] = items[j]
  BY DEF IntakeInv, IntakeIsSound, IntakeTypeOK
<1>3. IntakeTypeOK'
  <2>1. escalations \subseteq Items \X Candidates /\ <<i, NoContent>> \in Items \X Candidates
    BY DEF IntakeInv, IntakeIsSound, IntakeTypeOK, Candidates
  <2>2. escalations' \subseteq Items \X Candidates
    BY <2>1
  <2> QED  BY <1>1, <1>2, <2>2 DEF IntakeInv, IntakeIsSound, IntakeTypeOK
<1>4. \A j \in Items : /\ items[j].version \in Nat /\ items'[j].version \in Nat
                       /\ items'[j].version >= items[j].version
                       /\ items'[j].version = items[j].version => items'[j] = items[j]
                       /\ items'[j].snap = items[j].snap
                       /\ items[j].accepted => items'[j].accepted
                       /\ items[j].state = "REFUSED" /\ ~items[j].accepted => items'[j] = items[j]
                       /\ items'[j].state = "NONE" <=> items[j].state = "NONE"
  BY <1>2 DEF Work
<1>5. ItemsAreWhole' /\ ReadinessIsCurrent'
  <2>1. ItemsAreWhole'
    BY <1>2 DEF IntakeInv, ItemsAreWhole
  <2>2. ReadinessIsCurrent'
    BY <1>2 DEF IntakeInv, IntakeIsSound, ReadinessIsCurrent
  <2> QED  BY <2>1, <2>2
<1>6. EventsArePast'
  <2> SUFFICES ASSUME NEW e \in outbox
               PROVE  e.version <= items'[e.item].version
    BY <1>1 DEF EventsArePast
  <2>1. e.item \in Items /\ e.version \in Nat
    BY DEF IntakeInv, IntakeIsSound, IntakeTypeOK, Event
  <2>2. e.version <= items[e.item].version
    BY DEF IntakeInv, EventsArePast
  <2> QED  BY <1>4, <2>1, <2>2
<1>7. ChangeIsOwned'
  <2>1. \A e \in outbox : e.item \in Items
    BY DEF IntakeInv, IntakeIsSound, IntakeTypeOK, Event
  <2>2. /\ escalations \subseteq escalations'
        /\ \A j \in Items, c \in Contents : <<j, c>> \in escalations' => <<j, c>> \in escalations
    OBVIOUS
  <2> QED  BY <1>1, <1>4, <2>1, <2>2 DEF IntakeInv, IntakeIsSound, ChangeIsOwned
<1>8. AuditTellsTheHistory' /\ FactsAreCurrent'
  BY <1>1, <1>4, SameFacts DEF IntakeInv, IntakeIsSound
<1>9. OneItemPerIdentity'
  BY <1>1, <1>4 DEF IntakeInv, IntakeIsSound, OneItemPerIdentity
<1>10. DiscoveriesExist'
  BY <1>1, <1>4 DEF IntakeInv, DiscoveriesExist
<1>11. ViewsAreOfVersions'
  <2> SUFFICES ASSUME NEW j \in Items
               PROVE  /\ seen[j].version <= items'[j].version
                      /\ seen[j].version = items'[j].version => seen[j].snap = items'[j].snap
    BY <1>1 DEF ViewsAreOfVersions
  <2>1. seen[j].version \in Nat
    BY DEF IntakeInv, IntakeIsSound, IntakeTypeOK, Views
  <2>2. /\ seen[j].version <= items[j].version
        /\ seen[j].version = items[j].version => seen[j].snap = items[j].snap
    BY DEF IntakeInv, ViewsAreOfVersions
  <2> QED  BY <1>4, <2>1, <2>2
<1> QED  BY <1>3, <1>5, <1>6, <1>7, <1>8, <1>9, <1>10, <1>11 DEF IntakeInv, IntakeIsSound

LEMMA EvaluateKeepsInv ==
    ASSUME IntakeInv, NEW i \in Items, EvaluateReadiness(i)
    PROVE  IntakeInv'
<1>1. /\ items \in [Items -> Work] /\ items[i] \in Work /\ items[i].version \in Nat
      /\ items[i].snap \in Candidates /\ NoContent \in Candidates
  BY DEF IntakeInv, IntakeIsSound, IntakeTypeOK, Work, Candidates
<1>2. PICK t \in {"READY", "NEEDS_SPEC", "WAITING_DEPENDENCY", "REFUSED"} :
          items' = [items EXCEPT ![i].state = t,
                                 ![i].policy = IF t = "READY" THEN items[i].snap ELSE NoContent,
                                 ![i].version = @ + 1]
  BY DEF EvaluateReadiness
<1> DEFINE p == IF t = "READY" THEN items[i].snap ELSE NoContent
           w == [items[i] EXCEPT !.state = t, !.policy = p, !.version = items[i].version + 1]
<1>3. t \in ItemStates /\ t # "NONE" /\ t \notin Delivered /\ p \in Candidates
      /\ (p # NoContent => p = items[i].snap)
  BY <1>1 DEF ItemStates, Requeueable, Delivered
<1>4. items[i].state \in {"DISCOVERED", "READINESS_PENDING"} /\ ~items[i].accepted
  BY <1>1 DEF EvaluateReadiness
<1>5. items' = [items EXCEPT ![i] = w]
  BY <1>1, <1>2
<1> HIDE DEF p
<1>6. w \in Work
  <2>1. items[i].version + 1 \in Nat
    BY <1>1
  <2> QED  BY <1>1, <1>3, <2>1 DEF Work
<1>7. /\ w.state = t /\ w.policy = p /\ w.version = items[i].version + 1
      /\ w.snap = items[i].snap /\ w.accepted = items[i].accepted
  BY <1>1 DEF Work
<1>8. UNCHANGED <<provider, sync, snapshots, outbox, audit, fence, escalations, submissions, seen>>
  BY DEF EvaluateReadiness
<1> HIDE DEF w
<1> QED  BY <1>3, <1>4, <1>5, <1>6, <1>7, <1>8, ItemMovesKeepsInv

LEMMA AcceptItemKeepsInv ==
    ASSUME IntakeInv, NEW i \in Items, AcceptWorkItem(i)
    PROVE  IntakeInv'
<1>1. /\ items \in [Items -> Work] /\ items[i] \in Work /\ items[i].version \in Nat
      /\ items[i].policy # NoContent => items[i].policy = items[i].snap
  BY DEF IntakeInv, IntakeIsSound, IntakeTypeOK, Work, ReadinessIsCurrent
<1> DEFINE w == [items[i] EXCEPT !.state = "ACCEPTED", !.accepted = TRUE,
                                 !.version = items[i].version + 1]
<1>2. items' = [items EXCEPT ![i] = w]
  BY <1>1 DEF AcceptWorkItem
<1>3. items[i].state = "READY"
  BY DEF AcceptWorkItem, AcceptGuard
<1>4. w \in Work
  <2>1. "ACCEPTED" \in ItemStates /\ items[i].version + 1 \in Nat
    BY <1>1 DEF ItemStates, Delivered
  <2> QED  BY <1>1, <2>1 DEF Work
<1>5. /\ w.state = "ACCEPTED" /\ w.policy = items[i].policy /\ w.version = items[i].version + 1
      /\ w.snap = items[i].snap /\ w.accepted = TRUE
  BY <1>1 DEF Work
<1>6. UNCHANGED <<provider, sync, snapshots, outbox, audit, fence, escalations, submissions, seen>>
  BY DEF AcceptWorkItem
<1> HIDE DEF w
<1> QED  BY <1>1, <1>2, <1>3, <1>4, <1>5, <1>6, ItemMovesKeepsInv

LEMMA AdvanceItemKeepsInv ==
    ASSUME IntakeInv, NEW i \in Items, AdvanceDelivery(i)
    PROVE  IntakeInv'
<1>1. /\ items \in [Items -> Work] /\ items[i] \in Work /\ items[i].version \in Nat
      /\ items[i].policy # NoContent => items[i].policy = items[i].snap
  BY DEF IntakeInv, IntakeIsSound, IntakeTypeOK, Work, ReadinessIsCurrent
<1>2. PICK t \in Moves(items[i].state) :
          items' = [items EXCEPT ![i].state = t, ![i].version = @ + 1]
  BY DEF AdvanceDelivery
<1> DEFINE w == [items[i] EXCEPT !.state = t, !.version = items[i].version + 1]
<1>3. items' = [items EXCEPT ![i] = w]
  BY <1>1, <1>2
<1>4. /\ items[i].accepted /\ items[i].state # "NONE"
      /\ t \in (Requeueable \cup Delivered \cup {"REFUSED"})
  <2>1. items[i].accepted
    BY DEF AdvanceDelivery
  <2>2. t \in (Requeueable \cup Delivered \cup {"REFUSED"})
    BY <1>2 DEF Moves, Requeueable, Delivered
  <2>3. items[i].state = "NONE" => Moves(items[i].state) = {}
    BY DEF Moves
  <2> QED  BY <1>2, <2>1, <2>2, <2>3
<1>5. w \in Work /\ t # "NONE"
  <2>1. t \in ItemStates /\ t # "NONE" /\ items[i].version + 1 \in Nat
    BY <1>1, <1>4 DEF ItemStates, Requeueable, Delivered
  <2> QED  BY <1>1, <2>1 DEF Work
<1>6. /\ w.state = t /\ w.policy = items[i].policy /\ w.version = items[i].version + 1
      /\ w.snap = items[i].snap /\ w.accepted = items[i].accepted
  BY <1>1 DEF Work
<1>7. /\ UNCHANGED <<provider, sync, snapshots, outbox, audit, fence, submissions, seen>>
      /\ escalations' \in {escalations, escalations \cup {<<i, NoContent>>}}
  BY DEF AdvanceDelivery
<1> HIDE DEF w
<1> QED  BY <1>1, <1>3, <1>4, <1>5, <1>6, <1>7, ItemMovesKeepsInv

LEMMA ReadItemKeepsInv ==
    ASSUME IntakeInv, NEW i \in Items, ReadWorkItem(i)
    PROVE  IntakeInv'
<1>1. /\ provider' = provider /\ sync' = sync /\ snapshots' = snapshots /\ items' = items
      /\ outbox' = outbox /\ audit' = audit /\ fence' = fence /\ escalations' = escalations
      /\ submissions' = submissions /\ seen' = [seen EXCEPT ![i] = View(i)]
  BY DEF ReadWorkItem
<1>2. /\ seen \in [Items -> Views] /\ items[i] \in Work /\ items[i].version \in Nat
      /\ items[i].snap \in Candidates
  BY DEF IntakeInv, IntakeIsSound, IntakeTypeOK, Work
<1>3. /\ View(i) \in Views /\ View(i).version = items[i].version /\ View(i).snap = items[i].snap
  BY <1>2 DEF View, Views
<1>4. /\ seen' \in [Items -> Views] /\ seen'[i] = View(i)
      /\ \A j \in Items : j # i => seen'[j] = seen[j]
  BY <1>1, <1>2, <1>3
<1>5. IntakeTypeOK'
  BY <1>1, <1>4 DEF IntakeInv, IntakeIsSound, IntakeTypeOK
<1>6. ViewsAreOfVersions'
  <2> SUFFICES ASSUME NEW j \in Items
               PROVE  /\ seen'[j].version <= items[j].version
                      /\ seen'[j].version = items[j].version => seen'[j].snap = items[j].snap
    BY <1>1 DEF ViewsAreOfVersions
  <2>1. CASE j = i
    BY <1>2, <1>3, <1>4, <2>1
  <2>2. CASE j # i
    BY <1>4, <2>2 DEF IntakeInv, ViewsAreOfVersions
  <2> QED  BY <2>1, <2>2
<1>7. ReadinessIsCurrent' /\ ChangeIsOwned' /\ ItemsAreWhole' /\ EventsArePast'
  BY <1>1 DEF IntakeInv, IntakeIsSound, ReadinessIsCurrent, ChangeIsOwned, ItemsAreWhole,
     EventsArePast
<1>8. AuditTellsTheHistory' /\ FactsAreCurrent'
  BY <1>1, SameFacts DEF IntakeInv, IntakeIsSound
<1>9. OneItemPerIdentity' /\ DiscoveriesExist'
  BY <1>1 DEF IntakeInv, IntakeIsSound, OneItemPerIdentity, DiscoveriesExist
<1> QED  BY <1>5, <1>6, <1>7, <1>8, <1>9 DEF IntakeInv, IntakeIsSound

-----------------------------------------------------------------------------
(* The intake: the invariant.                                              *)

LEMMA IntakeInitInv == IntakeInit => IntakeInv
<1> SUFFICES ASSUME IntakeInit PROVE IntakeInv
  OBVIOUS
<1>1. NoWork \in Work /\ NoView \in Views /\ NoContent \in Candidates
  BY DEF NoWork, Work, ItemStates, Candidates, NoView, Views
<1>2. sync \in [Syncs -> Sync]
  <2>1. Nothing \in Collected /\ 0 \in 0..MaxPages /\ 0 \in 0..MaxSyncAttempts
    BY CollectedIsBatch
  <2> QED  BY <2>1 DEF IntakeInit, Sync
<1>3. provider \in [Listed -> Contents]
  BY DEF IntakeInit
<1>4. audit \in [Items -> Seq(AuditFact)] /\ \A i \in Items : audit[i] = <<>>
  BY DEF IntakeInit
<1>5. IntakeTypeOK
  BY <1>1, <1>2, <1>3, <1>4 DEF IntakeInit, IntakeTypeOK
<1>6. ReadinessIsCurrent /\ ChangeIsOwned /\ ItemsAreWhole /\ EventsArePast
  BY DEF IntakeInit, NoWork, ReadinessIsCurrent, ChangeIsOwned, ItemsAreWhole, EventsArePast,
     Delivered
<1>7. AuditTellsTheHistory /\ FactsAreCurrent
  <2>1. \A i \in Items : {e \in outbox : e.item = i} = {}
    BY DEF IntakeInit
  <2>2. Cardinality({}) = 0 /\ IsFiniteSet({})
    BY FS_EmptySet
  <2>3. FactsAreCurrent
    BY <1>4, <2>1, <2>2 DEF FactsAreCurrent
  <2>4. \A i \in Items : Len(audit[i]) = 0 /\ DOMAIN audit[i] = {} /\ 2..Len(audit[i]) = {}
    BY <1>4
  <2>5. AuditTellsTheHistory
    BY <2>1, <2>2, <2>4 DEF AuditTellsTheHistory
  <2> QED  BY <2>3, <2>5
<1>8. OneItemPerIdentity /\ ViewsAreOfVersions /\ DiscoveriesExist
  BY DEF IntakeInit, NoWork, NoView, OneItemPerIdentity, ViewsAreOfVersions, DiscoveriesExist
<1> QED  BY <1>5, <1>6, <1>7, <1>8 DEF IntakeInv, IntakeIsSound

LEMMA IntakeInvStep == IntakeInv /\ [IntakeNext]_intakeVars => IntakeInv'
<1> SUFFICES ASSUME IntakeInv, [IntakeNext]_intakeVars PROVE IntakeInv'
  OBVIOUS
<1>1. CASE SyncStep
  BY <1>1, EditIssueKeepsInv, SyncJobKeepsInv, PersistSyncKeepsInv DEF SyncStep
<1>2. CASE SubmitStep
  BY <1>2, SubmitKeepsInv DEF SubmitStep
<1>3. CASE ItemStep
  BY <1>3, EvaluateKeepsInv, ReadItemKeepsInv, AcceptItemKeepsInv, AdvanceItemKeepsInv DEF ItemStep
<1>4. CASE UNCHANGED intakeVars
  <2>1. provider' \in [Listed -> Contents] /\ sync' \in [Syncs -> Sync]
    BY <1>4 DEF intakeVars, IntakeInv, IntakeIsSound, IntakeTypeOK
  <2> QED  BY <1>4, <2>1, SameRowsKeepInv DEF intakeVars
<1> QED  BY <1>1, <1>2, <1>3, <1>4 DEF IntakeNext

\* Every step of a sync, a submission, a decision or a delivery keeps the
\* intake's inductive invariant.
THEOREM IntakeInvariant == IntakeSpec => []IntakeInv
<1>1. IntakeInit => IntakeInv
  BY IntakeInitInv
<1>2. IntakeInv /\ [IntakeNext]_intakeVars => IntakeInv'
  BY IntakeInvStep
<1> QED  BY <1>1, <1>2, PTL DEF IntakeSpec

\* What intake leaves behind is whole whatever the order of its steps: what
\* readiness decided is of the present snapshot, a recorded change of accepted
\* work is fenced and escalated, one of refused work is recorded and no more,
\* each event has one audit fact in order, and no identity is discovered twice.
THEOREM IntakeStaysSound == IntakeSpec => []IntakeIsSound
<1>1. IntakeInv => IntakeIsSound
  BY DEF IntakeInv
<1> QED  BY <1>1, IntakeInvariant, PTL

\* What a step may not do to one item's authority.
AuthorityKept(i) ==
    /\ items[i].accepted => /\ items'[i].accepted /\ items'[i].snap = items[i].snap
                            /\ items'[i].policy = items[i].policy
    /\ ~items[i].accepted /\ items'[i].accepted => items'[i].snap = seen[i].snap

LEMMA BatchKeepsAuthority ==
    ASSUME IntakeInv, NEW D \in SUBSET Items, NEW batch \in [D -> Contents], Persist(batch),
           NEW i \in Items
    PROVE  AuthorityKept(i)
<1>1. items[i].accepted => items'[i] = items[i]
  BY BatchItems
<1>2. CASE i \in D
  <2>1. batch[i] \in Contents /\ Persists(i, batch[i]) /\ items'[i] = WorkAfter(i, batch[i])
    BY <1>2, BatchRows
  <2>2. items[i] \in Work
    BY DEF IntakeInv, IntakeIsSound, IntakeTypeOK
  <2>3. WorkAfter(i, batch[i]).accepted => items[i].accepted
    BY <2>2 DEF WorkAfter, Work
  <2> QED  BY <1>1, <2>1, <2>3 DEF AuthorityKept
<1>3. CASE i \notin D
  BY <1>3, BatchRows DEF AuthorityKept
<1> QED  BY <1>2, <1>3

LEMMA StepKeepsAuthority ==
    ASSUME IntakeInv, [IntakeNext]_intakeVars, NEW i \in Items
    PROVE  AuthorityKept(i)
<1>1. items \in [Items -> Work] /\ \A j \in Items : items[j] \in Work
  BY DEF IntakeInv, IntakeIsSound, IntakeTypeOK
<1>2. CASE items' = items
  BY <1>2 DEF AuthorityKept
<1>3. ASSUME NEW s \in Syncs, PersistSync(s) PROVE AuthorityKept(i)
  <2>1. sync[s].got \in Collected
    BY DEF IntakeInv, IntakeIsSound, IntakeTypeOK, Sync
  <2>2. DOMAIN sync[s].got \in SUBSET Items /\ sync[s].got \in [DOMAIN sync[s].got -> Contents]
    BY <2>1, CollectedIsBatch DEF Items
  <2>3. Persist(sync[s].got)
    BY <1>3 DEF PersistSync
  <2> QED  BY <2>2, <2>3, BatchKeepsAuthority
<1>4. ASSUME NEW k \in SubmitKeys, NEW j \in Submitted, NEW c \in Contents, Submit(k, j, c)
      PROVE  AuthorityKept(i)
  <2>1. {j} \in SUBSET Items /\ [l \in {j} |-> c] \in [{j} -> Contents]
    BY DEF Items
  <2>2. Persist([l \in {j} |-> c])
    BY <1>4 DEF Submit
  <2> QED  BY <2>1, <2>2, BatchKeepsAuthority
<1>5. ASSUME NEW j \in Items, EvaluateReadiness(j) PROVE AuthorityKept(i)
  <2>1. ~items[j].accepted
    BY <1>5 DEF EvaluateReadiness, IntakeInv, ItemsAreWhole
  <2>2. items'[i].accepted = items[i].accepted /\ (i # j => items'[i] = items[i])
    BY <1>1, <1>5 DEF EvaluateReadiness, Work
  <2> QED  BY <2>1, <2>2 DEF AuthorityKept
<1>6. ASSUME NEW j \in Items, AcceptWorkItem(j) PROVE AuthorityKept(i)
  <2>1. items'[i].snap = items[i].snap /\ items'[i].policy = items[i].policy
        /\ (i # j => items'[i] = items[i]) /\ (i = j => items'[i].accepted)
    BY <1>1, <1>6 DEF AcceptWorkItem, Work
  <2>2. seen[j].snap = items[j].snap
    BY <1>6 DEF AcceptWorkItem, AcceptGuard, IntakeInv, ViewsAreOfVersions
  <2>3. CASE i = j
    BY <2>1, <2>2, <2>3 DEF AuthorityKept
  <2>4. CASE i # j
    BY <2>1, <2>4 DEF AuthorityKept
  <2> QED  BY <2>3, <2>4
<1>7. ASSUME NEW j \in Items, AdvanceDelivery(j) PROVE AuthorityKept(i)
  <2>1. items'[i].snap = items[i].snap /\ items'[i].policy = items[i].policy
        /\ items'[i].accepted = items[i].accepted
    BY <1>1, <1>7 DEF AdvanceDelivery, Work
  <2> QED  BY <2>1 DEF AuthorityKept
<1>8. CASE SyncStep
  BY <1>2, <1>3, <1>8 DEF SyncStep, EditIssue, QueueSync, ClaimSync, FetchPage, FailSync
<1>9. CASE ItemStep
  BY <1>2, <1>5, <1>6, <1>7, <1>9 DEF ItemStep, ReadWorkItem
<1>10. CASE SubmitStep
  BY <1>4, <1>10 DEF SubmitStep
<1>11. CASE UNCHANGED intakeVars
  BY <1>2, <1>11 DEF intakeVars
<1> QED  BY <1>8, <1>9, <1>10, <1>11 DEF IntakeNext

\* Once work is accepted no intake replaces the snapshot and the policy its
\* authority came from, and the content that becomes authoritative is the one
\* the accepting caller read.
THEOREM AuthorityStaysDeliberate == IntakeSpec => AuthorityIsDeliberate
<1>1. IntakeInv /\ [IntakeNext]_intakeVars =>
          [\A i \in Items : items[i].accepted => /\ items'[i].accepted
                                                 /\ items'[i].snap = items[i].snap
                                                 /\ items'[i].policy = items[i].policy]_intakeVars
  BY StepKeepsAuthority DEF AuthorityKept
<1>2. IntakeInv /\ [IntakeNext]_intakeVars =>
          [\A i \in Items : ~items[i].accepted /\ items'[i].accepted
                                => items'[i].snap = seen[i].snap]_intakeVars
  BY StepKeepsAuthority DEF AuthorityKept
<1> QED  BY <1>1, <1>2, IntakeInvariant, PTL
         DEF IntakeSpec, AuthorityIsDeliberate, AuthorityIsRetained, AcceptedAsRead

-----------------------------------------------------------------------------
(***************************************************************************)
(* Health: what a report says.                                             *)
(***************************************************************************)
USE WorkerHealthAssumption

\* A report and a part of one, named so that the lemmas below apply to them.
IsReport(r, dm, t, why, active, twist) == r = PublishedReport(dm, t, why, active, twist)
IsPart(p, dm, t, c, R, twist) == p = Told(dm, t, c, R, twist)
Statuses(r) == {r.part[c].status : c \in Components}

\* What a component says of itself: its words and its details.
LEMMA PartWords ==
    ASSUME NEW dm \in Daemon, NEW t, NEW c \in Components, NEW R, NEW twist, NEW p,
           IsPart(p, dm, t, c, R, twist)
    PROVE  /\ p.status = Amounts(p.reasons)
           /\ p.reasons = IF twist = "hides" THEN {} ELSE R
           /\ twist # "bare" => p.details # None
           /\ p.details # None => /\ p.details.off = Found(dm, c)
                                  /\ (p.details.shaped <=> twist # "shape")
<1>1. [off |-> Found(dm, c), shaped |-> twist # "shape"] \in [off : SUBSET Details, shaped : BOOLEAN]
  BY DEF Found, Daemon
<1>2. [off |-> Found(dm, c), shaped |-> twist # "shape"] # None
  BY <1>1
<1> HIDE WorkerHealthAssumption
<1> QED BY <1>2 DEF Told, IsPart

\* When it was probed, by the daemon's clock.
LEMMA PartTimes ==
    ASSUME NEW dm \in Daemon, NEW t \in Nat, NEW c \in Components, NEW R, NEW twist, NEW p,
           IsPart(p, dm, t, c, R, twist)
    PROVE  /\ dm.offset \in Int /\ dm.probed[c] \in Nat
           /\ p.observed = IF twist = "blind" THEN None ELSE dm.probed[c] + dm.offset
           /\ twist # "age" => p.age = t - dm.probed[c]
<1>1. dm.offset \in Int /\ dm.probed[c] \in Nat
  BY DEF Daemon
<1>2. t - dm.probed[c] + 0 = t - dm.probed[c]
  BY <1>1
<1> HIDE WorkerHealthAssumption
<1>3. p.observed = IF twist = "blind" THEN None ELSE dm.probed[c] + dm.offset
  BY DEF Told, IsPart
<1>4. p.age = t - dm.probed[c] + (IF twist = "age" THEN Tolerance + 1 ELSE 0)
  BY DEF Told, IsPart
<1> QED BY <1>1, <1>2, <1>3, <1>4

\* What a report says: its parts and its verdict on itself.
LEMMA ReportWords ==
    ASSUME NEW dm \in Daemon, NEW t, NEW why, NEW active, NEW twist, NEW r,
           IsReport(r, dm, t, why, active, twist)
    PROVE  /\ \A c \in Components : IsPart(r.part[c], dm, t, c, why[c], twist)
           /\ (r.ready <=> r.status = "READY")
           /\ twist # "top" => r.status = Worst(Statuses(r))
<1> HIDE WorkerHealthAssumption
<1> DEFINE part == [c \in Components |-> Told(dm, t, c, why[c], twist)]
           status == IF twist = "top" THEN "READY" ELSE Worst({part[c].status : c \in Components})
<1>1. r.part = part /\ r.status = status /\ (r.ready <=> status = "READY")
  <2>1. \E capacity, checked, beat, beatAge :
           r = [checked |-> checked, status |-> status, ready |-> status = "READY",
                beat |-> beat, beatAge |-> beatAge, capacity |-> capacity, part |-> part]
    BY DEF PublishedReport, IsReport
  <2> HIDE DEF part, status
  <2>2. r.part = part /\ r.status = status
    BY <2>1
  <2>3. r.ready = (status = "READY")
    BY <2>1
  <2> QED BY <2>2, <2>3
<1>2. \A c \in Components : IsPart(part[c], dm, t, c, why[c], twist)
  BY DEF IsPart
<1>3. twist # "top" => status = Worst({part[c].status : c \in Components})
  OBVIOUS
<1> HIDE DEF part, status
<1>4. Statuses(r) = {part[c].status : c \in Components}
  BY <1>1 DEF Statuses
<1> QED BY <1>1, <1>2, <1>3, <1>4

\* When it was made, by the daemon's clock.
LEMMA ReportTimes ==
    ASSUME NEW dm \in Daemon, NEW t \in Nat, NEW why, NEW active, NEW twist, NEW r,
           IsReport(r, dm, t, why, active, twist)
    PROVE  /\ dm.offset \in Int /\ dm.beat \in Nat
           /\ r.checked = t + dm.offset /\ r.beat = dm.beat + dm.offset
           /\ r.beatAge = t - dm.beat
<1>1. dm.offset \in Int /\ dm.beat \in Nat
  BY DEF Daemon
<1>2. \E part, status, ready, capacity :
         r = [checked |-> t + dm.offset, status |-> status, ready |-> ready,
              beat |-> dm.beat + dm.offset, beatAge |-> t - dm.beat,
              capacity |-> capacity, part |-> part]
  BY DEF PublishedReport, IsReport
<1> HIDE WorkerHealthAssumption
<1> QED BY <1>1, <1>2

\* What it says of its slots.
LEMMA ReportCapacity ==
    ASSUME NEW dm \in Daemon, NEW t, NEW why, NEW active \in 0..dm.max, NEW twist, NEW r,
           IsReport(r, dm, t, why, active, twist)
    PROVE  /\ dm.max \in Nat
           /\ r.capacity.max = dm.max /\ r.capacity.expected = dm.max
           /\ r.capacity.active = active /\ r.capacity.queued = 0
           /\ twist # "capacity" => r.capacity.available = dm.max - active
<1>1. dm.max \in Nat
  BY DEF Daemon
<1>2. \E part, status, ready, checked, beat, beatAge :
         r = [checked |-> checked, status |-> status, ready |-> ready, beat |-> beat,
              beatAge |-> beatAge,
              capacity |-> [max |-> dm.max, expected |-> dm.max, active |-> active, queued |-> 0,
                            available |-> IF twist = "capacity" THEN dm.max + 1
                                          ELSE dm.max - active],
              part |-> part]
  BY DEF PublishedReport, IsReport
<1> HIDE WorkerHealthAssumption
<1> QED BY <1>1, <1>2

LEMMA WorstFacts ==
    ASSUME NEW S
    PROVE  /\ Worst(S) \in Status
           /\ Worst(S) = "REFUSING" <=> "REFUSING" \in S
           /\ "DEGRADED" \in S => Worst(S) # "READY"
BY DEF Worst, Status

LEMMA AmountsFacts ==
    ASSUME NEW R
    PROVE  /\ Amounts(R) \in Status
           /\ Amounts(R) = "READY" <=> R = {}
           /\ Amounts(R) # "REFUSING" => R \subseteq DegradedWords
BY DEF Amounts, Status

-----------------------------------------------------------------------------
(***************************************************************************)
(* A report that passes the client rests on facts.                         *)
(***************************************************************************)
LEMMA ReadyIsSound ==
    ASSUME NEW dm \in Daemon, NEW t, NEW why, NEW active, NEW twist, NEW r,
           IsReport(r, dm, t, why, active, twist), ReadyProofsValid(r)
    PROVE  SoundReport(r)
<1> SUFFICES ASSUME NEW c \in Components
             PROVE  r.part[c].details # None /\ r.part[c].details.off = {}
  BY DEF SoundReport
<1>1. PICK p : p = r.part[c]
  OBVIOUS
<1>2. p.details # None /\ \A d \in Proofs : d[1] = c => d \notin p.details.off
  BY <1>1 DEF ReadyProofsValid, Usable
<1>3. IsPart(p, dm, t, c, why[c], twist)
  BY <1>1, ReportWords
<1>4. p.details.off = Found(dm, c)
  BY <1>2, <1>3, PartWords
<1>5. \A d \in Found(dm, c) : d \in Proofs /\ d[1] = c
  BY DEF Found, Daemon
<1> QED BY <1>1, <1>2, <1>4, <1>5

\* The daemon's clock cannot be further ahead than the skew that is allowed
\* and the time the call took: what looks current is not old.
LEMMA ReadyIsRecent ==
    ASSUME NEW dm \in Daemon, NEW t \in Nat, NEW why, NEW active, NEW twist, NEW r,
           IsReport(r, dm, t, why, active, twist), ReadyHealthIsFresh(r, now),
           now \in Nat, now <= t + Deadline, daemon.offset = dm.offset
    PROVE  Recent(r)
<1>1. dm.offset \in Int /\ dm.beat \in Nat /\ \A c \in Components : dm.probed[c] \in Nat
  BY DEF Daemon
<1>2. r.checked = t + dm.offset /\ r.beat = dm.beat + dm.offset
  BY ReportTimes
<1>3. dm.offset <= FutureSkew + Deadline
  BY <1>1, <1>2 DEF ReadyHealthIsFresh, IsCurrent
<1>4. Age(r.beat) <= MaxAge + FutureSkew + Deadline
  BY <1>1, <1>2, <1>3 DEF ReadyHealthIsFresh, IsCurrent, Age
<1>5. ASSUME NEW c \in Components
      PROVE  r.part[c].observed # None
             /\ Age(r.part[c].observed) <= MaxAge + FutureSkew + Deadline
  <2>1. PICK at : at = r.part[c].observed
    OBVIOUS
  <2>2. at # None /\ IsCurrent(now, at)
    BY <2>1 DEF ReadyHealthIsFresh
  <2>3. at = dm.probed[c] + dm.offset
    <3>1. IsPart(r.part[c], dm, t, c, why[c], twist)
      BY ReportWords
    <3>2. r.part[c].observed = IF twist = "blind" THEN None ELSE dm.probed[c] + dm.offset
      BY <3>1, PartTimes
    <3> QED BY <2>1, <2>2, <3>2
  <2>4. at \in Int
    BY <1>1, <2>3
  <2>5. Age(at) <= MaxAge + FutureSkew + Deadline
    BY <1>1, <1>3, <2>2, <2>4 DEF IsCurrent, Age
  <2> QED BY <2>1, <2>2, <2>5
<1> QED BY <1>4, <1>5 DEF Recent

\* A degraded report hides nothing, and no grave reason only degrades.
LEMMA DegradedIsSound ==
    ASSUME NEW dm \in Daemon, NEW t, NEW why, NEW active, NEW twist, NEW r,
           \A c \in Components : Honest(dm, c, why[c], active),
           IsReport(r, dm, t, why, active, twist), ValidReport(r), r.status = "DEGRADED"
    PROVE  SoundReport(r)
<1>1. \A c \in Components : r.part[c].status # "REFUSING"
  BY WorstFacts DEF ValidReport
<1>2. twist # "hides"
  <2>1. SUFFICES ASSUME twist = "hides" PROVE FALSE
    OBVIOUS
  <2>2. ASSUME NEW c \in Components
        PROVE  r.part[c].reasons = {} /\ r.part[c].status = Amounts({})
    <3>1. IsPart(r.part[c], dm, t, c, why[c], twist)
      BY ReportWords
    <3> QED BY <2>1, <3>1, PartWords
  <2>3. \A c \in Components : r.part[c].status = "READY"
    BY <2>2, AmountsFacts
  <2>4. r.status = Worst({r.part[c].status : c \in Components})
    BY DEF ValidReport
  <2>5. {r.part[c].status : c \in Components} \subseteq {"READY"}
    BY <2>3
  <2> QED BY <2>4, <2>5 DEF Worst
<1> SUFFICES ASSUME NEW c \in Components
             PROVE  r.part[c].details # None /\ r.part[c].details.off = {}
  BY DEF SoundReport
<1>3. PICK p : p = r.part[c]
  OBVIOUS
<1>4. IsPart(p, dm, t, c, why[c], twist)
  BY <1>3, ReportWords
<1>5. p.status # "REFUSING" /\ ValidComponent(p)
  BY <1>1, <1>3 DEF ValidReport
<1>6. p.details # None
  BY <1>5 DEF ValidComponent
<1>7. p.details.off = Found(dm, c) /\ p.reasons = why[c] /\ p.status = Amounts(why[c])
  BY <1>2, <1>4, <1>6, PartWords
<1>8. why[c] \subseteq DegradedWords
  BY <1>5, <1>7, AmountsFacts
<1>9. Found(dm, c) = {}
  BY <1>8 DEF Honest
<1> QED BY <1>3, <1>6, <1>7, <1>9

\* A daemon of which nothing is amiss says so in a report that is believed.
LEMMA SoundIsBelieved ==
    ASSUME NEW dm \in Daemon, NEW t \in Nat, NEW why, NEW active \in 0..dm.max, NEW twist, NEW r,
           \A c \in Components : Honest(dm, c, why[c], active),
           IsReport(r, dm, t, why, active, twist), twist = "none", SoundReport(r)
    PROVE  /\ ValidReport(r)
           /\ r.status \in {"READY", "DEGRADED"}
           /\ r.status = "READY" => ReadyProofsValid(r)
<1>1. ASSUME NEW c \in Components
      PROVE  /\ r.part[c].details # None /\ r.part[c].details.shaped
             /\ r.part[c].details.off = {}
             /\ r.part[c].reasons = IF c = "worker" /\ active = dm.max
                                    THEN {<<"worker", "capacity_full">>} ELSE {}
             /\ r.part[c].status = Amounts(r.part[c].reasons)
             /\ r.part[c].observed # None /\ r.part[c].age # None
  <2>1. PICK p : p = r.part[c]
    OBVIOUS
  <2>2. IsPart(p, dm, t, c, why[c], twist)
    BY <2>1, ReportWords
  <2>3. /\ p.details # None /\ p.details.off = Found(dm, c) /\ p.details.shaped
        /\ p.reasons = why[c] /\ p.status = Amounts(p.reasons)
    BY <2>2, PartWords
  <2>4. p.details.off = {}
    BY <2>1 DEF SoundReport
  <2>5. why[c] = IF c = "worker" /\ active = dm.max THEN {<<"worker", "capacity_full">>} ELSE {}
    BY <2>3, <2>4 DEF Honest
  <2>6. p.observed # None /\ p.age # None
    <3>1. /\ p.observed = dm.probed[c] + dm.offset /\ p.age = t - dm.probed[c]
          /\ dm.offset \in Int /\ dm.probed[c] \in Nat
      BY <2>2, PartTimes
    <3>2. dm.probed[c] + dm.offset \in Int /\ t - dm.probed[c] \in Int
      BY <3>1
    <3> QED BY <3>1, <3>2
  <2> HIDE WorkerHealthAssumption
  <2> QED BY <2>1, <2>3, <2>4, <2>5, <2>6
<1>2. <<"worker", "capacity_full">> \in DegradedWords
  <2>1. "worker" \in {"worker"} /\ "capacity_full" \in {"capacity_full", "queue_nonempty"}
    OBVIOUS
  <2> HIDE WorkerHealthAssumption
  <2> QED BY <2>1 DEF DegradedWords
<1>3. <<"worker", "capacity_full">> \in Words
  <2>1. "worker" \in {"worker"} /\ "capacity_full" \in
           {"heartbeat_stale", "heartbeat_future", "scheduler_stopped", "fencing_unavailable",
            "concurrency_mismatch", "capacity_contradictory", "capacity_full", "queue_nonempty"}
    OBVIOUS
  <2> HIDE WorkerHealthAssumption
  <2> QED BY <2>1 DEF Words
<1>4. ASSUME NEW c \in Components
      PROVE  /\ r.part[c].reasons \subseteq Words
             /\ r.part[c].status = IF c = "worker" /\ active = dm.max THEN "DEGRADED" ELSE "READY"
  <2> HIDE WorkerHealthAssumption
  <2> QED BY <1>1, <1>2, <1>3 DEF Amounts
<1>5. \A c \in Components : ValidComponent(r.part[c])
  BY <1>1, <1>4 DEF ValidComponent, ValidDetails
<1>6. r.status = Worst(Statuses(r)) /\ (r.ready <=> r.status = "READY")
  BY ReportWords
<1>7. "REFUSING" \notin Statuses(r)
  BY <1>4 DEF Statuses
<1>8. r.status \in {"READY", "DEGRADED"}
  BY <1>6, <1>7 DEF Worst
<1>9. ASSUME r.status = "READY" PROVE ReadyProofsValid(r)
  <2>1. "DEGRADED" \notin Statuses(r)
    BY <1>6, <1>9, WorstFacts
  <2>2. active # dm.max
    BY <1>4, <2>1 DEF Statuses
  <2>3. \A c \in Components : Usable(r.part[c]) /\ r.part[c].details.off = {}
    BY <1>1, <1>4, <2>2 DEF Usable
  <2>4. CapacityIsConsistent(r.capacity)
    <3>1. /\ dm.max \in Nat /\ r.capacity.max = dm.max /\ r.capacity.expected = dm.max
          /\ r.capacity.active = active /\ r.capacity.queued = 0
          /\ r.capacity.available = dm.max - active
      BY ReportCapacity
    <3> QED BY <2>2, <3>1 DEF CapacityIsConsistent
  <2> QED BY <1>6, <1>9, <2>3, <2>4 DEF ReadyProofsValid
<1> QED BY <1>5, <1>6, <1>8, <1>9 DEF ValidReport, Statuses

\* And its facts are current: clocks within the skew, ages that leave room
\* for it.
LEMMA RecentIsFresh ==
    ASSUME NEW dm \in Daemon, NEW t \in Nat, NEW why, NEW active, NEW r,
           IsReport(r, dm, t, why, active, "none"),
           now \in Nat, t <= now, daemon.offset = dm.offset, dm.beat <= t,
           \A c \in Components : dm.probed[c] <= t,
           dm.offset \in -FutureSkew..FutureSkew,
           Age(r.beat) <= MaxAge - FutureSkew,
           \A c \in Components : Age(r.part[c].observed) <= MaxAge - FutureSkew
    PROVE  ReadyHealthIsFresh(r, now)
<1>1. /\ dm.offset \in Int /\ dm.beat \in Nat
      /\ r.checked = t + dm.offset /\ r.beat = dm.beat + dm.offset
      /\ r.beatAge = t - dm.beat
  BY ReportTimes
<1>2. now - dm.beat <= MaxAge - FutureSkew
  BY <1>1 DEF Age
<1>3. IsCurrent(now, r.checked) /\ IsCurrent(now, r.beat)
  BY <1>1, <1>2 DEF IsCurrent
<1>4. Coherent(r, r.beat, r.beatAge)
  <2>1. r.checked - r.beat = t - dm.beat /\ t - dm.beat >= 0
    BY <1>1
  <2> QED BY <1>1, <2>1 DEF Coherent, Apart
<1>5. ASSUME NEW c \in Components
      PROVE  /\ r.part[c].observed # None /\ r.part[c].age # None
             /\ IsCurrent(now, r.part[c].observed)
             /\ Coherent(r, r.part[c].observed, r.part[c].age)
  <2>1. IsPart(r.part[c], dm, t, c, why[c], "none")
    BY ReportWords
  <2>2. PICK at, q, age : at = r.part[c].observed /\ q = dm.probed[c] /\ age = r.part[c].age
    OBVIOUS
  <2>3. q \in Nat /\ at = q + dm.offset /\ age = t - q
    BY <2>1, <2>2, PartTimes
  <2>4. at \in Int /\ age \in Int /\ q <= t
    BY <1>1, <2>2, <2>3
  <2>5. now - q <= MaxAge - FutureSkew
    <3>1. Age(at) <= MaxAge - FutureSkew
      BY <2>2
    <3> QED BY <1>1, <2>3, <3>1 DEF Age
  <2>6. IsCurrent(now, at)
    BY <1>1, <2>3, <2>4, <2>5 DEF IsCurrent
  <2>7. Coherent(r, at, age)
    <3>1. r.checked - at = t - q /\ t - q >= 0
      BY <1>1, <2>3, <2>4
    <3> QED BY <1>1, <2>3, <3>1 DEF Coherent, Apart
  <2> QED BY <2>2, <2>4, <2>6, <2>7
<1> QED BY <1>3, <1>4, <1>5 DEF ReadyHealthIsFresh

-----------------------------------------------------------------------------
(***************************************************************************)
(* Verdicts are justified when they are made.                              *)
(***************************************************************************)
Justified(o) ==
    /\ o.requested = "READY" => o.ready /\ o.sound /\ o.recent
    /\ o.requested = "QUARANTINED" => o.amiss
    /\ o.requested = "DRAINING" => o.sound

\* The answer a call holds is what the daemon said at a moment of the call.
AnsweredFrom(i, dm, t, why, active) ==
    /\ call[i].sent <= t /\ t <= now
    /\ dm.offset = daemon.offset /\ dm.beat <= t
    /\ \A c \in Components : dm.probed[c] <= t /\ Honest(dm, c, why[c], active)
    /\ IsReport(call[i].report, dm, t, why, active, call[i].twist)

LEMMA FailedIsJustified ==
    ASSUME NEW e \in Unsafe \cup Transient
    PROVE  /\ Failed(e) \in Observed /\ Justified(Failed(e))
           /\ Failed(e).requested \in {"QUARANTINED", "OFFLINE"}
<1> HIDE WorkerHealthAssumption
<1>1. Failed(e) \in Observed
  <2>1. PICK a \in BOOLEAN : a = (e \notin Transient)
    OBVIOUS
  <2>2. PICK s \in WorkerStatus : s = ControlErrorStatus(e)
    BY DEF ControlErrorStatus, WorkerStatus
  <2>3. e \in Codes
    BY DEF Codes
  <2>4. Failed(e) = [code |-> e, requested |-> s, ready |-> FALSE, max |-> None,
                     sound |-> TRUE, recent |-> TRUE, amiss |-> a]
    BY <2>1, <2>2 DEF Failed
  <2> QED BY <2>3, <2>4 DEF Observed
<1>2. e \in Unsafe => e \notin Transient
  BY DEF Unsafe, Transient
<1>3. Failed(e).requested = ControlErrorStatus(e) /\ (Failed(e).amiss <=> e \notin Transient)
  BY DEF Failed
<1> QED BY <1>1, <1>2, <1>3 DEF Justified, ControlErrorStatus

LEMMA VerdictFacts ==
    ASSUME NEW r, NEW t, r.status \in Status
    PROVE  /\ Verdict(r, t)[1] \in Codes
           /\ Verdict(r, t)[2] \in {"READY", "DRAINING", "QUARANTINED"}
           /\ Verdict(r, t)[2] = "READY" <=>
                 r.status = "READY" /\ ReadyProofsValid(r) /\ ReadyHealthIsFresh(r, t)
           /\ Verdict(r, t)[2] = "DRAINING" <=> r.status = "DEGRADED"
<1> HIDE WorkerHealthAssumption
<1>1. {"READY_PROOF_MISMATCH", "READY_REPORT_STALE", "RUNMILL_READY", "RUNMILL_DEGRADED",
       "RUNMILL_REFUSING"} \subseteq Codes
  BY DEF Codes
<1>2. CASE r.status = "READY" /\ ~ReadyProofsValid(r)
  <2>1. Verdict(r, t) = <<"READY_PROOF_MISMATCH", "QUARANTINED">>
    BY <1>2 DEF Verdict
  <2> QED BY <1>1, <1>2, <2>1
<1>3. CASE r.status = "READY" /\ ReadyProofsValid(r) /\ ~ReadyHealthIsFresh(r, t)
  <2>1. Verdict(r, t) = <<"READY_REPORT_STALE", "QUARANTINED">>
    BY <1>3 DEF Verdict
  <2> QED BY <1>1, <1>3, <2>1
<1>4. CASE r.status = "READY" /\ ReadyProofsValid(r) /\ ReadyHealthIsFresh(r, t)
  <2>1. Verdict(r, t) = <<"RUNMILL_READY", "READY">>
    BY <1>4 DEF Verdict
  <2> QED BY <1>1, <1>4, <2>1
<1>5. CASE r.status = "DEGRADED"
  <2>1. Verdict(r, t) = <<"RUNMILL_DEGRADED", "DRAINING">>
    BY <1>5 DEF Verdict
  <2> QED BY <1>1, <1>5, <2>1
<1>6. CASE r.status = "REFUSING"
  <2>1. Verdict(r, t) = <<"RUNMILL_REFUSING", "QUARANTINED">>
    BY <1>6 DEF Verdict
  <2> QED BY <1>1, <1>6, <2>1
<1> QED BY <1>2, <1>3, <1>4, <1>5, <1>6 DEF Status

\* Nothing is amiss: the report is believed and no quarantine follows.
LEMMA NoFalseAlarm ==
    ASSUME NEW i, NEW dm \in Daemon, NEW t \in Nat, NEW why, NEW active \in 0..dm.max,
           now \in Nat, AnsweredFrom(i, dm, t, why, active), ~Amiss(i, call[i].report)
    PROVE  /\ ValidReport(call[i].report)
           /\ Verdict(call[i].report, now)[2] # "QUARANTINED"
<1>1. PICK r : r = call[i].report
  OBVIOUS
<1>2. /\ call[i].twist = "none" /\ SoundReport(r)
      /\ daemon.offset \in -FutureSkew..FutureSkew
      /\ ~(Age(r.beat) > MaxAge - FutureSkew)
      /\ \A c \in Components : ~(Age(r.part[c].observed) > MaxAge - FutureSkew)
  BY <1>1 DEF Amiss
<1>3. /\ IsReport(r, dm, t, why, active, "none") /\ t <= now /\ dm.offset = daemon.offset
      /\ dm.beat <= t /\ \A c \in Components : dm.probed[c] <= t
      /\ \A c \in Components : Honest(dm, c, why[c], active)
  BY <1>1, <1>2 DEF AnsweredFrom
<1>4. /\ ValidReport(r) /\ r.status \in {"READY", "DEGRADED"}
      /\ r.status = "READY" => ReadyProofsValid(r)
  BY <1>2, <1>3, SoundIsBelieved
<1>5. Age(r.beat) <= MaxAge - FutureSkew
  <2>1. r.beat = dm.beat + dm.offset /\ dm.offset \in Int /\ dm.beat \in Nat
    BY <1>3, ReportTimes
  <2>2. Age(r.beat) \in Int
    BY <1>3, <2>1 DEF Age
  <2> QED BY <1>2, <2>2
<1>6. ASSUME NEW c \in Components PROVE Age(r.part[c].observed) <= MaxAge - FutureSkew
  <2>1. IsPart(r.part[c], dm, t, c, why[c], "none")
    BY <1>3, ReportWords
  <2>2. /\ r.part[c].observed = dm.probed[c] + dm.offset
        /\ dm.offset \in Int /\ dm.probed[c] \in Nat
    BY <2>1, PartTimes
  <2>3. Age(r.part[c].observed) \in Int
    BY <1>3, <2>2 DEF Age
  <2> QED BY <1>2, <2>3
<1>7. ReadyHealthIsFresh(r, now)
  BY <1>2, <1>3, <1>5, <1>6, RecentIsFresh
<1>8. Verdict(r, now)[2] \in {"READY", "DRAINING"}
  BY <1>4, <1>7, VerdictFacts DEF Status
<1> QED BY <1>1, <1>4, <1>8

LEMMA ReportIsJustified ==
    ASSUME NEW i, NEW dm \in Daemon, NEW t \in Nat, NEW why, NEW active \in 0..dm.max,
           now \in Nat, now <= call[i].sent + Deadline, call[i].sent \in Nat,
           AnsweredFrom(i, dm, t, why, active)
    PROVE  /\ FromReport(i, call[i].report) \in Observed
           /\ Justified(FromReport(i, call[i].report))
<1>1. PICK r : r = call[i].report
  OBVIOUS
<1>2. PICK a \in BOOLEAN : a = Amiss(i, r)
  BY DEF Amiss
<1>3. PICK o : o = FromReport(i, r)
  OBVIOUS
<1>r. IsReport(r, dm, t, why, active, call[i].twist)
  BY <1>1 DEF AnsweredFrom
<1>4. CASE ~ValidReport(r)
  <2>1. a
    BY <1>1, <1>2, <1>4, NoFalseAlarm
  <2>2. o = [Failed("MALFORMED_RESPONSE") EXCEPT !.amiss = a]
    BY <1>2, <1>3, <1>4 DEF FromReport
  <2>3. "MALFORMED_RESPONSE" \in Unsafe
    BY DEF Unsafe
  <2>4. PICK f : f = Failed("MALFORMED_RESPONSE")
    OBVIOUS
  <2>5. f \in Observed /\ f.requested \in {"QUARANTINED", "OFFLINE"}
    BY <2>3, <2>4, FailedIsJustified
  <2>6. o \in Observed /\ o.requested = f.requested /\ o.amiss
    <3> HIDE WorkerHealthAssumption
    <3> QED BY <2>1, <2>2, <2>4, <2>5 DEF Observed
  <2> QED BY <1>1, <1>3, <2>5, <2>6 DEF Justified
<1>5. CASE ValidReport(r)
  <2>1. r.status \in Status
    BY <1>5, WorstFacts DEF ValidReport
  <2>2. PICK code, req : code = Verdict(r, now)[1] /\ req = Verdict(r, now)[2]
    OBVIOUS
  <2>3. /\ code \in Codes /\ req \in {"READY", "DRAINING", "QUARANTINED"}
        /\ req = "READY" => ReadyProofsValid(r) /\ ReadyHealthIsFresh(r, now)
        /\ req = "DRAINING" => r.status = "DEGRADED"
    BY <2>1, <2>2, VerdictFacts
  <2>4. PICK sd \in BOOLEAN, rc \in BOOLEAN, rd \in BOOLEAN :
           sd = SoundReport(r) /\ rc = Recent(r) /\ rd = (req = "READY")
    BY DEF SoundReport, Recent
  <2>5. r.capacity.max \in Nat
    BY <1>r, ReportCapacity
  <2>6. o = [code |-> code, requested |-> req, ready |-> rd, max |-> r.capacity.max,
             sound |-> sd, recent |-> rc, amiss |-> a]
    BY <1>2, <1>3, <1>5, <2>2, <2>4 DEF FromReport
  <2>7. o \in Observed
    <3>1. req \in WorkerStatus
      BY <2>3 DEF WorkerStatus
    <3> HIDE WorkerHealthAssumption
    <3> QED BY <2>3, <2>5, <2>6, <3>1 DEF Observed
  <2>8. req = "READY" => sd /\ rc
    <3>1. ASSUME req = "READY" PROVE SoundReport(r)
      BY <1>r, <2>3, <3>1, ReadyIsSound
    <3>2. ASSUME req = "READY" PROVE Recent(r)
      <4>1. now <= t + Deadline /\ daemon.offset = dm.offset
        BY DEF AnsweredFrom
      <4> QED BY <1>r, <2>3, <3>2, <4>1, ReadyIsRecent
    <3> QED BY <2>4, <3>1, <3>2
  <2>9. req = "DRAINING" => sd
    <3>1. ASSUME req = "DRAINING" PROVE SoundReport(r)
      <4>1. \A c \in Components : Honest(dm, c, why[c], active)
        BY DEF AnsweredFrom
      <4> QED BY <1>r, <1>5, <2>3, <3>1, <4>1, DegradedIsSound
    <3> QED BY <2>4, <3>1
  <2>10. req = "QUARANTINED" => a
    BY <1>1, <1>2, <2>2, NoFalseAlarm
  <2>11. o.requested = req /\ o.ready = rd /\ o.sound = sd /\ o.recent = rc /\ o.amiss = a
    <3> HIDE WorkerHealthAssumption
    <3> QED BY <2>6
  <2>12. Justified(o)
    BY <2>4, <2>8, <2>9, <2>10, <2>11 DEF Justified
  <2> QED BY <1>1, <1>3, <2>7, <2>12
<1> QED BY <1>4, <1>5

-----------------------------------------------------------------------------
(***************************************************************************)
(* Health: the inductive invariant.                                        *)
(***************************************************************************)
WorkerRows == [status : WorkerStatus, generation : 1..MaxGeneration, version : Nat]
WorkerSessionRows == [count : 0..MaxSessions,
                      status : {"NONE", "ACTIVE", "EXPIRED", "CLOSED", "REVOKED"}]
Results == [status : WorkerStatus, generation : Nat]

HealthTables ==
    /\ now \in 0..MaxTime /\ daemon \in Daemon
    /\ worker \in WorkerRows /\ workerSession \in WorkerSessionRows
    /\ reserved \in 0..Concurrency
    /\ job \in [Jobs -> JobRow]
    /\ DOMAIN call = Claims

DaemonIsPast == daemon.beat <= now /\ \A c \in Components : daemon.probed[c] <= now

\* A call that is out is within its deadline; its answer was given while it
\* was out; and what was made of the answer was justified.
CallFollows(i) ==
    /\ call[i] = [phase |-> call[i].phase, sent |-> call[i].sent, report |-> call[i].report,
                  twist |-> call[i].twist, seen |-> call[i].seen]
    /\ call[i].phase = "OBSERVED" <=> call[i].seen # None
    /\ call[i].seen \in Observed \cup {None}
    /\ call[i].phase = "OBSERVED" => Justified(call[i].seen)
    /\ call[i].phase \in {"ASKED", "ANSWERED"} =>
          call[i].sent \in Nat /\ call[i].sent <= now /\ now <= call[i].sent + Deadline
    /\ call[i].phase = "ANSWERED" =>
          \E dm \in Daemon, t \in Nat, why \in [Components -> SUBSET Reasons] :
              \E active \in 0..dm.max : AnsweredFrom(i, dm, t, why, active)

\* What is reserved is reserved under a session that has not ended.
SessionsFollow == reserved > 0 => Held

\* A recorded quarantine of this generation is still the worker's status, and
\* no session has come back.
ResultStands(k) ==
    job[k].status = "COMPLETED" =>
        /\ job[k].result \in Results /\ job[k].result.generation <= worker.generation
        /\ job[k].result.status = "QUARANTINED" /\ job[k].result.generation = worker.generation
              => worker.status = "QUARANTINED" /\ ~Held

HealthInv ==
    /\ HealthTables
    /\ DaemonIsPast
    /\ \A i \in Claims : CallFollows(i)
    /\ SessionsFollow
    /\ \A k \in Jobs : ResultStands(k)

LEMMA HealthInvInit == HealthInit => HealthInv
<1> SUFFICES ASSUME HealthInit PROVE HealthInv
  OBVIOUS
<1>1. daemon \in Daemon /\ daemon.beat = 0 /\ daemon.probed = [c \in Components |-> 0]
  <2>1. PICK o \in Offsets, m \in Maxima :
           daemon = [offset |-> o, max |-> m, beat |-> 0,
                     probed |-> [c \in Components |-> 0], found |-> {}]
    <3> HIDE WorkerHealthAssumption
    <3> QED BY DEF HealthInit
  <2>2. [c \in Components |-> 0] \in [Components -> Nat]
    OBVIOUS
  <2> HIDE WorkerHealthAssumption
  <2> QED BY <2>1, <2>2 DEF Daemon
<1>2. job \in [Jobs -> JobRow]
  <2>1. 0 \in 0..MaxTries
    OBVIOUS
  <2>2. PICK row : row = [status |-> "NONE", fence |-> 0, generation |-> 0, version |-> 0,
                          result |-> None]
    OBVIOUS
  <2>3. row \in JobRow
    <3> HIDE WorkerHealthAssumption
    <3> QED BY <2>1, <2>2 DEF JobRow
  <2> QED BY <2>2, <2>3 DEF HealthInit
<1>3. HealthTables
  <2>1. worker \in WorkerRows
    BY DEF HealthInit, WorkerRows, WorkerStatus
  <2>2. workerSession \in WorkerSessionRows
    BY DEF HealthInit, WorkerSessionRows
  <2> QED BY <1>1, <1>2, <2>1, <2>2 DEF HealthInit, HealthTables
<1>4. DaemonIsPast
  BY <1>1 DEF HealthInit, DaemonIsPast
<1>5. ASSUME NEW i \in Claims PROVE CallFollows(i)
  <2>1. call[i] = NoCall
    BY DEF HealthInit
  <2> HIDE WorkerHealthAssumption
  <2> QED BY <2>1 DEF CallFollows, NoCall
<1>6. SessionsFollow
  BY DEF HealthInit, SessionsFollow
<1>7. \A k \in Jobs : ResultStands(k)
  BY DEF HealthInit, ResultStands
<1> QED BY <1>3, <1>4, <1>5, <1>6, <1>7 DEF HealthInv

-----------------------------------------------------------------------------
(***************************************************************************)
(* What the steps keep.                                                    *)
(***************************************************************************)
\* A call stays good while it is not touched and its deadline is kept.
LEMMA CallKept ==
    ASSUME NEW i, CallFollows(i), call'[i] = call[i], daemon'.offset = daemon.offset,
           now \in Nat, now' \in Nat, now <= now',
           call[i].phase \in {"ASKED", "ANSWERED"} => now' <= call[i].sent + Deadline
    PROVE  CallFollows(i)'
<1>1. PICK x : x = call[i]
  OBVIOUS
<1>2. ASSUME NEW dm \in Daemon, NEW t \in Nat, NEW why, NEW active,
             AnsweredFrom(i, dm, t, why, active)
      PROVE  AnsweredFrom(i, dm, t, why, active)'
  BY <1>2 DEF AnsweredFrom, Honest, Found, IsReport
<1>3. x.phase = "ANSWERED" =>
          \E dm \in Daemon, t \in Nat, why \in [Components -> SUBSET Reasons] :
              \E active \in 0..dm.max : AnsweredFrom(i, dm, t, why, active)'
  BY <1>1, <1>2 DEF CallFollows
<1>4. x.phase \in {"ASKED", "ANSWERED"} =>
          x.sent \in Nat /\ x.sent <= now' /\ now' <= x.sent + Deadline
  BY <1>1 DEF CallFollows
<1>5. /\ x = [phase |-> x.phase, sent |-> x.sent, report |-> x.report,
              twist |-> x.twist, seen |-> x.seen]
      /\ x.phase = "OBSERVED" <=> x.seen # None
      /\ x.seen \in Observed \cup {None}
      /\ x.phase = "OBSERVED" => Justified(x.seen)
  BY <1>1 DEF CallFollows
<1> HIDE WorkerHealthAssumption
<1> QED BY <1>1, <1>3, <1>4, <1>5 DEF CallFollows, Justified

\* The rows are not touched.
LEMMA RowsKept ==
    ASSUME SessionsFollow, \A k \in Jobs : ResultStands(k),
           UNCHANGED <<worker, workerSession, reserved, job>>
    PROVE  SessionsFollow' /\ \A k \in Jobs : ResultStands(k)'
BY DEF SessionsFollow, Held, ResultStands

\* A step of one call.
LEMMA OneCallMoves ==
    ASSUME HealthInv, NEW i \in Claims, NEW x, call' = [call EXCEPT ![i] = x],
           UNCHANGED <<now, daemon>>, CallFollows(i)'
    PROVE  DOMAIN call' = Claims /\ \A j \in Claims : CallFollows(j)'
<1>1. DOMAIN call = Claims /\ now \in Nat
  BY DEF HealthInv, HealthTables
<1>2. ASSUME NEW j \in Claims, j # i PROVE CallFollows(j)'
  <2>1. call'[j] = call[j] /\ CallFollows(j)
    BY <1>1, <1>2 DEF HealthInv
  <2>2. call[j].phase \in {"ASKED", "ANSWERED"} => now <= call[j].sent + Deadline
    BY <2>1 DEF CallFollows
  <2> QED BY <1>1, <2>1, <2>2, CallKept
<1> QED BY <1>1, <1>2

\* No call is touched and no time passes.
LEMMA NoCallMoves ==
    ASSUME HealthInv, UNCHANGED <<now, call>>, daemon'.offset = daemon.offset
    PROVE  DOMAIN call' = Claims /\ \A j \in Claims : CallFollows(j)'
<1>1. DOMAIN call = Claims /\ now \in Nat
  BY DEF HealthInv, HealthTables
<1>2. ASSUME NEW j \in Claims PROVE CallFollows(j)'
  <2>1. CallFollows(j)
    BY DEF HealthInv
  <2>2. call[j].phase \in {"ASKED", "ANSWERED"} => now <= call[j].sent + Deadline
    BY <2>1 DEF CallFollows
  <2> QED BY <1>1, <2>1, <2>2, CallKept
<1> QED BY <1>1, <1>2

\* A call that is over, or has only been asked.
LEMMA FreshCall ==
    ASSUME NEW i, NEW p \in {"ASKED", "ENDED"}, now \in Nat, now' = now,
           call'[i] = [phase |-> p, sent |-> IF p = "ASKED" THEN now ELSE 0, report |-> None,
                       twist |-> "none", seen |-> None]
    PROVE  CallFollows(i)'
<1>1. now <= now + Deadline
  OBVIOUS
<1> HIDE WorkerHealthAssumption
<1> QED BY <1>1 DEF CallFollows

\* A call with an observation.
LEMMA ObservedCall ==
    ASSUME NEW i, NEW o \in Observed, Justified(o),
           call'[i] = [phase |-> "OBSERVED", sent |-> 0, report |-> None,
                       twist |-> "none", seen |-> o]
    PROVE  CallFollows(i)'
<1>1. o # None
  OBVIOUS
<1> HIDE WorkerHealthAssumption
<1> QED BY <1>1 DEF CallFollows, Justified

-----------------------------------------------------------------------------
(***************************************************************************)
(* Each step keeps the invariant.                                          *)
(***************************************************************************)
LEMMA HealthTickStep ==
    ASSUME HealthInv, Tick
    PROVE  HealthInv'
<1>1. /\ now \in 0..MaxTime /\ now < MaxTime /\ now' = now + 1
      /\ UNCHANGED <<daemon, worker, workerSession, reserved, job, call>>
      /\ \A i \in Claims : call[i].phase \in {"ASKED", "ANSWERED"} => now < call[i].sent + Deadline
  BY DEF HealthInv, HealthTables, Tick
<1>2. HealthTables'
  BY <1>1 DEF HealthInv, HealthTables
<1>3. DaemonIsPast'
  <2>1. daemon.beat \in Nat /\ \A c \in Components : daemon.probed[c] \in Nat
    BY DEF HealthInv, HealthTables, Daemon
  <2> QED BY <1>1, <2>1 DEF HealthInv, DaemonIsPast
<1>4. ASSUME NEW i \in Claims PROVE CallFollows(i)'
  <2>1. CallFollows(i) /\ call'[i] = call[i] /\ daemon'.offset = daemon.offset
    BY <1>1 DEF HealthInv
  <2>2. call[i].phase \in {"ASKED", "ANSWERED"} => now' <= call[i].sent + Deadline
    <3>1. ASSUME call[i].phase \in {"ASKED", "ANSWERED"} PROVE now' <= call[i].sent + Deadline
      <4>1. call[i].sent \in Nat
        BY <2>1, <3>1 DEF CallFollows
      <4>2. now < call[i].sent + Deadline
        BY <1>1, <3>1
      <4> QED BY <1>1, <4>1, <4>2
    <3> QED BY <3>1
  <2> QED BY <1>1, <2>1, <2>2, CallKept
<1> QED BY <1>1, <1>2, <1>3, <1>4, RowsKept DEF HealthInv

\* The daemon beats or probes.
LEMMA DaemonMoves ==
    ASSUME HealthInv, daemon' \in Daemon, daemon'.offset = daemon.offset, DaemonIsPast',
           UNCHANGED <<now, worker, workerSession, reserved, job, call>>
    PROVE  HealthInv'
<1>1. HealthTables'
  BY DEF HealthInv, HealthTables
<1> QED BY <1>1, NoCallMoves, RowsKept DEF HealthInv

LEMMA BeatStep ==
    ASSUME HealthInv, Beat
    PROVE  HealthInv'
<1>1. now \in Nat /\ daemon \in Daemon /\ DaemonIsPast
  BY DEF HealthInv, HealthTables
<1>2. PICK dm : dm = [daemon EXCEPT !.beat = now]
  OBVIOUS
<1>3. dm \in Daemon /\ dm.offset = daemon.offset /\ dm.beat = now /\ dm.probed = daemon.probed
  <2> HIDE WorkerHealthAssumption
  <2> QED BY <1>1, <1>2 DEF Daemon
<1>4. daemon' = dm /\ UNCHANGED <<now, worker, workerSession, reserved, job, call>>
  BY <1>2 DEF Beat
<1>5. DaemonIsPast'
  BY <1>1, <1>3, <1>4 DEF DaemonIsPast
<1> QED BY <1>3, <1>4, <1>5, DaemonMoves

LEMMA ProbeStep ==
    ASSUME HealthInv, NEW c \in Components, NEW D \in SUBSET {d \in Details : d[1] = c},
           ProbeComponent(c, D)
    PROVE  HealthInv'
<1>1. now \in Nat /\ daemon \in Daemon /\ DaemonIsPast
  BY DEF HealthInv, HealthTables
<1>2. PICK probed, found : /\ probed = [daemon.probed EXCEPT ![c] = now]
                           /\ found = {d \in daemon.found : d[1] # c} \cup D
  OBVIOUS
<1>3. PICK dm : dm = [daemon EXCEPT !.probed = probed, !.found = found]
  OBVIOUS
<1>4. probed \in [Components -> Nat] /\ found \in SUBSET Details
      /\ \A b \in Components : probed[b] <= now
  BY <1>1, <1>2 DEF Daemon, DaemonIsPast
<1>5. dm \in Daemon /\ dm.offset = daemon.offset /\ dm.beat = daemon.beat /\ dm.probed = probed
  <2> HIDE WorkerHealthAssumption
  <2> QED BY <1>1, <1>3, <1>4 DEF Daemon
<1>6. daemon' = dm /\ UNCHANGED <<now, worker, workerSession, reserved, job, call>>
  BY <1>2, <1>3 DEF ProbeComponent
<1>7. DaemonIsPast'
  BY <1>1, <1>4, <1>5, <1>6 DEF DaemonIsPast
<1> QED BY <1>5, <1>6, <1>7, DaemonMoves

\* A step of the worker's rows; only a new generation lifts a quarantine, and a
\* quarantined worker opens no session.
LEMMA WorkerRowsMove ==
    ASSUME HealthInv, UNCHANGED <<now, daemon, job, call>>, worker' \in WorkerRows,
           workerSession' \in WorkerSessionRows, reserved' \in 0..Concurrency, SessionsFollow',
           \/ worker'.generation = worker.generation + 1
           \/ /\ worker'.generation = worker.generation
              /\ worker.status = "QUARANTINED" => worker'.status = "QUARANTINED"
              /\ worker.status = "QUARANTINED" /\ ~Held => ~Held'
    PROVE  HealthInv'
<1>1. HealthTables'
  BY DEF HealthInv, HealthTables
<1>2. DaemonIsPast'
  BY DEF HealthInv, DaemonIsPast
<1>3. ASSUME NEW k \in Jobs PROVE ResultStands(k)'
  <2>1. ResultStands(k) /\ worker \in WorkerRows
    BY DEF HealthInv, HealthTables
  <2>2. CASE /\ worker'.generation = worker.generation
             /\ worker.status = "QUARANTINED" => worker'.status = "QUARANTINED"
             /\ worker.status = "QUARANTINED" /\ ~Held => ~Held'
    BY <2>1, <2>2 DEF ResultStands
  <2>3. CASE worker'.generation = worker.generation + 1
    <3>1. PICK g : g = worker.generation
      OBVIOUS
    <3>2. g \in Nat
      BY <2>1, <3>1 DEF WorkerRows
    <3>3. ASSUME job[k].status = "COMPLETED"
          PROVE  /\ job[k].result \in Results /\ job[k].result.generation \in Nat
                 /\ job[k].result.generation <= g
      BY <2>1, <3>1, <3>3 DEF ResultStands, Results
    <3>4. ASSUME job[k].status = "COMPLETED"
          PROVE  job[k].result.generation <= g + 1 /\ job[k].result.generation # g + 1
      BY <3>2, <3>3, <3>4
    <3> QED BY <2>3, <3>1, <3>3, <3>4 DEF ResultStands
  <2> QED BY <2>2, <2>3
<1> QED BY <1>1, <1>2, <1>3, NoCallMoves DEF HealthInv

LEMMA WorkerRowSteps ==
    ASSUME HealthInv, RowStep
    PROVE  HealthInv'
<1>0. /\ worker \in WorkerRows /\ workerSession \in WorkerSessionRows
      /\ reserved \in 0..Concurrency /\ SessionsFollow
  BY DEF HealthInv, HealthTables
<1>1. CASE OpenSession
  <2>1. PICK n : n = workerSession.count + 1
    OBVIOUS
  <2>2. n \in 0..MaxSessions
    BY <1>0, <1>1, <2>1 DEF OpenSession, WorkerSessionRows
  <2>3. workerSession' = [count |-> n, status |-> "ACTIVE"] /\ worker.status # "QUARANTINED"
        /\ UNCHANGED <<now, daemon, worker, reserved, job, call>>
    BY <1>1, <2>1 DEF OpenSession
  <2>4. workerSession' \in WorkerSessionRows
    BY <2>2, <2>3 DEF WorkerSessionRows
  <2>5. SessionsFollow'
    BY <2>3, <2>4 DEF SessionsFollow, Held
  <2> QED BY <1>0, <2>3, <2>4, <2>5, WorkerRowsMove
<1>2. ASSUME NEW st \in {"EXPIRED", "CLOSED"}, Held, st = "CLOSED" => reserved = 0,
             workerSession' = [workerSession EXCEPT !.status = st],
             UNCHANGED <<now, daemon, worker, reserved, job, call>>
      PROVE  HealthInv'
  <2>1. workerSession' \in WorkerSessionRows
    BY <1>0, <1>2 DEF WorkerSessionRows
  <2>2. workerSession'.status = st
    BY <1>0, <1>2 DEF WorkerSessionRows
  <2>3. SessionsFollow'
    BY <1>0, <1>2, <2>2 DEF SessionsFollow, Held
  <2> QED BY <1>0, <1>2, <2>1, <2>3, WorkerRowsMove
<1>3. CASE ExpireSession
  BY <1>2, <1>3 DEF ExpireSession, Held
<1>4. CASE CloseSession
  BY <1>2, <1>4 DEF CloseSession
<1>5. CASE Admit
  <2>1. reserved' \in 0..Concurrency /\ SessionsFollow'
    BY <1>0, <1>5 DEF Admit, SessionsFollow, Held
  <2> QED BY <1>0, <1>5, <2>1, WorkerRowsMove DEF Admit, Held
<1>6. CASE Release
  <2>1. reserved' \in 0..Concurrency /\ SessionsFollow'
    BY <1>0, <1>6 DEF Release, SessionsFollow, Held
  <2> QED BY <1>0, <1>6, <2>1, WorkerRowsMove DEF Release, Held
<1>8. CASE OperatorQuarantine
  <2>1. PICK n : n = worker.version + 1
    OBVIOUS
  <2>2. n \in Nat
    BY <1>0, <2>1 DEF WorkerRows
  <2>3. worker' = [worker EXCEPT !.status = "QUARANTINED", !.version = n]
        /\ UNCHANGED <<now, daemon, workerSession, reserved, job, call>>
    BY <1>8, <2>1 DEF OperatorQuarantine
  <2>4. /\ worker' \in WorkerRows /\ worker'.generation = worker.generation
        /\ worker'.status = "QUARANTINED"
    <3> HIDE WorkerHealthAssumption
    <3> QED BY <1>0, <2>2, <2>3 DEF WorkerRows, WorkerStatus
  <2>5. SessionsFollow' /\ (~Held => ~Held')
    BY <1>0, <2>3 DEF SessionsFollow, Held
  <2> QED BY <1>0, <2>3, <2>4, <2>5, WorkerRowsMove
<1>7. ASSUME NEW st \in {"REGISTERED", "QUARANTINED"}, AdvanceGeneration(st) PROVE HealthInv'
  <2>1. PICK g : g = worker.generation + 1
    OBVIOUS
  <2>2. g \in 1..MaxGeneration
    BY <1>0, <1>7, <2>1 DEF AdvanceGeneration, WorkerRows
  <2>3. worker' = [worker EXCEPT !.generation = g, !.status = st] /\ ~Held
        /\ UNCHANGED <<now, daemon, workerSession, reserved, job, call>>
    BY <1>7, <2>1 DEF AdvanceGeneration
  <2>4. worker' \in WorkerRows /\ worker'.generation = worker.generation + 1
    <3>1. st \in WorkerStatus
      BY DEF WorkerStatus
    <3> HIDE WorkerHealthAssumption
    <3> QED BY <1>0, <2>1, <2>2, <2>3, <3>1 DEF WorkerRows
  <2>5. SessionsFollow'
    BY <1>0, <2>3 DEF SessionsFollow, Held
  <2> QED BY <1>0, <2>3, <2>4, <2>5, WorkerRowsMove
<1> QED BY <1>1, <1>3, <1>4, <1>5, <1>6, <1>7, <1>8 DEF RowStep

\* A step of one job that completes none.
LEMMA OneJobMoves ==
    ASSUME HealthInv, NEW k \in Jobs, NEW row \in JobRow, row.status # "COMPLETED",
           job' = [job EXCEPT ![k] = row], UNCHANGED <<now, daemon, worker, workerSession, reserved>>,
           DOMAIN call' = Claims, \A i \in Claims : CallFollows(i)'
    PROVE  HealthInv'
<1>1. job \in [Jobs -> JobRow]
  BY DEF HealthInv, HealthTables
<1>2. HealthTables'
  BY <1>1 DEF HealthInv, HealthTables
<1>3. DaemonIsPast' /\ SessionsFollow'
  BY DEF HealthInv, DaemonIsPast, SessionsFollow, Held
<1>4. ASSUME NEW j \in Jobs PROVE ResultStands(j)'
  <2>1. CASE j = k
    BY <1>1, <2>1 DEF ResultStands
  <2>2. CASE j # k
    <3>1. job'[j] = job[j] /\ ResultStands(j)
      BY <1>1, <2>2 DEF HealthInv
    <3> QED BY <3>1 DEF ResultStands, Held
  <2> QED BY <2>1, <2>2
<1> QED BY <1>2, <1>3, <1>4 DEF HealthInv

LEMMA RequestStep ==
    ASSUME HealthInv, NEW k \in Jobs, RequestCheck(k)
    PROVE  HealthInv'
<1>1. job[k] \in JobRow /\ worker \in WorkerRows
  BY DEF HealthInv, HealthTables
<1>2. PICK row : row = [job[k] EXCEPT !.status = "PENDING", !.generation = worker.generation,
                                      !.version = worker.version]
  OBVIOUS
<1>3. row \in JobRow /\ row.status = "PENDING"
  <2>1. worker.generation \in Nat /\ worker.version \in Nat
    BY <1>1 DEF WorkerRows
  <2> HIDE WorkerHealthAssumption
  <2> QED BY <1>1, <1>2, <2>1 DEF JobRow
<1>4. /\ job' = [job EXCEPT ![k] = row]
      /\ UNCHANGED <<now, daemon, worker, workerSession, reserved, call>>
  BY <1>2 DEF RequestCheck
<1>5. DOMAIN call' = Claims /\ \A j \in Claims : CallFollows(j)'
  BY <1>4, NoCallMoves
<1> QED BY <1>3, <1>4, <1>5, OneJobMoves

LEMMA LoseLeaseStep ==
    ASSUME HealthInv, NEW k \in Jobs, LoseLease(k)
    PROVE  HealthInv'
<1>1. job[k] \in JobRow
  BY DEF HealthInv, HealthTables
<1>2. PICK st \in {"RETRY", "DEAD"} : st = IF job[k].fence < MaxTries THEN "RETRY" ELSE "DEAD"
  OBVIOUS
<1>3. PICK row : row = [job[k] EXCEPT !.status = st]
  OBVIOUS
<1>4. row \in JobRow /\ row.status # "COMPLETED"
  <2> HIDE WorkerHealthAssumption
  <2> QED BY <1>1, <1>2, <1>3 DEF JobRow
<1>5. /\ job' = [job EXCEPT ![k] = row]
      /\ UNCHANGED <<now, daemon, worker, workerSession, reserved, call>>
  BY <1>2, <1>3 DEF LoseLease
<1>6. DOMAIN call' = Claims /\ \A j \in Claims : CallFollows(j)'
  BY <1>5, NoCallMoves
<1> QED BY <1>4, <1>5, <1>6, OneJobMoves

LEMMA ClaimCheckStep ==
    ASSUME HealthInv, NEW k \in Jobs, ClaimCheck(k)
    PROVE  HealthInv'
<1>1. job[k] \in JobRow /\ DOMAIN call = Claims /\ now \in Nat
  BY DEF HealthInv, HealthTables
<1>2. PICK n : n = job[k].fence + 1
  OBVIOUS
<1>3. n \in 1..MaxTries
  BY <1>1, <1>2 DEF ClaimCheck, JobRow
<1>4. PICK row : row = [job[k] EXCEPT !.status = "RUNNING", !.fence = n]
  OBVIOUS
<1>5. row \in JobRow /\ row.status # "COMPLETED"
  <2>1. n \in 0..MaxTries
    BY <1>3
  <2> HIDE WorkerHealthAssumption
  <2> QED BY <1>1, <1>4, <2>1 DEF JobRow
<1>6. PICK i \in Claims : i = <<k, n>>
  BY <1>3 DEF Claims
<1>7. PICK x : x = [NoCall EXCEPT !.phase = "ASKED", !.sent = now]
  OBVIOUS
<1>8. /\ job' = [job EXCEPT ![k] = row] /\ call' = [call EXCEPT ![i] = x]
      /\ UNCHANGED <<now, daemon, worker, workerSession, reserved>>
  BY <1>2, <1>4, <1>6, <1>7 DEF ClaimCheck
<1>9. CallFollows(i)'
  <2>1. x = [phase |-> "ASKED", sent |-> now, report |-> None, twist |-> "none", seen |-> None]
    BY <1>7 DEF NoCall
  <2>2. call'[i] = x
    BY <1>1, <1>8
  <2> QED BY <1>1, <1>8, <2>1, <2>2, FreshCall
<1>10. DOMAIN call' = Claims /\ \A j \in Claims : CallFollows(j)'
  BY <1>8, <1>9, OneCallMoves
<1> QED BY <1>5, <1>8, <1>10, OneJobMoves

\* A step of one call and of nothing else.
LEMMA CallAlone ==
    ASSUME HealthInv, NEW i \in Claims, NEW x, call' = [call EXCEPT ![i] = x], CallFollows(i)',
           UNCHANGED <<now, daemon, worker, workerSession, reserved, job>>
    PROVE  HealthInv'
<1>1. DOMAIN call' = Claims /\ \A j \in Claims : CallFollows(j)'
  BY OneCallMoves
<1>2. HealthTables' /\ DaemonIsPast'
  BY <1>1 DEF HealthInv, HealthTables, DaemonIsPast
<1> QED BY <1>1, <1>2, RowsKept DEF HealthInv

LEMMA AnswerKeeps ==
    ASSUME HealthInv, NEW i \in Claims, NEW why \in [Components -> SUBSET Reasons],
           NEW active \in 0..daemon.max, NEW twist, Answer(i, why, active, twist)
    PROVE  HealthInv'
<1>1. CallFollows(i) /\ DOMAIN call = Claims /\ now \in Nat /\ daemon \in Daemon /\ DaemonIsPast
  BY DEF HealthInv, HealthTables
<1>2. PICK r : r = PublishedReport(daemon, now, why, active, twist)
  OBVIOUS
<1>3. PICK x : x = [call[i] EXCEPT !.phase = "ANSWERED", !.twist = twist, !.report = r]
  OBVIOUS
<1>4. /\ call[i].phase = "ASKED" /\ call' = [call EXCEPT ![i] = x]
      /\ \A c \in Components : Honest(daemon, c, why[c], active)
      /\ UNCHANGED <<now, daemon, worker, workerSession, reserved, job>>
  BY <1>2, <1>3 DEF Answer
<1>5. call'[i] = x
  BY <1>1, <1>4
<1>6. /\ x = [phase |-> "ANSWERED", sent |-> call[i].sent, report |-> r, twist |-> twist,
              seen |-> call[i].seen]
      /\ call[i].seen = None
      /\ call[i].sent \in Nat /\ call[i].sent <= now /\ now <= call[i].sent + Deadline
  <2>1. PICK y : y = call[i]
    OBVIOUS
  <2>2. /\ y = [phase |-> y.phase, sent |-> y.sent, report |-> y.report,
                twist |-> y.twist, seen |-> y.seen]
        /\ y.seen = None /\ y.sent \in Nat /\ y.sent <= now /\ now <= y.sent + Deadline
    BY <1>1, <1>4, <2>1 DEF CallFollows
  <2>3. x = [phase |-> "ANSWERED", sent |-> y.sent, report |-> r, twist |-> twist, seen |-> y.seen]
    <3> HIDE WorkerHealthAssumption
    <3> QED BY <1>3, <2>1, <2>2
  <2> QED BY <2>1, <2>2, <2>3
<1>7. AnsweredFrom(i, daemon, now, why, active)'
  <2>1. /\ call'[i].sent = call[i].sent /\ call'[i].report = r /\ call'[i].twist = twist
    BY <1>5, <1>6
  <2>2. /\ daemon.beat <= now /\ \A c \in Components : daemon.probed[c] <= now
    BY <1>1 DEF DaemonIsPast
  <2>3. IsReport(r, daemon, now, why, active, twist)
    BY <1>2 DEF IsReport
  <2> HIDE WorkerHealthAssumption
  <2>4. \A c \in Components : Honest(daemon, c, why[c], active)'
    BY <1>4 DEF Honest, Found
  <2> QED BY <1>1, <1>4, <1>6, <2>1, <2>2, <2>3, <2>4 DEF AnsweredFrom, IsReport
<1>8. CallFollows(i)'
  <2>1. \E dm \in Daemon, t \in Nat, wy \in [Components -> SUBSET Reasons] :
           \E ac \in 0..dm.max : AnsweredFrom(i, dm, t, wy, ac)'
    <3>1. daemon' = daemon /\ now' = now
      BY <1>4
    <3>2. PICK dm, t : dm = daemon /\ t = now
      OBVIOUS
    <3>3. AnsweredFrom(i, dm, t, why, active)'
      BY <1>7, <3>1, <3>2 DEF AnsweredFrom
    <3> QED BY <1>1, <3>2, <3>3
  <2>2. call'[i] = [phase |-> "ANSWERED", sent |-> call[i].sent, report |-> r, twist |-> twist,
                    seen |-> None] /\ now' = now
    BY <1>4, <1>5, <1>6
  <2>3. /\ call'[i].phase = "ANSWERED" /\ call'[i].seen = None /\ call'[i].sent = call[i].sent
        /\ call'[i] = [phase |-> call'[i].phase, sent |-> call'[i].sent,
                       report |-> call'[i].report, twist |-> call'[i].twist,
                       seen |-> call'[i].seen]
    BY <2>2
  <2> HIDE WorkerHealthAssumption
  <2> QED BY <1>6, <2>1, <2>2, <2>3 DEF CallFollows
<1> QED BY <1>4, <1>8, CallAlone

LEMMA ObserveStep ==
    ASSUME HealthInv, NEW i \in Claims, Observe(i)
    PROVE  HealthInv'
<1>1. CallFollows(i) /\ DOMAIN call = Claims /\ now \in Nat
  BY DEF HealthInv, HealthTables
<1>2. PICK o : o = FromReport(i, call[i].report)
  OBVIOUS
<1>3. call[i].phase = "ANSWERED"
  BY DEF Observe
<1>4. PICK dm \in Daemon, t \in Nat, why \in [Components -> SUBSET Reasons] :
         \E active \in 0..dm.max : AnsweredFrom(i, dm, t, why, active)
  BY <1>1, <1>3 DEF CallFollows
<1>5. PICK active \in 0..dm.max : AnsweredFrom(i, dm, t, why, active)
  BY <1>4
<1>6. call[i].sent \in Nat /\ now <= call[i].sent + Deadline
  BY <1>1, <1>3 DEF CallFollows
<1>7. o \in Observed /\ Justified(o)
  BY <1>1, <1>2, <1>5, <1>6, ReportIsJustified
<1>8. PICK x : x = [NoCall EXCEPT !.phase = "OBSERVED", !.seen = o]
  OBVIOUS
<1>9. call' = [call EXCEPT ![i] = x] /\ UNCHANGED <<now, daemon, worker, workerSession, reserved, job>>
  BY <1>2, <1>8 DEF Observe
<1>10. CallFollows(i)'
  <2>1. x = [phase |-> "OBSERVED", sent |-> 0, report |-> None, twist |-> "none", seen |-> o]
    BY <1>8 DEF NoCall
  <2>2. call'[i] = x
    BY <1>1, <1>9
  <2> QED BY <1>7, <2>1, <2>2, ObservedCall
<1> QED BY <1>9, <1>10, CallAlone

LEMMA CallFailsStep ==
    ASSUME HealthInv, NEW i \in Claims, NEW e \in Errors, CallFails(i, e)
    PROVE  HealthInv'
<1>1. DOMAIN call = Claims
  BY DEF HealthInv, HealthTables
<1>2. PICK o : o = Failed(e)
  OBVIOUS
<1>3. o \in Observed /\ Justified(o)
  BY <1>2, FailedIsJustified
<1>4. PICK x : x = [NoCall EXCEPT !.phase = "OBSERVED", !.seen = o]
  OBVIOUS
<1>5. call' = [call EXCEPT ![i] = x] /\ UNCHANGED <<now, daemon, worker, workerSession, reserved, job>>
  BY <1>2, <1>4 DEF CallFails
<1>6. CallFollows(i)'
  <2>1. x = [phase |-> "OBSERVED", sent |-> 0, report |-> None, twist |-> "none", seen |-> o]
    BY <1>4 DEF NoCall
  <2>2. call'[i] = x
    BY <1>1, <1>5
  <2> QED BY <1>3, <2>1, <2>2, ObservedCall
<1> QED BY <1>5, <1>6, CallAlone

\* The call of a handler that has finished.
LEMMA CallEnds ==
    ASSUME HealthInv, NEW i \in Claims, UNCHANGED <<now, daemon>>,
           call' = [call EXCEPT ![i] = [NoCall EXCEPT !.phase = "ENDED"]]
    PROVE  CallFollows(i)'
<1>1. DOMAIN call = Claims /\ now \in Nat
  BY DEF HealthInv, HealthTables
<1>2. PICK x : x = [NoCall EXCEPT !.phase = "ENDED"]
  OBVIOUS
<1>3. x = [phase |-> "ENDED", sent |-> 0, report |-> None, twist |-> "none", seen |-> None]
  BY <1>2 DEF NoCall
<1>4. call'[i] = x
  BY <1>1, <1>2
<1> QED BY <1>1, <1>3, <1>4, FreshCall

LEMMA ConflictStep ==
    ASSUME HealthInv, NEW i \in Claims, Conflict(i)
    PROVE  HealthInv'
<1>1. CallFollows(i)'
  BY CallEnds DEF Conflict
<1> QED BY <1>1, CallAlone DEF Conflict

\* What a reconciliation does to the rows: the generation stays, a quarantine
\* stays, and READY comes only from a current, qualified observation.
LEMMA ReconcileFacts ==
    ASSUME HealthInv, NEW i \in Claims, ReconcileWorker(i)
    PROVE  \E st \in WorkerStatus :
              /\ worker' \in WorkerRows /\ worker'.status = st
              /\ worker'.generation = worker.generation
              /\ worker.status = "QUARANTINED" => st = "QUARANTINED"
              /\ Sever(st) /\ Complete(i, st)
              /\ st = "READY" /\ worker.status # "READY" =>
                    ~Superseded(i[1]) /\ Qualify(call[i].seen) = "READY"
<1>0. /\ worker \in WorkerRows /\ call[i].phase = "OBSERVED"
      /\ call[i].seen \in Observed
  <2>1. CallFollows(i) /\ call[i].phase = "OBSERVED" /\ worker \in WorkerRows
    BY DEF HealthInv, HealthTables, ReconcileWorker
  <2> QED BY <2>1 DEF CallFollows
<1>1. PICK o : o = call[i].seen
  OBVIOUS
<1>2. o.requested \in WorkerStatus
  <2> HIDE WorkerHealthAssumption
  <2> QED BY <1>0, <1>1 DEF Observed
<1>3. Qualify(o) \in WorkerStatus /\ (worker.status = "QUARANTINED" => Qualify(o) = "QUARANTINED")
  BY <1>2 DEF Qualify, WorkerStatus
<1>4. worker.status \in WorkerStatus /\ worker.version + 1 \in Nat
  BY <1>0 DEF WorkerRows
<1> DEFINE stale == Superseded(i[1])
           forced == stale /\ o.requested = "QUARANTINED" /\ worker.status # "QUARANTINED"
<1>5. PICK st : st = IF forced THEN "QUARANTINED"
                     ELSE IF stale THEN worker.status ELSE Qualify(o)
  OBVIOUS
<1>6. /\ worker' = IF stale /\ ~forced THEN worker
                   ELSE [worker EXCEPT !.status = st, !.version = worker.version + 1]
      /\ Sever(st) /\ Complete(i, st)
  BY <1>1, <1>5 DEF ReconcileWorker
<1> HIDE DEF stale
<1>7. st \in WorkerStatus /\ (worker.status = "QUARANTINED" => st = "QUARANTINED")
      /\ (st = "READY" /\ worker.status # "READY" => ~stale /\ Qualify(o) = "READY")
  BY <1>3, <1>4, <1>5 DEF WorkerStatus
<1>8. worker' \in WorkerRows /\ worker'.status = st /\ worker'.generation = worker.generation
  <2>1. CASE stale /\ ~forced
    BY <1>0, <1>5, <1>6, <2>1
  <2>2. CASE ~(stale /\ ~forced)
    <3>1. PICK v \in Nat : v = worker.version + 1
      BY <1>4
    <3>2. worker' = [worker EXCEPT !.status = st, !.version = v]
      BY <1>6, <2>2, <3>1
    <3> HIDE WorkerHealthAssumption
    <3> QED BY <1>0, <1>7, <3>2 DEF WorkerRows
  <2> QED BY <2>1, <2>2
<1> QED BY <1>1, <1>6, <1>7, <1>8 DEF stale

LEMMA ReconcileKeeps ==
    ASSUME HealthInv, NEW i \in Claims, ReconcileWorker(i)
    PROVE  HealthInv'
<1>0. /\ job \in [Jobs -> JobRow] /\ i[1] \in Jobs /\ DOMAIN call = Claims
      /\ worker \in WorkerRows /\ workerSession \in WorkerSessionRows
      /\ reserved \in 0..Concurrency /\ UNCHANGED <<now, daemon>>
  BY DEF HealthInv, HealthTables, Claims, ReconcileWorker
<1>1. PICK st \in WorkerStatus :
         /\ worker' \in WorkerRows /\ worker'.status = st
         /\ worker'.generation = worker.generation
         /\ worker.status = "QUARANTINED" => st = "QUARANTINED"
         /\ Sever(st) /\ Complete(i, st)
  BY ReconcileFacts
<1>2. PICK k \in Jobs : k = i[1]
  BY <1>0
<1>3. PICK res : res = [status |-> st, generation |-> worker.generation]
  OBVIOUS
<1>4. res \in Results /\ res.status = st /\ res.generation = worker.generation
      /\ worker.generation \in Nat
  <2>1. worker.generation \in Nat
    BY <1>0 DEF WorkerRows
  <2> HIDE WorkerHealthAssumption
  <2> QED BY <1>3, <2>1 DEF Results
<1>5. PICK row : row = [job[k] EXCEPT !.status = "COMPLETED", !.result = res]
  OBVIOUS
<1>6. row \in JobRow /\ row.result = res
  <2>1. job[k] \in JobRow
    BY <1>0
  <2> HIDE WorkerHealthAssumption
  <2> QED BY <1>4, <1>5, <2>1 DEF JobRow, Results
<1>7. /\ job' = [job EXCEPT ![k] = row]
      /\ call' = [call EXCEPT ![i] = [NoCall EXCEPT !.phase = "ENDED"]]
  BY <1>1, <1>2, <1>3, <1>5 DEF Complete
<1>8. DOMAIN call' = Claims /\ \A j \in Claims : CallFollows(j)'
  <2>1. CallFollows(i)'
    BY <1>0, <1>7, CallEnds
  <2>2. PICK x : x = [NoCall EXCEPT !.phase = "ENDED"]
    OBVIOUS
  <2> QED BY <1>0, <1>7, <2>1, <2>2, OneCallMoves
<1>9. /\ workerSession' \in WorkerSessionRows /\ reserved' \in 0..Concurrency
      /\ SessionsFollow'
  <2>1. CASE st = "QUARANTINED"
    <3>1. reserved' = 0 /\ workerSession' = IF Held THEN [workerSession EXCEPT !.status = "REVOKED"]
                                           ELSE workerSession
      BY <1>1, <2>1 DEF Sever
    <3>2. workerSession' \in WorkerSessionRows
      BY <1>0, <3>1 DEF WorkerSessionRows
    <3>3. workerSession'.status \notin {"ACTIVE", "EXPIRED"}
      BY <1>0, <3>1 DEF WorkerSessionRows, Held
    <3> QED BY <3>1, <3>2, <3>3 DEF SessionsFollow, Held
  <2>2. CASE st # "QUARANTINED"
    BY <1>0, <1>1, <2>2 DEF Sever, SessionsFollow, HealthInv, Held
  <2> QED BY <2>1, <2>2
<1>h. st = "QUARANTINED" => ~Held'
  <2>1. ASSUME st = "QUARANTINED" PROVE ~Held'
    <3>1. workerSession' = IF Held THEN [workerSession EXCEPT !.status = "REVOKED"]
                           ELSE workerSession
      BY <1>1, <2>1 DEF Sever
    <3> QED BY <1>0, <3>1 DEF WorkerSessionRows, Held
  <2> QED BY <2>1
<1>10. ASSUME NEW j \in Jobs PROVE ResultStands(j)'
  <2>1. CASE j = k
    <3>1. job'[j].result = res
      BY <1>0, <1>6, <1>7, <2>1
    <3> QED BY <1>1, <1>4, <1>h, <3>1 DEF ResultStands
  <2>2. CASE j # k
    <3>1. job'[j] = job[j] /\ ResultStands(j)
      BY <1>0, <1>7, <2>2 DEF HealthInv
    <3> QED BY <1>1, <1>h, <3>1 DEF ResultStands
  <2> QED BY <2>1, <2>2
<1>11. HealthTables' /\ DaemonIsPast'
  <2>1. job' \in [Jobs -> JobRow]
    BY <1>0, <1>6, <1>7
  <2> QED BY <1>0, <1>1, <1>8, <1>9, <2>1 DEF HealthInv, HealthTables, DaemonIsPast
<1> QED BY <1>8, <1>9, <1>10, <1>11 DEF HealthInv

-----------------------------------------------------------------------------
(***************************************************************************)
(* Theorems.                                                               *)
(***************************************************************************)
\* Every answer a handler holds was given within its call, every observation
\* was justified when it was made, and a recorded quarantine stands.
THEOREM HealthInvariant == HealthSpec => []HealthInv
<1>1. HealthInit => HealthInv
  BY HealthInvInit
<1>2. HealthInv /\ [HealthNext]_healthVars => HealthInv'
  <2> SUFFICES ASSUME HealthInv, [HealthNext]_healthVars PROVE HealthInv'
    OBVIOUS
  <2>1. CASE DaemonStep
    BY <2>1, HealthTickStep, BeatStep, ProbeStep DEF DaemonStep
  <2>2. CASE RowStep
    BY <2>2, WorkerRowSteps
  <2>3. ASSUME NEW k \in Jobs, AskStep(k, Twists \cup {"none"}) PROVE HealthInv'
    <3>1. ASSUME NEW n \in 1..MaxTries,
                 \/ AnswerStep(<<k, n>>, Twists \cup {"none"})
                 \/ Observe(<<k, n>>)
                 \/ \E e \in Errors : CallFails(<<k, n>>, e)
          PROVE  HealthInv'
      <4>1. PICK i \in Claims : i = <<k, n>>
        BY DEF Claims
      <4>2. CASE AnswerStep(i, Twists \cup {"none"})
        BY <4>2, AnswerKeeps DEF AnswerStep
      <4>3. CASE Observe(i)
        BY <4>3, ObserveStep
      <4>4. CASE \E e \in Errors : CallFails(i, e)
        BY <4>4, CallFailsStep
      <4> QED BY <3>1, <4>1, <4>2, <4>3, <4>4
    <3> QED BY <2>3, <3>1, RequestStep, ClaimCheckStep DEF AskStep
  <2>4. ASSUME NEW k \in Jobs, SettleStep(k) PROVE HealthInv'
    <3>1. ASSUME NEW n \in 1..MaxTries, ReconcileWorker(<<k, n>>) \/ Conflict(<<k, n>>)
          PROVE  HealthInv'
      <4>1. <<k, n>> \in Claims
        BY DEF Claims
      <4> QED BY <3>1, <4>1, ReconcileKeeps, ConflictStep
    <3> QED BY <2>4, <3>1, LoseLeaseStep DEF SettleStep
  <2>5. CASE UNCHANGED healthVars
    <3>1. UNCHANGED <<now, daemon, worker, workerSession, reserved, job, call>>
      BY <2>5 DEF healthVars
    <3>2. daemon' \in Daemon /\ DaemonIsPast'
      BY <3>1 DEF HealthInv, HealthTables, DaemonIsPast
    <3> QED BY <3>1, <3>2, DaemonMoves
  <2> QED BY <2>1, <2>2, <2>3, <2>4, <2>5 DEF HealthNext
<1> QED BY <1>1, <1>2, PTL DEF HealthSpec

\* The invariant gives the state properties.
LEMMA HealthInvSuffices ==
    ASSUME HealthInv
    PROVE  /\ HealthTypeOK /\ ReadyRestsOnFacts /\ QuarantineHasCause
           /\ DrainingIsSafe /\ UnsafeStaysSevered
<1>1. HealthTypeOK
  <2>1. \A i \in Claims : /\ call[i].phase = "OBSERVED" <=> call[i].seen # None
                          /\ call[i].seen \in Observed \cup {None}
    BY DEF HealthInv, CallFollows
  <2> HIDE WorkerHealthAssumption
  <2> QED BY <2>1 DEF HealthInv, HealthTables, HealthTypeOK, WorkerRows, WorkerSessionRows
<1>2. \A o \in Seen : Justified(o)
  BY DEF HealthInv, CallFollows, Seen
<1>3. ReadyRestsOnFacts /\ QuarantineHasCause /\ DrainingIsSafe
  BY <1>2 DEF Justified, ReadyRestsOnFacts, QuarantineHasCause, DrainingIsSafe
<1>4. UnsafeStaysSevered
  <2> SUFFICES ASSUME NEW k \in Jobs, job[k].status = "COMPLETED",
                      job[k].result.status = "QUARANTINED",
                      job[k].result.generation = worker.generation
               PROVE  worker.status = "QUARANTINED" /\ ~Held /\ reserved = 0
    BY DEF UnsafeStaysSevered
  <2>1. worker.status = "QUARANTINED" /\ ~Held
    BY DEF HealthInv, ResultStands
  <2>2. SessionsFollow /\ reserved \in 0..Concurrency
    BY DEF HealthInv, HealthTables
  <2>3. ~(reserved > 0)
    BY <2>1, <2>2 DEF SessionsFollow
  <2> QED BY <2>1, <2>2, <2>3
<1> QED BY <1>1, <1>3, <1>4

\* READY is given only by a reconciliation that has everything it needs.
LEMMA ReadyComesFrom ==
    ASSUME HealthInv, [HealthNext]_healthVars, worker'.status = "READY", worker.status # "READY"
    PROVE  /\ workerSession.status = "ACTIVE" /\ reserved < Concurrency
           /\ \E i \in Claims :
                  /\ OwnsClaim(i) /\ call[i].phase = "OBSERVED"
                  /\ call[i].seen.requested = "READY" /\ call[i].seen.max = Concurrency
                  /\ job[i[1]].version = worker.version
                  /\ job[i[1]].generation = worker.generation
<1>1. PICK i \in Claims : ReconcileWorker(i)
  <2>1. worker' # worker
    OBVIOUS
  <2>2. worker \in WorkerRows
    BY DEF HealthInv, HealthTables
  <2>3. ASSUME NEW st \in {"REGISTERED", "QUARANTINED"}, AdvanceGeneration(st) PROVE FALSE
    <3>1. worker'.status = st
      BY <2>2, <2>3 DEF AdvanceGeneration, WorkerRows
    <3> QED BY <3>1
  <2>9. ~OperatorQuarantine
    BY <2>2 DEF OperatorQuarantine, WorkerRows
  <2>4. ~RowStep
    BY <2>1, <2>3, <2>9 DEF RowStep, OpenSession, ExpireSession, CloseSession, Admit, Release
  <2>5. ~DaemonStep
    BY <2>1 DEF DaemonStep, Tick, Beat, ProbeComponent
  <2>6. ~\E k \in Jobs : AskStep(k, Twists \cup {"none"})
    BY <2>1 DEF AskStep, RequestCheck, ClaimCheck, AnswerStep, Answer, Observe, CallFails
  <2>7. PICK k \in Jobs : SettleStep(k)
    BY <2>1, <2>4, <2>5, <2>6 DEF HealthNext, healthVars
  <2>8. PICK n \in 1..MaxTries : ReconcileWorker(<<k, n>>)
    BY <2>1, <2>7 DEF SettleStep, LoseLease, Conflict
  <2> QED BY <2>8 DEF Claims
<1>2. ~Superseded(i[1]) /\ Qualify(call[i].seen) = "READY"
  BY <1>1, ReconcileFacts
<1>3. PICK o : o = call[i].seen
  OBVIOUS
<1>4. /\ o.requested = "READY" /\ o.max = Concurrency
      /\ workerSession.status = "ACTIVE" /\ ~(reserved >= Concurrency)
  <2> HIDE WorkerHealthAssumption
  <2>1. Qualify(o) = "READY"
    BY <1>2, <1>3
  <2>2. ~(worker.status = "QUARANTINED")
    BY <2>1 DEF Qualify
  <2>3. o.requested = "READY" /\ o.ready
    <3>1. o.requested = "READY"
      BY <2>1, <2>2 DEF Qualify
    <3>2. call[i].phase = "OBSERVED" /\ CallFollows(i)
      BY <1>1 DEF HealthInv, ReconcileWorker
    <3> QED BY <1>3, <3>1, <3>2 DEF CallFollows, Justified
  <2>4. o.max = Concurrency
    BY <2>1, <2>2, <2>3 DEF Qualify
  <2>5. workerSession.status = "ACTIVE"
    BY <2>1, <2>2, <2>3, <2>4 DEF Qualify
  <2>6. ~(reserved >= Concurrency)
    BY <2>1, <2>2, <2>3, <2>4, <2>5 DEF Qualify
  <2> QED BY <2>3, <2>4, <2>5, <2>6
<1>5. reserved < Concurrency
  BY <1>4 DEF HealthInv, HealthTables
<1>6. OwnsClaim(i) /\ call[i].phase = "OBSERVED"
  BY <1>1 DEF ReconcileWorker
<1> QED BY <1>2, <1>3, <1>4, <1>5, <1>6 DEF Superseded

\* Verdicts on a worker are justified and stick: READY rests on facts that are
\* as required and recent, a quarantine has a cause and severs for good, and
\* READY is given only to a qualified row.
THEOREM VerdictsStayJustified == HealthSpec => VerdictsAreJustified
<1>1. HealthInv => /\ HealthTypeOK
                   /\ ReadyRestsOnFacts
                   /\ QuarantineHasCause
                   /\ DrainingIsSafe
                   /\ UnsafeStaysSevered
  BY HealthInvSuffices
<1>2. HealthInv /\ [HealthNext]_healthVars =>
        ((worker'.status = "READY" /\ worker.status # "READY") =>
           /\ workerSession.status = "ACTIVE" /\ reserved < Concurrency
           /\ \E i \in Claims :
                  /\ OwnsClaim(i) /\ call[i].phase = "OBSERVED"
                  /\ call[i].seen.requested = "READY" /\ call[i].seen.max = Concurrency
                  /\ job[i[1]].version = worker.version
                  /\ job[i[1]].generation = worker.generation)
  BY ReadyComesFrom
<1> QED BY <1>1, <1>2, HealthInvariant, PTL DEF HealthSpec, VerdictsAreJustified, ReadyIsQualified
=============================================================================
