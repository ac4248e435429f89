-------------------------- MODULE RemoteCallsProofs --------------------------
(***************************************************************************)
(* What ASF asks of Runmill.                                               *)
(*                                                                         *)
(* Submission: a Work Order is submitted as it was stored, and what is in  *)
(* doubt stays owned and provable, for any number of attempts, orders,     *)
(* callers, sessions and late or repeated arrivals.                        *)
(*                                                                         *)
(* ControlClient: a definite error means nothing was applied, and an       *)
(* answer that is returned is proof, for any number of calls, runs,        *)
(* envelopes and restarts of Runmill.                                      *)
(***************************************************************************)
EXTENDS ControlClient, Submission, SequenceTheorems, TLAPS

-----------------------------------------------------------------------------
(***************************************************************************)
(* The inductive invariant.  SubmissionIsSound is about the two ends: what *)
(* ASF stored and what Runmill admitted, as a caller's proof names it.     *)
(* Between them lie the places an envelope passes through.                 *)
(***************************************************************************)
\* The stored envelope is the attempt's own, and the attempt names it.
StoredIsOwn ==
    \A a \in Attempts : orders[a] # NoRow =>
        orders[a].attempt = a /\ attempts[a].digest = orders[a].digest

\* Whatever is on its way, or about to be, is the stored envelope.
InFlightIsStored ==
    /\ \A e \in wire : orders[e.attempt] = e
    /\ \A a \in Attempts : effects[a].request \in {NoRow, orders[a]}

\* A case is about the stored envelope, and remembers the generation of a
\* session that existed; the effect it doubts stays in doubt.
CasesAreExact ==
    \A a \in Attempts : cases[a] # NoRow =>
        /\ cases[a].attempt = a /\ cases[a].envelope = orders[a]
        /\ cases[a].session \in 1..Len(sessions)
        /\ cases[a].generation = sessions[cases[a].session]
        /\ effects[a].status = "AMBIGUOUS"

\* A case and its escalation are created together.
CasesAreEscalated ==
    \A a \in Attempts :
        /\ escalations[a].id = NoRow <=> cases[a] = NoRow
        /\ escalations[a].status = NoRow <=> cases[a] = NoRow

\* What a caller holds: a call names what it works on, a call past the load
\* has a case, and a proof is of the run Runmill has, at the case's generation.
CallsAreHonest ==
    \A c \in Callers :
        LET a == calls[c].attempt IN
        /\ calls[c].pc # "idle" =>
              /\ a \in Attempts /\ calls[c].escalation \in EscalationIds
              /\ calls[c].session \in 1..Len(sessions) /\ effects[a].request # NoRow
        /\ calls[c].pc \in {"cased", "proved"} => cases[a] # NoRow
        /\ calls[c].pc = "proved" =>
              /\ calls[c].proof \in Proofs /\ submissions[a] # NoRow
              /\ calls[c].proof.run = submissions[a].identity
              /\ calls[c].proof.generation = submissions[a].generation
              /\ calls[c].proof.version <= submissions[a].version

SubInv ==
    /\ SubTypeOK
    /\ StoredIsOwn
    /\ InFlightIsStored
    /\ AdmittedAsStored
    /\ CasesAreExact
    /\ CasesAreEscalated
    /\ CallsAreHonest

-----------------------------------------------------------------------------
(***************************************************************************)
(* Facts about the constructors.                                           *)
(***************************************************************************)
\* A signed envelope carries the attempt it was signed for and the order's
\* other fields (build_signed_work_order).
LEMMA EnvelopeFields ==
    ASSUME NEW e \in SignedOrders
    PROVE  /\ e.attempt \in Attempts /\ e # NoRow
           /\ QualifiedSubmissionIdentity(e) \in Identities
           /\ QualifiedSubmissionIdentity(e).attempt = e.attempt
           /\ QualifiedSubmissionIdentity(e).requestDigest = e
BY NoRowAssumption DEF SignedOrders, SignedWorkOrder, Identities, QualifiedSubmissionIdentity

\* Equal identities are identities of one envelope: the request digest covers
\* all of it.
LEMMA IdentityIsExact ==
    ASSUME NEW e, NEW f, QualifiedSubmissionIdentity(e) = QualifiedSubmissionIdentity(f)
    PROVE  e = f
<1>1. QualifiedSubmissionIdentity(e).requestDigest = QualifiedSubmissionIdentity(f).requestDigest
  OBVIOUS
<1> QED  BY <1>1 DEF QualifiedSubmissionIdentity

\* The current generation is a number, and sessions once opened keep theirs.
LEMMA SessionFacts ==
    ASSUME sessions \in Seq(Nat), Len(sessions) \in 1..MaxSessions
    PROVE  /\ CurrentGeneration \in Nat
           /\ \A s \in 1..Len(sessions) : sessions[s] \in Nat
           /\ \A s \in DOMAIN sessions : s \in 1..Len(sessions)
           /\ \A g \in Nat : /\ Append(sessions, g) \in Seq(Nat)
                             /\ Len(Append(sessions, g)) = Len(sessions) + 1
                             /\ \A s \in 1..Len(sessions) : Append(sessions, g)[s] = sessions[s]
BY SubmissionAssumption DEF CurrentGeneration

\* A proof is made of the stored run, at the case's session and generation
\* (validate_qualified_submission_receipt_for_recovery).
LEMMA ReceiptFacts ==
    ASSUME NEW k \in CaseRows, NEW r \in RemoteRuns \cup {NoRow}, validate_receipt(k, r) # NoRow
    PROVE  /\ r \in RemoteRuns /\ validate_receipt(k, r) \in Proofs
           /\ validate_receipt(k, r).run = r.identity
           /\ validate_receipt(k, r).generation = k.generation
           /\ validate_receipt(k, r).version = r.version /\ r.version \in Nat
           /\ k.generation = r.generation
BY DEF validate_receipt, CaseRows, RemoteRuns, Proofs

\* A lookup returns the attempt's run, and only for its own identity.
LEMMA LookupFacts ==
    ASSUME submissions \in [Attempts -> RemoteRuns \cup {NoRow}], NEW e \in SignedOrders,
           NEW r, r = lookup_qualified_submission(QualifiedSubmissionIdentity(e))
    PROVE  /\ r \in RemoteRuns \cup {NoRow}
           /\ r # NoRow => r = submissions[e.attempt] /\ r.identity = QualifiedSubmissionIdentity(e)
           /\ submissions[e.attempt] # NoRow
                /\ submissions[e.attempt].identity = QualifiedSubmissionIdentity(e)
              => r = submissions[e.attempt]
BY EnvelopeFields DEF lookup_qualified_submission

-----------------------------------------------------------------------------
(***************************************************************************)
(* Types.                                                                  *)
(***************************************************************************)
\* What a call learns has the type of what it may know.
LEMMA CallEdits ==
    ASSUME NEW k \in CallRows
    PROVE  /\ \A p \in Proofs : [k EXCEPT !.pc = "proved", !.proof = p, !.answer = NoRow] \in CallRows
           /\ \A v \in AdoptionErrors : [k EXCEPT !.answer = v] \in CallRows
BY DEF CallRows

\* Whatever an operator may do to an escalation leaves it with a status.
LEMMA MovesFacts ==
    ASSUME NEW s \in DOMAIN EscalationMoves, NEW t \in EscalationMoves[s]
    PROVE  s \in {"OPEN", "ACKNOWLEDGED"} /\ t \in {"ACKNOWLEDGED", "CANCELLED"} /\ t \in EscalationStatuses
BY DEF EscalationMoves, EscalationStatuses

\* The initial tables are empty.
LEMMA SubInitType == SubInit => SubTypeOK
<1> SUFFICES ASSUME SubInit PROVE SubTypeOK  OBVIOUS
<1>1. /\ attempts \in [Attempts -> AttemptRows] /\ effects \in [Attempts -> EffectRows]
      /\ escalations \in [Attempts -> EscalationRows] /\ calls \in [Callers -> CallRows]
  BY DEF SubInit, NoEffect, NoCall, AttemptRows, EffectRows, EscalationRows, CallRows
<1>2. sessions \in Seq(Nat) /\ Len(sessions) \in 1..MaxSessions
  BY SubmissionAssumption DEF SubInit
<1> QED  BY <1>1, <1>2 DEF SubInit, SubTypeOK, NoEffect

\* Storing, fencing, carrying out and losing a submission keep the types.
LEMMA SendingKeepsType ==
    ASSUME SubTypeOK, NEW a \in Attempts,
           \/ \E o \in Orders : persist_signed_work_order(a, o)
           \/ Fence(a) \/ CommitEffect(a) \/ Send(a) \/ Expire(a)
    PROVE  SubTypeOK'
<1> USE DEF SubTypeOK, remoteVars, recoveryVars
<1>1. ASSUME NEW o \in Orders, persist_signed_work_order(a, o) PROVE SubTypeOK'
  <2>1. SignedWorkOrder(a, o) \in SignedOrders /\ SignedWorkOrder(a, o).digest = o.digest
    BY DEF SignedOrders, SignedWorkOrder
  <2>2. attempts' \in [Attempts -> AttemptRows]
    BY <1>1, <2>1 DEF persist_signed_work_order, AttemptRows
  <2>3. orders' \in [Attempts -> SignedOrders \cup {NoRow}]
    BY <1>1, <2>1 DEF persist_signed_work_order
  <2> QED  BY <1>1, <2>2, <2>3 DEF persist_signed_work_order
<1>2. CASE Fence(a)
  BY <1>2 DEF Fence
<1>3. CASE CommitEffect(a)
  <2>1. orders[a] \in SignedOrders /\ StoredEffect(a) \in EffectRows
    BY <1>3, EnvelopeFields DEF CommitEffect, StoredEffect, EffectRows, EffectStatuses
  <2>2. effects' = [effects EXCEPT ![a] = effects'[a]] /\ effects'[a] \in {StoredEffect(a), effects[a]}
    BY <1>3 DEF CommitEffect
  <2>3. effects' \in [Attempts -> EffectRows]
    BY <2>1, <2>2
  <2>4. attempts' \in [Attempts -> AttemptRows]
    BY <1>3, SMTT(30) DEF CommitEffect, AttemptRows
  <2>5. StoredEffect(a).status = NoRow <=> StoredEffect(a).request = NoRow
    BY <2>1, EnvelopeFields, NoRowAssumption DEF StoredEffect, EffectStatuses
  <2>6. \A b \in Attempts : effects'[b].status = NoRow <=> effects'[b].request = NoRow
    BY <2>2, <2>5
  <2> QED  BY <1>3, <2>3, <2>4, <2>6 DEF CommitEffect
<1>4. CASE Send(a)
  <2>1. effects' \in [Attempts -> EffectRows]
    BY <1>4 DEF Send, EffectRows, EffectStatuses
  <2>2. effects[a].request # NoRow /\ effects[a].request \in SignedOrders
    BY <1>4, NoRowAssumption DEF Send, EffectRows, EffectStatuses
  <2>3. \A b \in Attempts : effects'[b].status = NoRow <=> effects'[b].request = NoRow
    BY <1>4, <2>2, NoRowAssumption DEF Send, EffectRows, EffectStatuses
  <2> QED  BY <1>4, <2>1, <2>2, <2>3 DEF Send
<1>5. CASE Expire(a)
  <2>1. effects' \in [Attempts -> EffectRows]
    BY <1>5 DEF Expire, EffectRows, EffectStatuses
  <2>2. \A b \in Attempts : effects'[b].status = NoRow <=> effects'[b].request = NoRow
    BY <1>5, NoRowAssumption DEF Expire, EffectRows, EffectStatuses
  <2> QED  BY <1>5, <2>1, <2>2 DEF Expire
<1> QED  BY <1>1, <1>2, <1>3, <1>4, <1>5

\* Runmill's steps and the worker's sessions keep the types.
LEMMA RemoteKeepsType ==
    ASSUME SubTypeOK,
           \/ \E a \in Attempts : RunAdvances(a)
           \/ \E e \in SignedOrders : Arrive(e) \/ Drop(e)
           \/ SessionEnds \/ SessionOpens
    PROVE  SubTypeOK'
<1> USE DEF SubTypeOK, asfVars
<1>1. ASSUME NEW a \in Attempts, RunAdvances(a) PROVE SubTypeOK'
  <2>1. submissions' \in [Attempts -> RemoteRuns \cup {NoRow}]
    <3>1. submissions[a] \in RemoteRuns /\ submissions[a].version + 1 \in Nat
      BY <1>1 DEF RunAdvances, RemoteRuns
    <3>2. [submissions[a] EXCEPT !.version = submissions[a].version + 1] \in RemoteRuns
      BY <3>1 DEF RemoteRuns
    <3> QED  BY <1>1, <3>2 DEF RunAdvances
  <2> QED  BY <1>1, <2>1 DEF RunAdvances
<1>2. ASSUME NEW e \in SignedOrders, Arrive(e) PROVE SubTypeOK'
  <2>1. submit_work_order(e) \in RemoteRuns \cup {NoRow}
    BY EnvelopeFields, SessionFacts DEF submit_work_order, NewRun, RemoteRuns
  <2>2. submissions' \in [Attempts -> RemoteRuns \cup {NoRow}]
    BY <1>2, <2>1 DEF Arrive
  <2>3. wire' \subseteq SignedOrders
    BY <1>2 DEF Arrive
  <2> QED  BY <1>2, <2>2, <2>3 DEF Arrive
<1>3. ASSUME NEW e \in SignedOrders, Drop(e) PROVE SubTypeOK'
  BY <1>3 DEF Drop
<1>4. CASE SessionEnds
  BY <1>4 DEF SessionEnds
<1>5. CASE SessionOpens
  <2>1. PICK g \in Nat : sessions' = Append(sessions, g)
    BY <1>5, SessionFacts DEF SessionOpens
  <2>2. sessions' \in Seq(Nat) /\ Len(sessions') \in 1..MaxSessions
    BY <1>5, <2>1, SessionFacts, SubmissionAssumption DEF SessionOpens
  <2> QED  BY <1>5, <2>2 DEF SessionOpens
<1> QED  BY <1>1, <1>2, <1>3, <1>4, <1>5

\* The operator and the recovery's callers keep the types.
LEMMA RecoveryKeepsType ==
    ASSUME SubTypeOK, CallsAreHonest, InFlightIsStored,
           \/ \E a \in Attempts : MoveEscalation(a) \/ DeliveryEnds(a)
           \/ \E c \in Callers :
                 \/ \E a \in Attempts, s \in 1..MaxSessions, x \in EscalationIds : LoadCase(c, a, s, x)
                 \/ create_or_get_case(c) \/ Lookup(c) \/ Adopt(c) \/ GiveUp(c)
    PROVE  SubTypeOK'
<1> USE DEF SubTypeOK, remoteVars, recoveryRest
<1>1. ASSUME NEW a \in Attempts, MoveEscalation(a) \/ DeliveryEnds(a) PROVE SubTypeOK'
  <2>1. CASE MoveEscalation(a)
    <3>1. PICK s \in EscalationStatuses : escalations' = [escalations EXCEPT ![a].status = s]
      BY <2>1, MovesFacts DEF MoveEscalation
    <3>2. escalations' \in [Attempts -> EscalationRows]
      BY <3>1 DEF EscalationRows
    <3> QED  BY <2>1, <3>2 DEF MoveEscalation
  <2>2. CASE DeliveryEnds(a)
    BY <2>2 DEF DeliveryEnds
  <2> QED  BY <1>1, <2>1, <2>2
<1> SUFFICES ASSUME NEW c \in Callers,
                    \/ \E a \in Attempts, s \in 1..MaxSessions, x \in EscalationIds : LoadCase(c, a, s, x)
                    \/ create_or_get_case(c) \/ Lookup(c) \/ Adopt(c) \/ GiveUp(c)
             PROVE  SubTypeOK'
  BY <1>1
<1>2. ASSUME NEW a \in Attempts, NEW s \in 1..MaxSessions, NEW x \in EscalationIds, LoadCase(c, a, s, x)
      PROVE  SubTypeOK'
  <2>1. [NoCall EXCEPT !.pc = "loaded", !.attempt = a, !.session = s, !.escalation = x] \in CallRows
    <3>1. s \in Nat
      BY SubmissionAssumption
    <3> QED  BY <3>1 DEF NoCall, CallRows
  <2>2. calls' \in [Callers -> CallRows]
    BY <1>2, <2>1 DEF LoadCase
  <2> QED  BY <1>2, <2>2 DEF LoadCase
<1>3. CASE create_or_get_case(c)
  <2> DEFINE a == calls[c].attempt
  <2>1. /\ a \in Attempts /\ calls[c].session \in 1..Len(sessions) /\ calls[c].escalation \in EscalationIds
        /\ effects[a].request \in SignedOrders
    BY <1>3 DEF create_or_get_case, CallsAreHonest, EffectRows
  <2>2. NewCase(a, calls[c].session) \in CaseRows
    BY <2>1, EnvelopeFields, SessionFacts DEF NewCase, CaseRows
  <2>3. cases' \in [Attempts -> CaseRows \cup {NoRow}]
    BY <1>3, <2>1, <2>2 DEF create_or_get_case
  <2>4. escalations' \in [Attempts -> EscalationRows]
    BY <1>3, <2>1 DEF create_or_get_case, Escalated, EscalationRows, EscalationStatuses
  <2>5. calls' \in [Callers -> CallRows]
    <3>1. calls \in [Callers -> CallRows] /\ calls' = [calls EXCEPT ![c].pc = "cased"]
      BY <1>3 DEF create_or_get_case
    <3>2. PICK x \in CallRows : x = calls[c]
      BY <3>1
    <3>3. [x EXCEPT !.pc = "cased"] \in CallRows
      BY <3>2 DEF CallRows
    <3> QED  BY <3>1, <3>2, <3>3
  <2> QED  BY <1>3, <2>3, <2>4, <2>5 DEF create_or_get_case
<1>4. CASE Lookup(c)
  <2> DEFINE a == calls[c].attempt
             r == lookup_qualified_submission(QualifiedSubmissionIdentity(cases[a].envelope))
  <2>1. a \in Attempts /\ cases[a] \in CaseRows
    BY <1>4 DEF Lookup, CallsAreHonest
  <2>2. r \in RemoteRuns \cup {NoRow}
    BY <2>1, LookupFacts DEF CaseRows
  <2>3. validate_receipt(cases[a], r) \in Proofs
    BY <1>4, <2>1, <2>2, ReceiptFacts DEF Lookup
  <2>4. PICK p \in Proofs : calls' = [calls EXCEPT ![c].pc = "proved", ![c].proof = p, ![c].answer = NoRow]
    BY <1>4, <2>3 DEF Lookup
  <2>5. calls' \in [Callers -> CallRows]
    <3>1. PICK x \in CallRows : x = calls[c]
      OBVIOUS
    <3>2. PICK y : y = [x EXCEPT !.pc = "proved", !.proof = p, !.answer = NoRow]
      OBVIOUS
    <3>3. y \in CallRows
      BY <3>2, CallEdits
    <3>4. calls' = [calls EXCEPT ![c] = y]
      BY <2>4, <3>1, <3>2
    <3> QED  BY <3>3, <3>4
  <2> QED  BY <1>4, <2>5 DEF Lookup
<1>5. CASE Adopt(c)
  <2>1. PICK v \in AdoptionErrors : calls' = [calls EXCEPT ![c].answer = v]
    BY <1>5 DEF Adopt, adopt_in_transaction, AdoptionErrors
  <2>2. calls' \in [Callers -> CallRows]
    <3>1. PICK x \in CallRows : x = calls[c]
      OBVIOUS
    <3>2. [x EXCEPT !.answer = v] \in CallRows
      BY CallEdits
    <3> QED  BY <2>1, <3>1, <3>2
  <2> QED  BY <1>5, <2>2 DEF Adopt
<1>6. CASE GiveUp(c)
  <2>1. NoCall \in CallRows
    BY DEF NoCall, CallRows
  <2> QED  BY <1>6, <2>1 DEF GiveUp
<1> QED  BY <1>2, <1>3, <1>4, <1>5, <1>6

-----------------------------------------------------------------------------
(***************************************************************************)
(* What the envelope passes through.                                       *)
(***************************************************************************)
\* Every table starts empty and every caller idle.
LEMMA SubInitInv == SubInit => SubInv
<1> SUFFICES ASSUME SubInit PROVE SubInv  OBVIOUS
<1> USE NoRowAssumption DEF SubInit, NoEffect, NoCall, EffectStatuses, EscalationStatuses
<1>1. StoredIsOwn /\ InFlightIsStored /\ AdmittedAsStored
  BY DEF StoredIsOwn, InFlightIsStored, AdmittedAsStored
<1>2. CasesAreExact /\ CasesAreEscalated /\ CallsAreHonest
  BY DEF CasesAreExact, CasesAreEscalated, CallsAreHonest
<1> QED  BY <1>1, <1>2, SubInitType DEF SubInv

\* A stored envelope is never replaced (persist_signed_work_order).
LEMMA PersistKeepsInv ==
    ASSUME SubInv, SubTypeOK', NEW a \in Attempts, NEW o \in Orders, persist_signed_work_order(a, o)
    PROVE  SubInv'
<1> DEFINE e == SignedWorkOrder(a, o)
<1>1. UNCHANGED <<effects, cases, escalations, calls, sessions, wire, submissions>>
  BY DEF persist_signed_work_order, remoteVars, recoveryVars
<1>2. e \in SignedOrders /\ e.attempt = a
  BY DEF SignedOrders, SignedWorkOrder
<1>3. \A b \in Attempts : orders[b] # NoRow => orders'[b] = orders[b] /\ attempts'[b].digest = attempts[b].digest
  BY DEF persist_signed_work_order, SameOrder, SubInv, SubTypeOK, AttemptRows, StoredIsOwn
<1>4. \A b \in Attempts : cases[b] # NoRow => orders[b] # NoRow
  BY EnvelopeFields DEF SubInv, SubTypeOK, CasesAreExact, CaseRows
<1>5. StoredIsOwn'
  <2>1. orders' = [orders EXCEPT ![a] = e] /\ attempts' = [attempts EXCEPT ![a].digest = e.digest]
    BY DEF persist_signed_work_order
  <2>2. orders'[a] = e /\ attempts'[a].digest = e.digest
    BY <2>1 DEF SubInv, SubTypeOK, AttemptRows
  <2>3. \A b \in Attempts \ {a} : orders'[b] = orders[b] /\ attempts'[b] = attempts[b]
    BY <2>1 DEF SubInv, SubTypeOK
  <2> QED  BY <1>2, <2>2, <2>3 DEF SubInv, StoredIsOwn
<1>6. InFlightIsStored'
  <2>1. \A f \in wire : f.attempt \in Attempts /\ f # NoRow
    BY EnvelopeFields DEF SubInv, SubTypeOK
  <2> QED  BY <1>1, <1>3, <2>1 DEF SubInv, InFlightIsStored
<1>7. AdmittedAsStored'
  BY <1>1, <1>3 DEF SubInv, AdmittedAsStored
<1>8. CasesAreExact'
  BY <1>1, <1>3, <1>4 DEF SubInv, CasesAreExact
<1>9. CasesAreEscalated' /\ CallsAreHonest'
  BY <1>1 DEF SubInv, CasesAreEscalated, CallsAreHonest
<1> QED  BY <1>5, <1>6, <1>7, <1>8, <1>9 DEF SubInv

\* An effect before its case: nothing of the recovery is there yet.
LEMMA BeforeDoubt ==
    ASSUME SubInv, NEW a \in Attempts, effects[a].status # "AMBIGUOUS"
    PROVE  cases[a] = NoRow
BY DEF SubInv, CasesAreExact

\* The effect carries the stored envelope, is sent once and falls in doubt.
LEMMA EffectKeepsInv ==
    ASSUME SubInv, SubTypeOK', NEW a \in Attempts, CommitEffect(a) \/ Send(a) \/ Expire(a)
    PROVE  SubInv'
<1>1. UNCHANGED <<orders, cases, escalations, calls, sessions, submissions>>
  BY DEF CommitEffect, Send, Expire, remoteVars, recoveryVars
<1>2. effects[a].status \in {NoRow, "PENDING", "IN_FLIGHT"}
  BY DEF CommitEffect, Send, Expire, NoEffect
<1>3. /\ effects'[a].status \in {NoRow, "PENDING", "IN_FLIGHT", "AMBIGUOUS"}
      /\ effects'[a].request \in {NoRow, orders[a]}
      /\ effects[a].request # NoRow => effects'[a].request = effects[a].request
      /\ \A b \in Attempts \ {a} : effects'[b] = effects[b]
  <2>1. CASE CommitEffect(a)
    BY <2>1 DEF CommitEffect, StoredEffect, NoEffect, SubInv, SubTypeOK
  <2>2. CASE Send(a) \/ Expire(a)
    BY <2>2 DEF Send, Expire, SubInv, SubTypeOK, EffectRows, InFlightIsStored
  <2> QED  BY <2>1, <2>2
<1>4. cases[a] = NoRow
  BY <1>2, BeforeDoubt, NoRowAssumption DEF EffectStatuses
<1>5. \A b \in Attempts : attempts'[b].digest = attempts[b].digest
  <2>1. CASE CommitEffect(a)
    BY <2>1 DEF CommitEffect, SubInv, SubTypeOK, AttemptRows
  <2>2. CASE Send(a) \/ Expire(a)
    BY <2>2 DEF Send, Expire
  <2> QED  BY <2>1, <2>2
<1>6. StoredIsOwn' /\ AdmittedAsStored'
  BY <1>1, <1>5 DEF SubInv, StoredIsOwn, AdmittedAsStored
<1>7. InFlightIsStored'
  <2>1. \A e \in wire' : e \in wire \/ (e = effects[a].request /\ e = orders[a])
    <3>1. CASE Send(a)
      <4>1. effects[a].request # NoRow
        BY <3>1, NoRowAssumption DEF Send, SubInv, SubTypeOK, EffectStatuses
      <4> QED  BY <3>1, <4>1 DEF Send, SubInv, InFlightIsStored
    <3>2. CASE CommitEffect(a) \/ Expire(a)
      BY <3>2 DEF CommitEffect, Expire, remoteVars
    <3> QED  BY <3>1, <3>2
  <2>2. \A e \in wire' : orders[e.attempt] = e
    <3>1. orders[a] # NoRow => orders[a].attempt = a
      BY DEF SubInv, StoredIsOwn
    <3>2. \A e \in wire' : e # NoRow
      BY EnvelopeFields DEF SubTypeOK
    <3> QED  BY <2>1, <3>1, <3>2 DEF SubInv, InFlightIsStored
  <2> QED  BY <1>1, <1>3, <2>2 DEF SubInv, InFlightIsStored
<1>8. CasesAreExact' /\ CasesAreEscalated'
  BY <1>1, <1>3, <1>4 DEF SubInv, CasesAreExact, CasesAreEscalated
<1>9. CallsAreHonest'
  BY <1>1, <1>3 DEF SubInv, CallsAreHonest
<1> QED  BY <1>6, <1>7, <1>8, <1>9 DEF SubInv

\* Runmill admits what arrives, once, and its runs move on.
LEMMA RemoteKeepsInv ==
    ASSUME SubInv, SubTypeOK',
           \/ \E a \in Attempts : RunAdvances(a)
           \/ \E e \in SignedOrders : Arrive(e) \/ Drop(e)
    PROVE  SubInv'
<1>1. UNCHANGED <<asfVars, sessions, calls>> /\ wire' \subseteq wire
  BY DEF RunAdvances, Arrive, Drop
<1> DEFINE AdmittedKept ==
        \A b \in Attempts :
            /\ submissions[b] # NoRow =>
                  /\ submissions'[b] # NoRow /\ submissions'[b].identity = submissions[b].identity
                  /\ submissions'[b].generation = submissions[b].generation
                  /\ submissions[b].version <= submissions'[b].version
            /\ submissions'[b] # NoRow =>
                  orders[b] # NoRow /\ submissions'[b].identity = QualifiedSubmissionIdentity(orders[b])
<1>2. AdmittedKept
  <2>0. \A b \in Attempts : submissions[b] # NoRow => submissions[b].version <= submissions[b].version
    <3>1. \A n \in Nat : n <= n
      OBVIOUS
    <3> QED  BY <3>1 DEF SubInv, SubTypeOK, RemoteRuns
  <2>1. ASSUME NEW a \in Attempts, RunAdvances(a) PROVE AdmittedKept
    <3>1. submissions[a] \in RemoteRuns /\ submissions' = [submissions EXCEPT ![a].version = @ + 1]
      BY <2>1 DEF RunAdvances, SubInv, SubTypeOK
    <3>2. submissions'[a].identity = submissions[a].identity
          /\ submissions'[a].generation = submissions[a].generation /\ submissions[a] # NoRow
      BY <3>1, <2>1 DEF RemoteRuns, SubInv, SubTypeOK, RunAdvances
    <3>3. submissions'[a] # NoRow /\ submissions[a].version <= submissions'[a].version
      <4>1. submissions[a].version + 1 \in Nat
        BY <3>1 DEF RemoteRuns
      <4>2. submissions'[a] \in RemoteRuns
        BY <3>1, <4>1 DEF RemoteRuns, SubInv, SubTypeOK
      <4>3. submissions'[a].version = submissions[a].version + 1
        BY <3>1 DEF RemoteRuns, SubInv, SubTypeOK
      <4> QED  BY <3>1, <4>2, <4>3, NoRowAssumption DEF RemoteRuns
    <3>4. \A b \in Attempts \ {a} : submissions'[b] = submissions[b]
      BY <3>1 DEF SubInv, SubTypeOK
    <3> QED  BY <2>0, <3>2, <3>3, <3>4 DEF SubInv, AdmittedAsStored
  <2>2. ASSUME NEW e \in SignedOrders, Arrive(e) PROVE AdmittedKept
    <3>1. e.attempt \in Attempts /\ orders[e.attempt] = e /\ e # NoRow
      BY <2>2, EnvelopeFields DEF Arrive, SubInv, InFlightIsStored
    <3>2. submissions'[e.attempt] = submit_work_order(e)
          /\ \A b \in Attempts \ {e.attempt} : submissions'[b] = submissions[b]
      BY <2>2, <3>1 DEF Arrive, SubInv, SubTypeOK
    <3>3. NewRun(e).identity = QualifiedSubmissionIdentity(e)
      BY DEF NewRun
    <3> QED  BY <2>0, <3>1, <3>2, <3>3 DEF submit_work_order, SubInv, AdmittedAsStored
  <2>3. ASSUME NEW e \in SignedOrders, Drop(e) PROVE AdmittedKept
    BY <2>0, <2>3 DEF Drop, SubInv, AdmittedAsStored
  <2> QED  BY <2>1, <2>2, <2>3
<1>3. StoredIsOwn' /\ CasesAreExact' /\ CasesAreEscalated'
  BY <1>1 DEF SubInv, StoredIsOwn, CasesAreExact, CasesAreEscalated, asfVars
<1>4. InFlightIsStored'
  BY <1>1 DEF SubInv, InFlightIsStored, asfVars
<1>5. AdmittedAsStored'
  BY <1>1, <1>2 DEF SubInv, AdmittedAsStored, StoredIsOwn, asfVars
<1>6. CallsAreHonest'
  <2> SUFFICES ASSUME NEW c \in Callers, NEW a, a = calls[c].attempt
               PROVE  /\ calls[c].pc # "idle" =>
                            /\ a \in Attempts /\ calls[c].escalation \in EscalationIds
                            /\ calls[c].session \in 1..Len(sessions) /\ effects[a].request # NoRow
                      /\ calls[c].pc \in {"cased", "proved"} => cases[a] # NoRow
                      /\ calls[c].pc = "proved" =>
                            /\ calls[c].proof \in Proofs /\ submissions'[a] # NoRow
                            /\ calls[c].proof.run = submissions'[a].identity
                            /\ calls[c].proof.generation = submissions'[a].generation
                            /\ calls[c].proof.version <= submissions'[a].version
    BY <1>1 DEF CallsAreHonest, asfVars
  <2>1. CASE calls[c].pc # "proved"
    BY <2>1 DEF SubInv, CallsAreHonest
  <2>2. CASE calls[c].pc = "proved"
    <3>1. /\ a \in Attempts /\ calls[c].proof \in Proofs /\ submissions[a] # NoRow /\ cases[a] # NoRow
          /\ calls[c].proof.run = submissions[a].identity
          /\ calls[c].proof.generation = submissions[a].generation
          /\ calls[c].proof.version <= submissions[a].version
          /\ calls[c].escalation \in EscalationIds
          /\ calls[c].session \in 1..Len(sessions) /\ effects[a].request # NoRow
      BY <2>2 DEF SubInv, CallsAreHonest
    <3>2. /\ submissions'[a] # NoRow /\ submissions'[a].identity = submissions[a].identity
          /\ submissions'[a].generation = submissions[a].generation
          /\ submissions[a].version <= submissions'[a].version
      BY <1>2, <3>1
    <3>3. calls[c].proof.version <= submissions'[a].version
      <4>1. submissions[a] \in RemoteRuns /\ submissions'[a] \in RemoteRuns
        BY <3>1, <3>2 DEF SubInv, SubTypeOK
      <4>2. calls[c].proof.version \in Nat /\ submissions[a].version \in Nat /\ submissions'[a].version \in Nat
        BY <3>1, <4>1 DEF Proofs, RemoteRuns
      <4>3. PICK x \in Nat, y \in Nat, z \in Nat :
               x = calls[c].proof.version /\ y = submissions[a].version /\ z = submissions'[a].version
        BY <4>2
      <4>4. x <= y /\ y <= z
        BY <3>1, <3>2, <4>3
      <4> QED  BY <4>3, <4>4
    <3> QED  BY <2>2, <3>1, <3>2, <3>3
  <2> QED  BY <2>1, <2>2
<1> QED  BY <1>3, <1>4, <1>5, <1>6 DEF SubInv

\* A session that ends or opens changes no generation anyone remembers.
LEMMA SessionKeepsInv ==
    ASSUME SubInv, SubTypeOK', SessionEnds \/ SessionOpens
    PROVE  SubInv'
<1>1. UNCHANGED <<asfVars, wire, submissions, calls>>
  BY DEF SessionEnds, SessionOpens
<1>2. \A s \in 1..Len(sessions) : s \in 1..Len(sessions') /\ sessions'[s] = sessions[s]
  <2>1. CASE SessionEnds
    BY <2>1 DEF SessionEnds
  <2>2. CASE SessionOpens
    <3>1. PICK g \in Nat : sessions' = Append(sessions, g)
      BY <2>2, SessionFacts DEF SessionOpens, SubInv, SubTypeOK
    <3> QED  BY <3>1, SessionFacts DEF SubInv, SubTypeOK
  <2> QED  BY <2>1, <2>2
<1>3. StoredIsOwn' /\ InFlightIsStored' /\ AdmittedAsStored' /\ CasesAreEscalated'
  BY <1>1 DEF SubInv, StoredIsOwn, InFlightIsStored, AdmittedAsStored, CasesAreEscalated, asfVars
<1>4. CasesAreExact'
  BY <1>1, <1>2 DEF SubInv, CasesAreExact, asfVars
<1>5. CallsAreHonest'
  BY <1>1, <1>2 DEF SubInv, CallsAreHonest, asfVars
<1> QED  BY <1>3, <1>4, <1>5 DEF SubInv

\* Callers come, look and leave: each knows only what is so.
LEMMA CallerKeepsInv ==
    ASSUME SubInv, SubTypeOK', NEW c \in Callers,
           \/ \E a \in Attempts, s \in 1..MaxSessions, x \in EscalationIds : LoadCase(c, a, s, x)
           \/ Lookup(c) \/ Adopt(c) \/ GiveUp(c)
    PROVE  SubInv'
<1>1. UNCHANGED <<asfVars, sessions, submissions, wire>>
  BY DEF LoadCase, Lookup, Adopt, GiveUp, recoveryRest, remoteVars, asfVars
<1>2. StoredIsOwn' /\ InFlightIsStored' /\ AdmittedAsStored' /\ CasesAreExact' /\ CasesAreEscalated'
  BY <1>1 DEF SubInv, StoredIsOwn, InFlightIsStored, AdmittedAsStored, CasesAreExact, CasesAreEscalated, asfVars
<1>3. calls' = [calls EXCEPT ![c] = calls'[c]] /\ calls \in [Callers -> CallRows]
  BY DEF LoadCase, Lookup, Adopt, GiveUp, SubInv, SubTypeOK
<1> SUFFICES CallsAreHonest'
  BY <1>2 DEF SubInv
<1>4. ASSUME NEW a \in Attempts, NEW s \in 1..MaxSessions, NEW x \in EscalationIds, LoadCase(c, a, s, x)
      PROVE  CallsAreHonest'
  <2>1. /\ calls'[c].pc = "loaded" /\ calls'[c].attempt = a /\ calls'[c].escalation = x
        /\ calls'[c].session = s /\ s \in 1..Len(sessions) /\ effects[a].request # NoRow
    BY <1>3, <1>4, SessionFacts DEF LoadCase, NoCall, SubInv, SubTypeOK
  <2> QED  BY <1>1, <1>3, <2>1 DEF SubInv, CallsAreHonest, asfVars
<1>5. ASSUME Lookup(c) PROVE CallsAreHonest'
  <2> DEFINE a == calls[c].attempt
             r == lookup_qualified_submission(QualifiedSubmissionIdentity(cases[a].envelope))
             p == validate_receipt(cases[a], r)
  <2>1. calls[c].pc \in {"cased", "proved"} /\ p # NoRow
        /\ calls' = [calls EXCEPT ![c].pc = "proved", ![c].proof = p, ![c].answer = NoRow]
    BY <1>5 DEF Lookup
  <2>2. /\ a \in Attempts /\ cases[a] \in CaseRows /\ cases[a].envelope \in SignedOrders
        /\ cases[a].envelope.attempt = a /\ cases[a] # NoRow
    BY <2>1, EnvelopeFields DEF SubInv, SubTypeOK, CallsAreHonest, CasesAreExact, StoredIsOwn, CaseRows
  <2>3. /\ r \in RemoteRuns \cup {NoRow}
        /\ r # NoRow => r = submissions[a] /\ r.identity = QualifiedSubmissionIdentity(cases[a].envelope)
    BY <2>2, LookupFacts DEF SubInv, SubTypeOK
  <2>4. p \in Proofs /\ p.run = r.identity /\ p.generation = cases[a].generation
        /\ cases[a].generation = r.generation /\ r \in RemoteRuns /\ p.version = r.version /\ r.version \in Nat
    BY <2>1, <2>2, <2>3, ReceiptFacts
  <2>5. r # NoRow /\ r = submissions[a]
    BY <2>3, <2>4, NoRowAssumption
  <2> HIDE DEF p, r
  <2>6. /\ calls'[c].pc = "proved" /\ calls'[c].attempt = a /\ calls'[c].proof = p
        /\ calls'[c].escalation = calls[c].escalation /\ calls'[c].session = calls[c].session
    BY <1>3, <2>1 DEF CallRows
  <2>7. /\ calls[c].escalation \in EscalationIds /\ calls[c].session \in 1..Len(sessions)
        /\ effects[a].request # NoRow /\ p.version <= submissions[a].version
    BY <2>1, <2>4, <2>5 DEF SubInv, CallsAreHonest
  <2> QED  BY <1>1, <1>3, <2>2, <2>4, <2>5, <2>6, <2>7 DEF SubInv, CallsAreHonest, asfVars
<1>6. ASSUME Adopt(c) PROVE CallsAreHonest'
  <2>1. /\ calls'[c].pc = calls[c].pc /\ calls'[c].attempt = calls[c].attempt
        /\ calls'[c].proof = calls[c].proof /\ calls'[c].escalation = calls[c].escalation
        /\ calls'[c].session = calls[c].session
    BY <1>3, <1>6 DEF Adopt, CallRows
  <2> QED  BY <1>1, <1>3, <2>1 DEF SubInv, CallsAreHonest, asfVars
<1>7. ASSUME GiveUp(c) PROVE CallsAreHonest'
  <2>1. calls'[c].pc = "idle"
    BY <1>3, <1>7 DEF GiveUp, NoCall
  <2> QED  BY <1>1, <1>3, <2>1 DEF SubInv, CallsAreHonest, asfVars
<1> QED  BY <1>4, <1>5, <1>6, <1>7

\* A case is created with its escalation, or found with it
\* (create_or_get_case), and the operator may acknowledge or withdraw it.
LEMMA DoubtKeepsInv ==
    ASSUME SubInv, SubTypeOK',
           \/ \E a \in Attempts : MoveEscalation(a)
           \/ \E c \in Callers : create_or_get_case(c)
    PROVE  SubInv'
<1>1. UNCHANGED <<attempts, orders, effects, sessions, submissions, wire>>
  BY DEF MoveEscalation, create_or_get_case, recoveryRest, remoteVars
<1>2. StoredIsOwn' /\ InFlightIsStored' /\ AdmittedAsStored'
  BY <1>1 DEF SubInv, StoredIsOwn, InFlightIsStored, AdmittedAsStored
<1>3. ASSUME NEW a \in Attempts, MoveEscalation(a) PROVE SubInv'
  <2>1. PICK s \in EscalationStatuses : escalations' = [escalations EXCEPT ![a].status = s]
    BY <1>3, MovesFacts DEF MoveEscalation
  <2>2. /\ escalations[a].status \in EscalationStatuses /\ escalations'[a].status = s
        /\ escalations'[a].id = escalations[a].id
        /\ \A b \in Attempts \ {a} : escalations'[b] = escalations[b]
    <3>1. escalations[a].status \in EscalationStatuses
      BY <1>3 DEF MoveEscalation, EscalationMoves, EscalationStatuses
    <3> QED  BY <2>1, <3>1 DEF SubInv, SubTypeOK, EscalationRows
  <2>3. UNCHANGED <<cases, calls>>
    BY <1>3 DEF MoveEscalation
  <2>4. CasesAreEscalated'
    BY <2>2, <2>3, NoRowAssumption DEF SubInv, CasesAreEscalated
  <2>5. CasesAreExact' /\ CallsAreHonest'
    BY <1>1, <2>3 DEF SubInv, CasesAreExact, CallsAreHonest
  <2> QED  BY <1>2, <2>4, <2>5 DEF SubInv
<1>4. ASSUME NEW c \in Callers, create_or_get_case(c) PROVE SubInv'
  <2> DEFINE a == calls[c].attempt
  <2>1. /\ calls[c].pc = "loaded" /\ a \in Attempts /\ calls[c].session \in 1..Len(sessions)
        /\ calls[c].escalation \in EscalationIds /\ effects[a].request # NoRow
    BY <1>4 DEF create_or_get_case, SubInv, CallsAreHonest
  <2>2. /\ calls'[c].pc = "cased" /\ calls'[c].attempt = a /\ calls'[c].session = calls[c].session
        /\ calls'[c].escalation = calls[c].escalation
        /\ \A d \in Callers \ {c} : calls'[d] = calls[d]
    BY <1>4 DEF create_or_get_case, SubInv, SubTypeOK, CallRows
  <2>3. CASE cases[a] # NoRow
    <3>1. UNCHANGED <<cases, escalations>>
      <4>1. escalations[a].id # NoRow
        BY <2>1, <2>3 DEF SubInv, CasesAreEscalated
      <4> QED  BY <1>4, <2>1, <2>3, <4>1 DEF create_or_get_case, Escalated, SubInv, SubTypeOK
    <3>2. CallsAreHonest'
      BY <1>1, <2>1, <2>2, <2>3, <3>1 DEF SubInv, CallsAreHonest
    <3> QED  BY <1>1, <1>2, <3>1, <3>2 DEF SubInv, CasesAreExact, CasesAreEscalated
  <2>4. CASE cases[a] = NoRow
    <3>1. /\ effects[a].status = "AMBIGUOUS" /\ effects[a].request = orders[a]
          /\ cases'[a] = NewCase(a, calls[c].session) /\ cases'[a] # NoRow
          /\ \A b \in Attempts \ {a} : cases'[b] = cases[b]
      <4>1. /\ effects[a].status = "AMBIGUOUS" /\ effects[a].request = orders[a]
            /\ cases'[a] = NewCase(a, calls[c].session)
            /\ \A b \in Attempts \ {a} : cases'[b] = cases[b]
        BY <1>4, <2>1, <2>4 DEF create_or_get_case, CaseIsExact, SubInv, SubTypeOK
      <4>2. NewCase(a, calls[c].session) \in CaseRows
        BY <2>1, EnvelopeFields, SessionFacts DEF NewCase, CaseRows, SubInv, SubTypeOK, EffectRows
      <4> QED  BY <4>1, <4>2, NoRowAssumption
    <3>2. /\ escalations'[a].status = "OPEN" /\ escalations'[a].id = calls[c].escalation
          /\ \A b \in Attempts \ {a} : escalations'[b] = escalations[b]
      <4>1. escalations[a].id = NoRow
        BY <2>1, <2>4 DEF SubInv, CasesAreEscalated
      <4> QED  BY <1>4, <2>1, <4>1 DEF create_or_get_case, Escalated, SubInv, SubTypeOK
    <3>3. CasesAreExact'
      <4>1. /\ cases'[a].attempt = a /\ cases'[a].envelope = orders[a]
            /\ cases'[a].session = calls[c].session /\ cases'[a].generation = sessions[calls[c].session]
        BY <3>1 DEF NewCase
      <4> QED  BY <1>1, <2>1, <3>1, <4>1 DEF SubInv, CasesAreExact
    <3>4. CasesAreEscalated'
      BY <2>1, <3>1, <3>2, NoRowAssumption, SubmissionAssumption DEF SubInv, CasesAreEscalated, EscalationStatuses
    <3>5. CallsAreHonest'
      BY <1>1, <2>1, <2>2, <2>4, <3>1 DEF SubInv, CallsAreHonest
    <3> QED  BY <1>2, <3>3, <3>4, <3>5 DEF SubInv
  <2> QED  BY <2>3, <2>4
<1> QED  BY <1>3, <1>4

\* Nothing changes.
LEMMA SubStutters == SubInv /\ UNCHANGED subVars => SubInv'
BY DEF SubInv, SubTypeOK, StoredIsOwn, InFlightIsStored, AdmittedAsStored, CasesAreExact, CasesAreEscalated,
       CallsAreHonest, subVars, asfVars

\* Every step keeps the invariant.
LEMMA SubInvStep == SubInv /\ [SubNext]_subVars => SubInv'
<1> SUFFICES ASSUME SubInv, SubNext PROVE SubInv'
  BY SubStutters
<1>1. SubTypeOK /\ CallsAreHonest /\ InFlightIsStored
  BY DEF SubInv
<1>2. ASSUME NEW a \in Attempts, NEW o \in Orders, persist_signed_work_order(a, o) PROVE SubInv'
  BY <1>1, <1>2, SendingKeepsType, PersistKeepsInv
<1>3. ASSUME NEW a \in Attempts, CommitEffect(a) \/ Send(a) \/ Expire(a) PROVE SubInv'
  BY <1>1, <1>3, SendingKeepsType, EffectKeepsInv
<1>4. ASSUME NEW a \in Attempts, Fence(a) \/ DeliveryEnds(a) PROVE SubInv'
  <2>1. SubTypeOK'
    BY <1>1, <1>4, SendingKeepsType, RecoveryKeepsType
  <2>2. UNCHANGED <<attempts, orders, effects, cases, escalations, sessions, wire, submissions, calls>>
    BY <1>4 DEF Fence, DeliveryEnds, remoteVars, recoveryVars
  <2> QED  BY <2>1, <2>2 DEF SubInv, StoredIsOwn, InFlightIsStored, AdmittedAsStored, CasesAreExact,
              CasesAreEscalated, CallsAreHonest
<1>5. ASSUME \/ \E a \in Attempts : RunAdvances(a)
             \/ \E e \in SignedOrders : Arrive(e) \/ Drop(e)
      PROVE  SubInv'
  BY <1>1, <1>5, RemoteKeepsType, RemoteKeepsInv
<1>6. ASSUME SessionEnds \/ SessionOpens PROVE SubInv'
  BY <1>1, <1>6, RemoteKeepsType, SessionKeepsInv
<1>7. ASSUME NEW c \in Callers,
             \/ \E a \in Attempts, s \in 1..MaxSessions, x \in EscalationIds : LoadCase(c, a, s, x)
             \/ Lookup(c) \/ Adopt(c) \/ GiveUp(c)
      PROVE  SubInv'
  BY <1>1, <1>7, RecoveryKeepsType, CallerKeepsInv
<1>8. ASSUME \/ \E a \in Attempts : MoveEscalation(a)
             \/ \E c \in Callers : create_or_get_case(c)
      PROVE  SubInv'
  BY <1>1, <1>8, RecoveryKeepsType, DoubtKeepsInv
<1> QED  BY <1>2, <1>3, <1>4, <1>5, <1>6, <1>7, <1>8 DEF SubNext

-----------------------------------------------------------------------------
(***************************************************************************)
(* What the invariant gives.                                               *)
(***************************************************************************)
\* An admitted run is found under the case's identity, and a case of the
\* admitting generation proves it (lookup_qualified_submission).
LEMMA InvGivesProvable == SubInv => AdmittedIsProvable
<1> SUFFICES ASSUME SubInv, NEW a \in Attempts, cases[a] # NoRow, submissions[a] # NoRow,
                    NEW r, r = lookup_qualified_submission(QualifiedSubmissionIdentity(cases[a].envelope))
             PROVE  /\ r # NoRow
                    /\ cases[a].generation = submissions[a].generation => validate_receipt(cases[a], r) # NoRow
  BY DEF AdmittedIsProvable
<1>1. /\ cases[a] \in CaseRows /\ cases[a].envelope \in SignedOrders /\ cases[a].envelope.attempt = a
      /\ submissions[a].identity = QualifiedSubmissionIdentity(cases[a].envelope)
  BY EnvelopeFields DEF SubInv, SubTypeOK, CasesAreExact, StoredIsOwn, AdmittedAsStored, CaseRows
<1>2. r = submissions[a] /\ r \in RemoteRuns
  BY <1>1, LookupFacts DEF SubInv, SubTypeOK
<1>3. ASSUME cases[a].generation = submissions[a].generation PROVE validate_receipt(cases[a], r) \in Proofs
  BY <1>1, <1>2, <1>3 DEF validate_receipt, Proofs, RemoteRuns, CaseRows
<1> QED  BY <1>2, <1>3, NoRowAssumption

\* A snapshot is an exact candidate exactly when the qualified lookup of the
\* same run would be a proof (validate_external_lookup_candidate).
LEMMA InvGivesAgreement == SubInv => CandidatesAgree
<1> SUFFICES ASSUME SubInv, NEW a \in Attempts, cases[a] # NoRow, NEW e \in SignedOrders
             PROVE  ExactCandidate(cases[a], Snapshot(e, 1))
                      <=> /\ QualifiedSubmissionIdentity(cases[a].envelope) = QualifiedSubmissionIdentity(e)
                          /\ validate_receipt(cases[a],
                               [NewRun(e) EXCEPT !.generation = cases[a].generation]) # NoRow
  BY DEF CandidatesAgree
<1> DEFINE n == [NewRun(e) EXCEPT !.generation = cases[a].generation]
<1>1. cases[a] \in CaseRows /\ cases[a].attempt = a /\ cases[a].envelope.attempt = a
  BY EnvelopeFields DEF SubInv, SubTypeOK, CasesAreExact, StoredIsOwn, CaseRows
<1>2. cases[a].generation \in Nat /\ QualifiedSubmissionIdentity(e) \in Identities
  BY <1>1, EnvelopeFields DEF CaseRows
<1>3. n \in RemoteRuns /\ n.generation = cases[a].generation
  BY <1>2 DEF NewRun, RemoteRuns
<1>4. validate_receipt(cases[a], n) \in Proofs
  BY <1>1, <1>3, NoRowAssumption DEF validate_receipt, Proofs, RemoteRuns, CaseRows
<1>5. validate_receipt(cases[a], n) # NoRow
  BY <1>4, NoRowAssumption
<1>6. validate_sequence_consistency(Snapshot(e, 1))
  BY DEF validate_sequence_consistency, Snapshot
<1>7. validate_admission_matches(cases[a], Snapshot(e, 1).admission)
        <=> QualifiedSubmissionIdentity(cases[a].envelope) = QualifiedSubmissionIdentity(e)
  BY DEF validate_admission_matches, Snapshot
<1>8. QualifiedSubmissionIdentity(cases[a].envelope) = QualifiedSubmissionIdentity(e)
        => validate_run_matches(cases[a], Snapshot(e, 1))
  BY <1>1, IdentityIsExact DEF validate_run_matches, Snapshot
<1> QED  BY <1>5, <1>6, <1>7, <1>8 DEF ExactCandidate

-----------------------------------------------------------------------------
\* What a caller holds is about the stored envelope, and doubt has its
\* escalation, in the form the property states it.
LEMMA InvGivesDoubtAndProofs == SubInv => DoubtIsOwned /\ ProofsStayTrue
<1> SUFFICES ASSUME SubInv PROVE DoubtIsOwned /\ ProofsStayTrue  OBVIOUS
<1>1. DoubtIsOwned
  BY DEF DoubtIsOwned, SubInv, SubTypeOK, CasesAreExact, CasesAreEscalated, EscalationRows
<1>2. ProofsStayTrue
  BY DEF ProofsStayTrue, SubInv, CallsAreHonest, AdmittedAsStored
<1> QED  BY <1>1, <1>2

\* The inductive invariant holds in every reachable state.
THEOREM SubmissionInvariant == SubSpec => []SubInv
BY SubInitInv, SubInvStep, PTL DEF SubSpec

(***************************************************************************)
(* A Work Order is submitted as it was stored, and what is in doubt stays  *)
(* owned and provable, whichever callers race, however late or often a     *)
(* submission arrives and whatever the worker's sessions do meanwhile      *)
(* (runtime and ledger, runmill_submission_recovery*.rs).                  *)
(***************************************************************************)
THEOREM SubmissionStaysSound == SubSpec => []SubmissionIsSound
<1>1. SubInv => SubmissionIsSound
  BY InvGivesProvable, InvGivesAgreement, InvGivesDoubtAndProofs DEF SubInv, SubmissionIsSound
<1> QED  BY <1>1, SubmissionInvariant, PTL

(***************************************************************************)
(* What was stored stays: no step replaces a signed envelope or a case,    *)
(* and Runmill's run keeps the identity and the generation it was admitted *)
(* with.                                                                   *)
(***************************************************************************)
StoredStays ==
    \A a \in Attempts :
        /\ orders[a] # NoRow => orders'[a] = orders[a]
        /\ cases[a] # NoRow => cases'[a] = cases[a]
        /\ submissions[a] # NoRow =>
              /\ submissions'[a] # NoRow /\ submissions'[a].identity = submissions[a].identity
              /\ submissions'[a].generation = submissions[a].generation

\* No step of the submission or its recovery rewrites a stored record.
THEOREM RecordsAreWrittenOnce == SubSpec => [][StoredStays]_subVars
<1>1. ASSUME SubInv, SubNext PROVE StoredStays
  <2> USE DEF StoredStays
  <2>1. ASSUME NEW a \in Attempts, NEW o \in Orders, persist_signed_work_order(a, o) PROVE StoredStays
    BY <1>1, <2>1 DEF persist_signed_work_order, SameOrder, remoteVars, recoveryVars, SubInv, SubTypeOK
  <2>2. ASSUME NEW a \in Attempts, Fence(a) \/ CommitEffect(a) \/ Send(a) \/ Expire(a)
                                  \/ MoveEscalation(a) \/ DeliveryEnds(a)
        PROVE  StoredStays
    BY <2>2 DEF Fence, CommitEffect, Send, Expire, MoveEscalation, DeliveryEnds, remoteVars, recoveryVars
  <2>3. ASSUME NEW a \in Attempts, RunAdvances(a) PROVE StoredStays
    <3>1. submissions[a] \in RemoteRuns /\ submissions[a].version + 1 \in Nat
      BY <1>1, <2>3 DEF RunAdvances, SubInv, SubTypeOK, RemoteRuns
    <3>2. /\ submissions'[a] \in RemoteRuns /\ submissions'[a].identity = submissions[a].identity
          /\ submissions'[a].generation = submissions[a].generation
          /\ \A b \in Attempts \ {a} : submissions'[b] = submissions[b]
      BY <1>1, <2>3, <3>1 DEF RunAdvances, SubInv, SubTypeOK, RemoteRuns
    <3> QED  BY <2>3, <3>2, NoRowAssumption DEF RunAdvances, asfVars
  <2>4. ASSUME NEW e \in SignedOrders, Arrive(e) \/ Drop(e) PROVE StoredStays
    BY <1>1, <2>4, EnvelopeFields DEF Arrive, Drop, submit_work_order, asfVars, SubInv, SubTypeOK
  <2>5. ASSUME SessionEnds \/ SessionOpens PROVE StoredStays
    BY <2>5 DEF SessionEnds, SessionOpens, asfVars
  <2>6. ASSUME NEW c \in Callers,
               \/ \E a \in Attempts, s \in 1..MaxSessions, x \in EscalationIds : LoadCase(c, a, s, x)
               \/ Lookup(c) \/ Adopt(c) \/ GiveUp(c)
        PROVE  StoredStays
    BY <2>6 DEF LoadCase, Lookup, Adopt, GiveUp, recoveryRest, remoteVars
  <2>7. ASSUME NEW c \in Callers, create_or_get_case(c) PROVE StoredStays
    <3>1. calls[c].attempt \in Attempts
      BY <1>1, <2>7 DEF create_or_get_case, SubInv, CallsAreHonest
    <3> QED  BY <1>1, <2>7, <3>1 DEF create_or_get_case, recoveryRest, remoteVars, SubInv, SubTypeOK
  <2> QED  BY <1>1, <2>1, <2>2, <2>3, <2>4, <2>5, <2>6, <2>7 DEF SubNext
<1>2. SubInv /\ [SubNext]_subVars => [StoredStays]_subVars
  BY <1>1
<1> QED  BY <1>2, SubmissionInvariant, PTL DEF SubSpec

-----------------------------------------------------------------------------
(***************************************************************************)
(* The control client.  Its properties speak of calls that ended; the      *)
(* inductive invariant follows a call from the look at the socket to the   *)
(* answer, and says of every answer and half answer what it says of the    *)
(* run, in a form that stays true while the run moves on.                  *)
(***************************************************************************)

(* What the variables of the client and of Runmill range over.             *)
Phases == {"ADMITTED", "CANCEL_REQUESTED", "EVIDENCE_FINALIZED", "COMPLETED", "CANCELLED"}

RunStates == [envelope : Envelopes \cup {None}, log : Seq(Phases),
              cancel : CancelRequests \cup {None}, ack : BOOLEAN]

Answers == [kind : {"DATA", "REMOTE", "GARBAGE"}, run : Keys \cup {None},
            envelope : Envelopes \cup {None}, phase : Phases \cup {"NONE"},
            version : Nat, latest : Nat, request : CancelRequests \cup {None},
            disposition : {"NONE", "ALREADY_TERMINAL", "EXISTING", "REQUESTED"},
            status : {"NONE", "FINALIZING", "FINAL", "STOPPED", "CURRENT"},
            complete : BOOLEAN, bundle : Keys \cup {None}, terminal : Keys \cup {None},
            signed : Keys \cup {None}]

CallArgs == Envelopes \cup CancelRequests \cup Keys \cup {None}
CallPcs == {"IDLE", "REGISTRY", "SOCKET", "CONNECT", "RECHECK", "WRITE", "WAIT", "DONE"}
CallResults == {"NONE", "OK", "LOCAL", "REMOTE", "AMBIGUOUS", "MISMATCH", "MALFORMED",
                "INTERRUPTED", "TIMEOUT", "LOST"}
CallStates == [op : Ops \cup {"NONE"}, arg : CallArgs, pc : CallPcs, seen : Nat, conn : Nat,
               result : CallResults, value : Answers \cup {None}]

ClientTypes ==
    /\ registry \in {"NONE", "V1", "V2", "OPEN"}
    /\ sock \in [inode : Nat, private : BOOLEAN]
    /\ serving \in BOOLEAN /\ boots \in Nat
    /\ runs \in [Keys -> RunStates]
    /\ call \in [Calls -> CallStates]
    /\ inbox \subseteq Calls /\ applied \subseteq Calls
    /\ drafts \in [Calls -> RunStates \cup {None}]
    /\ answer \in [Calls -> Answers \cup {None}]

\* A run Runmill knows has a history.
KnownHaveLogs == \A k \in Keys : Known(k) => runs[k].log # <<>>

\* A call that was begun keeps its operation and argument; it has a result
\* exactly when it is done, and doubt is for mutations.
CallIsMade(c) ==
    /\ call[c].pc = "IDLE" => call[c] = Unmade
    /\ call[c].pc # "IDLE" => call[c].op \in Ops /\ call[c].arg \in Args(call[c].op)
    /\ (call[c].result = "NONE") <=> (call[c].pc # "DONE")
    /\ (call[c].result = "AMBIGUOUS") => mutates(call[c].op)

\* A socket file is the last process's or none, so a path that shows the same
\* file before and after the connection showed no other in between.
SocketAgrees(c) ==
    /\ call[c].pc = "CONNECT" => call[c].seen \in 1..boots
    /\ call[c].pc = "RECHECK" => /\ call[c].seen \in 1..boots /\ call[c].conn \in 1..boots
                                 /\ call[c].seen <= call[c].conn
    /\ call[c].pc \in {"WRITE", "WAIT"} => call[c].conn = call[c].seen
    /\ c \in inbox \cup applied => call[c].conn = call[c].seen

\* A request that is out was written; until it is answered it is unapplied,
\* a refusal is never the answer to one that was applied, and a mutation that
\* is out or applied ends in success or in doubt.
RequestIsSent(c) ==
    /\ (c \in inbox \cup applied \/ drafts[c] # None) => call[c].pc \in {"WAIT", "DONE"}
    /\ c \in inbox => answer[c] = None /\ c \notin applied
    /\ answer[c] # None => call[c].pc = "WAIT"
    /\ c \in applied => mutates(call[c].op)
    /\ (c \in applied /\ answer[c] # None) => answer[c].kind # "REMOTE"
    /\ (c \in inbox \cup applied /\ mutates(call[c].op)) =>
          call[c].result \in {"NONE", "OK", "AMBIGUOUS"}

\* One state of a run is a later one than, or the same as, another.
Grew(r, s) ==
    /\ s.log # <<>> /\ s.envelope = r.envelope
    /\ Len(r.log) <= Len(s.log)
    /\ \A i \in 1..Len(r.log) : s.log[i] = r.log[i]
    /\ Ended(r) => s.log = r.log
    /\ r.cancel # None => s.cancel = r.cancel
    /\ r.ack => s.ack

\* What an answer says of the run, apart from the members that can be garbled.
\* It stays true however the run moves on.
TellsTruth(c, a) ==
    LET k == KeyIn(c)
        r == runs[k]
    IN  /\ Known(k)
        /\ CASE call[c].op = "SUBMIT" -> a.envelope = r.envelope
             [] call[c].op = "CANCEL" -> Ended(r) \/ (r.cancel # None /\ a.request = r.cancel)
             [] call[c].op = "ACK" -> r.ack
             [] OTHER -> /\ a.envelope = r.envelope
                         /\ a.version \in 1..Len(r.log) /\ a.phase = r.log[a.version]
                         /\ a.complete => Ended(r) /\ a.terminal = k

AnswerIsTrue(c) ==
    (answer[c] # None /\ answer[c].kind = "DATA") => TellsTruth(c, answer[c])

DraftIsPast(c) ==
    drafts[c] # None => /\ ~mutates(call[c].op) /\ Known(KeyIn(c))
                        /\ drafts[c].log # <<>> /\ Grew(drafts[c], runs[KeyIn(c)])

ValueIsProof(c) ==
    call[c].result = "OK" => /\ call[c].value \in Answers
                             /\ TellsTruth(c, call[c].value)
                             /\ ExactResponse(call[c].op, call[c].value)
                             /\ Binds(c, call[c].value)

CallInv(c) ==
    /\ CallIsMade(c) /\ SocketAgrees(c) /\ RequestIsSent(c)
    /\ AnswerIsTrue(c) /\ DraftIsPast(c) /\ ValueIsProof(c)

ClientInv ==
    /\ ClientTypes
    /\ KnownHaveLogs
    /\ sock.inode \in {0, boots}
    /\ \A c \in Calls : CallInv(c)

-----------------------------------------------------------------------------
(* Answers.                                                                *)

\* The members of an answer as Runmill builds it.
LEMMA DataIsAnswer ==
    ASSUME NEW k \in Keys \cup {None}
    PROVE  Data(k) \in Answers
PROOF BY DEF Data, Answers

LEMMA RemoteIsAnswer == Remote \in Answers /\ Garbage \in Answers
    /\ Remote.kind = "REMOTE" /\ Garbage.kind = "GARBAGE"
PROOF BY DEF Remote, Garbage, Data, Answers

\* A call's key is the key of a run.
LEMMA KeyInIsKey ==
    ASSUME NEW c \in Calls, call[c].op \in Ops, call[c].arg \in Args(call[c].op)
    PROVE  /\ KeyIn(c) \in Keys
           /\ call[c].op = "SUBMIT" => KeyIn(c) = KeyOf[call[c].arg]
           /\ call[c].op = "CANCEL" => KeyIn(c) = RunOf[call[c].arg]
           /\ call[c].op = "ACK" => KeyIn(c) = call[c].arg
PROOF BY ClientAssumption DEF KeyIn, Args, Ops

LEMMA GrewFromItself ==
    ASSUME NEW r \in RunStates, r.log # <<>>
    PROVE  Grew(r, r)
PROOF BY DEF Grew, RunStates

LEMMA GrewTwice ==
    ASSUME NEW r \in RunStates, NEW s \in RunStates, NEW t \in RunStates,
           Grew(r, s), Grew(s, t), r.log # <<>>
    PROVE  Grew(r, t)
<1>1. Len(r.log) \in Nat /\ Len(s.log) \in Nat /\ Len(t.log) \in Nat
  BY DEF RunStates
<1>2. Len(r.log) <= Len(t.log) /\ t.log # <<>> /\ t.envelope = r.envelope
  BY <1>1 DEF Grew
<1>3. \A i \in 1..Len(r.log) : t.log[i] = r.log[i]
  BY <1>1 DEF Grew
<1>4. Ended(r) => t.log = r.log
  BY DEF Grew, Ended, PhaseOf
<1> QED BY <1>2, <1>3, <1>4 DEF Grew

LEMMA EndedStaysEnded ==
    ASSUME NEW r \in RunStates, NEW s \in RunStates, Grew(r, s), Ended(r)
    PROVE  Ended(s)
PROOF BY DEF Grew, Ended, PhaseOf

\* A run that gets one more entry, while it has not ended, has grown.
LEMMA LoggedGrows ==
    ASSUME NEW r \in RunStates, r.log # <<>>, ~Ended(r), NEW ph \in Phases,
           NEW s \in RunStates, s.log = Append(r.log, ph), s.envelope = r.envelope,
           s.ack = r.ack, r.cancel # None => s.cancel = r.cancel
    PROVE  Grew(r, s)
<1>1. r.log \in Seq(Phases)
  BY DEF RunStates
<1>2. /\ Len(s.log) = Len(r.log) + 1
      /\ \A i \in 1..Len(r.log) : s.log[i] = r.log[i]
      /\ s.log # <<>>
  BY <1>1
<1> QED BY <1>1, <1>2 DEF Grew

-----------------------------------------------------------------------------
(* Runmill's runs only grow.                                               *)
RunsGrow == \A k \in Keys : Known(k) => Grew(runs[k], runs'[k]) /\ runs'[k] # NoRun

LEMMA UnchangedRunsGrow ==
    ASSUME ClientTypes, KnownHaveLogs, UNCHANGED runs
    PROVE  RunsGrow /\ runs' \in [Keys -> RunStates] /\ KnownHaveLogs'
PROOF BY GrewFromItself DEF RunsGrow, ClientTypes, KnownHaveLogs, Known

LEMMA OneRunGrows ==
    ASSUME ClientTypes, KnownHaveLogs, NEW k \in Keys, NEW s \in RunStates,
           runs' = [runs EXCEPT ![k] = s], s.log # <<>>, Known(k) => Grew(runs[k], s)
    PROVE  RunsGrow /\ runs' \in [Keys -> RunStates] /\ KnownHaveLogs' /\ runs'[k] = s
<1>1. runs' \in [Keys -> RunStates] /\ runs'[k] = s
      /\ \A j \in Keys : j # k => runs'[j] = runs[j]
  BY DEF ClientTypes
<1>2. KnownHaveLogs'
  BY <1>1 DEF KnownHaveLogs, Known
<1>3. s # NoRun
  BY DEF NoRun
<1>4. RunsGrow
  <2> SUFFICES ASSUME NEW j \in Keys, Known(j) PROVE Grew(runs[j], runs'[j]) /\ runs'[j] # NoRun
    BY DEF RunsGrow
  <2>1. CASE j = k BY <1>1, <1>3, <2>1
  <2>2. CASE j # k BY <1>1, <2>2, GrewFromItself DEF Known, KnownHaveLogs, ClientTypes
  <2> QED BY <2>1, <2>2
<1> QED BY <1>1, <1>2, <1>4

-----------------------------------------------------------------------------
(* What was true of a call stays true while the call is left alone.        *)
Untouched(c) ==
    /\ call'[c] = call[c] /\ answer'[c] = answer[c] /\ drafts'[c] = drafts[c]
    /\ c \in inbox' <=> c \in inbox
    /\ c \in applied' <=> c \in applied

\* What a step may do to everything but the call it is about.
Surroundings ==
    /\ ClientTypes' /\ KnownHaveLogs'
    /\ RunsGrow
    /\ boots <= boots' /\ sock'.inode \in {0, boots'}

LEMMA TruthIsKept ==
    ASSUME ClientTypes, ClientTypes', KnownHaveLogs, RunsGrow,
           NEW c \in Calls, CallIsMade(c), call[c].pc # "IDLE", NEW a \in Answers,
           call'[c].op = call[c].op, call'[c].arg = call[c].arg, TellsTruth(c, a)
    PROVE  /\ KeyIn(c)' = KeyIn(c)
           /\ Known(KeyIn(c))' /\ Grew(runs[KeyIn(c)], runs'[KeyIn(c)])
           /\ TellsTruth(c, a)'
<1> DEFINE k == KeyIn(c)
<1>1. k \in Keys /\ KeyIn(c)' = k
  BY KeyInIsKey DEF CallIsMade, KeyIn
<1>2. Known(k) /\ runs[k] \in RunStates /\ runs'[k] \in RunStates
  BY <1>1 DEF TellsTruth, ClientTypes
<1>3. Grew(runs[k], runs'[k]) /\ runs'[k] # NoRun
  BY <1>1, <1>2 DEF RunsGrow
<1>4. Ended(runs[k]) => Ended(runs'[k])
  BY <1>2, <1>3, EndedStaysEnded
<1>5. Len(runs[k].log) \in Nat /\ Len(runs'[k].log) \in Nat
  BY <1>2 DEF RunStates
<1> HIDE DEF k
<1>6. TellsTruth(c, a)'
  <2>1. CASE call[c].op \in {"SUBMIT", "ACK"}
    BY <1>1, <1>3, <2>1 DEF TellsTruth, Grew, Known, k
  <2>2. CASE call[c].op = "CANCEL"
    BY <1>1, <1>3, <1>4, <2>2 DEF TellsTruth, Grew, Known, k
  <2>3. CASE call[c].op \notin {"SUBMIT", "ACK", "CANCEL"}
    BY <1>1, <1>3, <1>4, <1>5, <2>3 DEF TellsTruth, Grew, Known, k
  <2> QED BY <2>1, <2>2, <2>3
<1> QED BY <1>1, <1>3, <1>6 DEF Known, k

LEMMA DraftIsKept ==
    ASSUME ClientTypes, ClientTypes', KnownHaveLogs, RunsGrow,
           NEW c \in Calls, CallIsMade(c), call[c].pc # "IDLE", DraftIsPast(c),
           call'[c].op = call[c].op, call'[c].arg = call[c].arg, drafts'[c] = drafts[c]
    PROVE  DraftIsPast(c)'
<1> DEFINE k == KeyIn(c)
<1> SUFFICES ASSUME drafts[c] # None
             PROVE  /\ ~mutates(call[c].op) /\ Known(k)'
                    /\ drafts[c].log # <<>> /\ Grew(drafts[c], runs'[k])
  BY DEF DraftIsPast, KeyIn
<1>1. k \in Keys
  BY KeyInIsKey DEF CallIsMade
<1>2. /\ ~mutates(call[c].op) /\ Known(k)
      /\ drafts[c].log # <<>> /\ Grew(drafts[c], runs[k])
  BY DEF DraftIsPast
<1>3. runs[k] \in RunStates /\ runs'[k] \in RunStates /\ drafts[c] \in RunStates
  BY <1>1 DEF ClientTypes
<1>4. Grew(runs[k], runs'[k]) /\ runs'[k] # NoRun
  BY <1>1, <1>2 DEF RunsGrow
<1>5. Grew(drafts[c], runs'[k])
  BY <1>2, <1>3, <1>4, GrewTwice
<1>6. Known(k)'
  BY <1>4 DEF Known, KeyIn
<1> QED BY <1>2, <1>5, <1>6

LEMMA ProofIsKept ==
    ASSUME ClientTypes, ClientTypes', KnownHaveLogs, RunsGrow,
           NEW c \in Calls, CallIsMade(c), ValueIsProof(c), call'[c] = call[c]
    PROVE  ValueIsProof(c)'
<1> SUFFICES ASSUME call[c].result = "OK"
             PROVE  /\ call[c].value \in Answers
                    /\ TellsTruth(c, call[c].value)'
                    /\ ExactResponse(call[c].op, call[c].value)
                    /\ Binds(c, call[c].value)'
  BY DEF ValueIsProof
<1>1. /\ call[c].value \in Answers
      /\ TellsTruth(c, call[c].value)
      /\ ExactResponse(call[c].op, call[c].value)
      /\ Binds(c, call[c].value)
  BY DEF ValueIsProof
<1>2. call[c].pc # "IDLE"
  BY DEF CallIsMade, Unmade
<1>3. TellsTruth(c, call[c].value)'
  BY <1>1, <1>2, TruthIsKept
<1>4. Binds(c, call[c].value)'
  BY <1>1 DEF Binds, SubmitBinds, ReconcileBinds, ReadBinds
<1> QED BY <1>1, <1>3, <1>4

LEMMA UntouchedKeeps ==
    ASSUME ClientInv, Surroundings, NEW c \in Calls, Untouched(c)
    PROVE  CallInv(c)'
<1>1. CallInv(c) /\ ClientTypes /\ KnownHaveLogs /\ ClientTypes' /\ RunsGrow
  BY DEF ClientInv, Surroundings
<1>2. CallIsMade(c)'
  BY <1>1 DEF CallInv, CallIsMade, Untouched
<1>3. SocketAgrees(c)'
  BY <1>1 DEF CallInv, SocketAgrees, Untouched, Surroundings, ClientTypes
<1>4. RequestIsSent(c)'
  BY <1>1 DEF CallInv, RequestIsSent, Untouched
<1>5. AnswerIsTrue(c)'
  <2> SUFFICES ASSUME answer[c] # None, answer[c].kind = "DATA"
               PROVE  TellsTruth(c, answer[c])'
    BY DEF AnswerIsTrue, Untouched
  <2>1. answer[c] \in Answers /\ TellsTruth(c, answer[c]) /\ call[c].pc = "WAIT"
    BY <1>1 DEF ClientTypes, CallInv, AnswerIsTrue, RequestIsSent
  <2> QED BY <1>1, <2>1, TruthIsKept DEF CallInv, Untouched
<1>6. DraftIsPast(c)'
  <2>1. CASE drafts[c] = None
    BY <2>1 DEF DraftIsPast, Untouched
  <2>2. CASE drafts[c] # None
    BY <1>1, <2>2, DraftIsKept DEF CallInv, RequestIsSent, Untouched
  <2> QED BY <2>1, <2>2
<1>7. ValueIsProof(c)'
  BY <1>1, ProofIsKept DEF CallInv, Untouched
<1> QED BY <1>2, <1>3, <1>4, <1>5, <1>6, <1>7 DEF CallInv

-----------------------------------------------------------------------------
(* The client's steps: one call moves, Runmill and its runs do not.        *)

\* Before the first byte nothing of a call is outside the process.
LEMMA EarlyCall ==
    ASSUME NEW c \in Calls, CallInv(c), call[c].pc \notin {"WAIT", "DONE"}
    PROVE  /\ c \notin inbox \cup applied /\ drafts[c] = None /\ answer[c] = None
           /\ call[c].result = "NONE"
PROOF BY DEF CallInv, RequestIsSent, CallIsMade

LEMMA OneCallMoves ==
    ASSUME ClientInv, NEW c \in Calls, NEW s \in CallStates,
           call' = [call EXCEPT ![c] = s], UNCHANGED <<daemonVars, runs, applied, drafts>>,
           inbox' = inbox \/ inbox' = inbox \cup {c},
           answer' = answer \/ Hangup(c),
           (call'[c] = s) => CallInv(c)'
    PROVE  ClientInv'
<1>1. ClientTypes /\ KnownHaveLogs
  BY DEF ClientInv
<1>2. call' \in [Calls -> CallStates] /\ call'[c] = s
      /\ \A d \in Calls \ {c} : call'[d] = call[d]
  BY <1>1 DEF ClientTypes
<1>3. answer' \in [Calls -> Answers \cup {None}]
      /\ \A d \in Calls \ {c} : answer'[d] = answer[d]
  BY <1>1 DEF ClientTypes, Hangup
<1>4. ClientTypes'
  BY <1>1, <1>2, <1>3 DEF ClientTypes, daemonVars
<1>5. RunsGrow /\ KnownHaveLogs'
  BY <1>1, UnchangedRunsGrow
<1>6. Surroundings
  BY <1>4, <1>5 DEF Surroundings, daemonVars, ClientInv, ClientTypes
<1>7. \A d \in Calls \ {c} : Untouched(d)
  BY <1>2, <1>3 DEF Untouched
<1>8. \A d \in Calls : CallInv(d)'
  BY <1>2, <1>6, <1>7, UntouchedKeeps
<1> QED BY <1>4, <1>5, <1>6, <1>8 DEF ClientInv, Surroundings

\* A call that has not written anything yet takes its next step.
LEMMA CallProceeds ==
    ASSUME ClientInv, NEW c \in Calls, NEW s \in CallStates,
           call' = [call EXCEPT ![c] = s], UNCHANGED <<daemonVars, runs, applied, drafts, answer>>,
           call[c].pc \notin {"IDLE", "WAIT", "DONE"},
           s.op = call[c].op, s.arg = call[c].arg, s.result = call[c].result,
           \/ s.pc \in {"SOCKET", "CONNECT", "RECHECK", "WRITE"} /\ inbox' = inbox
           \/ s.pc = "WAIT" /\ inbox' \in {inbox, inbox \cup {c}},
           s.pc = "CONNECT" => s.seen \in 1..boots,
           s.pc = "RECHECK" => s.seen \in 1..boots /\ s.conn \in 1..boots /\ s.seen <= s.conn,
           s.pc \in {"WRITE", "WAIT"} => s.conn = s.seen
    PROVE  ClientInv'
<1> SUFFICES ASSUME call'[c] = s PROVE CallInv(c)'
  BY OneCallMoves
<1>1. CallInv(c) /\ ClientTypes
  BY DEF ClientInv
<1>2. /\ c \notin inbox \cup applied /\ drafts[c] = None /\ answer[c] = None
      /\ call[c].result = "NONE"
  BY <1>1, EarlyCall
<1>3. CallIsMade(c)'
  BY <1>1, <1>2 DEF CallInv, CallIsMade
<1>4. SocketAgrees(c)'
  BY <1>2 DEF SocketAgrees, daemonVars
<1>5. RequestIsSent(c)'
  BY <1>2 DEF RequestIsSent
<1>6. AnswerIsTrue(c)' /\ DraftIsPast(c)' /\ ValueIsProof(c)'
  BY <1>2 DEF AnswerIsTrue, DraftIsPast, ValueIsProof
<1> QED BY <1>3, <1>4, <1>5, <1>6 DEF CallInv

\* A call ends without success.
LEMMA CallFails ==
    ASSUME ClientInv, NEW c \in Calls, NEW result \in CallResults \ {"NONE", "OK"},
           End(c, result), UNCHANGED <<daemonVars, runs, applied, drafts>>,
           inbox' = inbox \/ (inbox' = inbox \cup {c} /\ c \notin applied),
           \/ answer' = answer /\ answer[c] = None
           \/ Hangup(c),
           call[c].pc # "IDLE",
           result = "AMBIGUOUS" => mutates(call[c].op),
           c \in inbox' \cup applied =>
              /\ call[c].conn = call[c].seen
              /\ mutates(call[c].op) => result = "AMBIGUOUS"
    PROVE  ClientInv'
<1> DEFINE s == [call[c] EXCEPT !.pc = "DONE", !.result = result]
<1>1. CallInv(c) /\ ClientTypes /\ ClientTypes /\ call[c] \in CallStates /\ KnownHaveLogs
  BY DEF ClientInv, ClientTypes
<1>2. s \in CallStates /\ call' = [call EXCEPT ![c] = s]
  BY <1>1 DEF CallStates, CallPcs, End, ClientTypes
<1>3. /\ s.op = call[c].op /\ s.arg = call[c].arg /\ s.seen = call[c].seen
      /\ s.conn = call[c].conn /\ s.pc = "DONE" /\ s.result = result
  BY <1>1 DEF CallStates
<1> HIDE DEF s
<1> SUFFICES ASSUME call'[c] = s PROVE CallInv(c)'
  BY <1>2, OneCallMoves
<1>4. answer'[c] = None
  BY <1>1 DEF Hangup, ClientTypes
<1>5. CallIsMade(c)'
  BY <1>1, <1>3 DEF CallInv, CallIsMade
<1>6. SocketAgrees(c)'
  BY <1>3 DEF SocketAgrees
<1>7. RequestIsSent(c)'
  BY <1>1, <1>3, <1>4 DEF CallInv, RequestIsSent
<1>8. AnswerIsTrue(c)' /\ ValueIsProof(c)'
  BY <1>3, <1>4 DEF AnswerIsTrue, ValueIsProof
<1>9. DraftIsPast(c)'
  BY <1>1, <1>3 DEF CallInv, DraftIsPast, KeyIn, Known
<1> QED BY <1>5, <1>6, <1>7, <1>8, <1>9 DEF CallInv

LEMMA BeginKeepsInv ==
    ASSUME ClientInv, NEW c \in Calls, NEW op \in Ops, NEW arg \in Args(op), Begin(c, op, arg)
    PROVE  ClientInv'
<1> DEFINE s == IF ValidRequest(op, arg)
                  THEN [Unmade EXCEPT !.op = op, !.arg = arg, !.pc = "REGISTRY"]
                  ELSE [Unmade EXCEPT !.op = op, !.arg = arg, !.pc = "DONE",
                                      !.result = "LOCAL"]
<1>1. CallInv(c)
  BY DEF ClientInv
<1>2. arg \in CallArgs
  BY DEF Args, CallArgs
<1>3. /\ s \in CallStates /\ s.op = op /\ s.arg = arg
      /\ \/ s.pc = "REGISTRY" /\ s.result = "NONE"
         \/ s.pc = "DONE" /\ s.result = "LOCAL"
  BY <1>2 DEF Unmade, CallStates, CallPcs, CallResults
<1>4. call' = [call EXCEPT ![c] = s]
  BY DEF Begin
<1> HIDE DEF s
<1> SUFFICES ASSUME call'[c] = s PROVE CallInv(c)'
  BY <1>3, <1>4, OneCallMoves DEF Begin, wireVars
<1>5. /\ c \notin inbox \cup applied /\ drafts[c] = None /\ answer[c] = None
      /\ UNCHANGED <<inbox, applied, drafts, answer>>
  BY <1>1, EarlyCall DEF Begin, At, wireVars
<1>6. CallIsMade(c)' /\ SocketAgrees(c)' /\ RequestIsSent(c)'
  BY <1>3, <1>5 DEF CallIsMade, SocketAgrees, RequestIsSent
<1>7. AnswerIsTrue(c)' /\ DraftIsPast(c)' /\ ValueIsProof(c)'
  BY <1>3, <1>5 DEF AnswerIsTrue, DraftIsPast, ValueIsProof
<1> QED BY <1>6, <1>7 DEF CallInv

LEMMA LookingKeepsInv ==
    ASSUME ClientInv, NEW c \in Calls,
           \/ read_registry(c) \/ validate_socket(c) \/ Connect(c) \/ ConnectTimeout(c)
           \/ validate_connected_socket(c)
    PROVE  ClientInv'
<1>1. CallInv(c) /\ ClientTypes /\ call[c] \in CallStates /\ sock.inode \in {0, boots}
      /\ boots \in Nat /\ sock.inode \in Nat
  BY DEF ClientInv, ClientTypes
<1>2. call[c].pc \notin {"IDLE", "WAIT", "DONE"}
      /\ UNCHANGED <<daemonVars, runs, applied, drafts, answer, inbox>>
  BY DEF read_registry, validate_socket, Connect, ConnectTimeout,
         validate_connected_socket, At, wireVars
<1>3. c \notin inbox \cup applied /\ answer[c] = None
  BY <1>1, <1>2, EarlyCall
<1>4. CASE End(c, "LOCAL")
  BY <1>2, <1>3, <1>4, CallFails DEF CallResults
<1>5. CASE Go(c, "SOCKET")
  <2> DEFINE s == [call[c] EXCEPT !.pc = "SOCKET"]
  <2>1. s \in CallStates /\ call' = [call EXCEPT ![c] = s] /\ s.op = call[c].op
        /\ s.arg = call[c].arg /\ s.result = call[c].result /\ s.pc = "SOCKET"
    BY <1>1, <1>5 DEF CallStates, CallPcs, Go, ClientTypes
  <2> HIDE DEF s
  <2> QED BY <1>2, <2>1, CallProceeds
<1>6. CASE At(c, "SOCKET") /\ sock.inode /= 0
           /\ call' = [call EXCEPT ![c].pc = "CONNECT", ![c].seen = sock.inode]
  <2> DEFINE s == [call[c] EXCEPT !.pc = "CONNECT", !.seen = sock.inode]
  <2>1. s \in CallStates /\ call' = [call EXCEPT ![c] = s] /\ s.op = call[c].op
        /\ s.arg = call[c].arg /\ s.result = call[c].result /\ s.pc = "CONNECT"
        /\ s.seen = sock.inode
    BY <1>1, <1>6 DEF CallStates, CallPcs, ClientTypes
  <2>2. sock.inode \in 1..boots
    BY <1>1, <1>6
  <2> HIDE DEF s
  <2> QED BY <1>2, <2>1, <2>2, CallProceeds
<1>7. CASE At(c, "CONNECT") /\ sock.inode /= 0
           /\ call' = [call EXCEPT ![c].pc = "RECHECK", ![c].conn = sock.inode]
  <2> DEFINE s == [call[c] EXCEPT !.pc = "RECHECK", !.conn = sock.inode]
  <2>1. s \in CallStates /\ call' = [call EXCEPT ![c] = s] /\ s.op = call[c].op
        /\ s.arg = call[c].arg /\ s.result = call[c].result /\ s.pc = "RECHECK"
        /\ s.seen = call[c].seen /\ s.conn = sock.inode
    BY <1>1, <1>7 DEF CallStates, CallPcs, ClientTypes
  <2>2. sock.inode = boots /\ call[c].seen \in 1..boots
    BY <1>1, <1>7 DEF CallInv, SocketAgrees, At
  <2> HIDE DEF s
  <2>3. s.seen \in 1..boots /\ s.conn \in 1..boots /\ s.seen <= s.conn
    BY <1>1, <2>1, <2>2
  <2> QED BY <1>2, <2>1, <2>3, CallProceeds
<1>8. CASE At(c, "RECHECK") /\ sock.inode = call[c].seen /\ Go(c, "WRITE")
  <2> DEFINE s == [call[c] EXCEPT !.pc = "WRITE"]
  <2>1. s \in CallStates /\ call' = [call EXCEPT ![c] = s] /\ s.op = call[c].op
        /\ s.arg = call[c].arg /\ s.result = call[c].result /\ s.pc = "WRITE"
        /\ s.seen = call[c].seen /\ s.conn = call[c].conn
    BY <1>1, <1>8 DEF CallStates, CallPcs, Go, ClientTypes
  <2>2. call[c].conn = call[c].seen
    BY <1>1, <1>8 DEF CallInv, SocketAgrees, At
  <2> HIDE DEF s
  <2> QED BY <1>2, <2>1, <2>2, CallProceeds
<1> QED BY <1>4, <1>5, <1>6, <1>7, <1>8 DEF read_registry, validate_socket, Connect,
            ConnectTimeout, validate_connected_socket

LEMMA WritingKeepsInv ==
    ASSUME ClientInv, NEW c \in Calls,
           Write(c) \/ WriteInterrupted(c) \/ WireTimeout(c) \/ ResponseLost(c)
    PROVE  ClientInv'
<1>1. CallInv(c) /\ ClientTypes /\ call[c] \in CallStates
  BY DEF ClientInv, ClientTypes
<1>2. call[c].pc \in {"WRITE", "WAIT"} /\ call[c].conn = call[c].seen
  BY <1>1 DEF Write, WriteInterrupted, WireTimeout, ResponseLost, At, CallInv, SocketAgrees
<1>3. call[c].pc = "WRITE" => c \notin inbox \cup applied /\ answer[c] = None
  BY <1>1, EarlyCall
<1>4. \A failure \in {"INTERRUPTED", "TIMEOUT", "LOST"} :
          /\ wire_error(call[c].op, failure) \in CallResults \ {"NONE", "OK"}
          /\ wire_error(call[c].op, failure) = "AMBIGUOUS" <=> mutates(call[c].op)
  BY DEF wire_error, CallResults
<1>5. CASE Write(c)
  <2> DEFINE s == [call[c] EXCEPT !.pc = "WAIT"]
  <2>1. s \in CallStates /\ call' = [call EXCEPT ![c] = s] /\ s.op = call[c].op
        /\ s.arg = call[c].arg /\ s.result = call[c].result /\ s.pc = "WAIT"
        /\ s.seen = call[c].seen /\ s.conn = call[c].conn
    BY <1>1, <1>5 DEF CallStates, CallPcs, Write, Go, ClientTypes
  <2>2. call[c].pc = "WRITE" /\ inbox' = inbox \cup {c}
        /\ UNCHANGED <<daemonVars, runs, applied, drafts, answer>>
    BY <1>5 DEF Write, At
  <2> HIDE DEF s
  <2> QED BY <1>2, <2>1, <2>2, CallProceeds
<1>6. CASE WriteInterrupted(c)
  <2> DEFINE e == wire_error(call[c].op, "INTERRUPTED")
  <2>1. e \in CallResults \ {"NONE", "OK"} /\ (e = "AMBIGUOUS" <=> mutates(call[c].op))
    BY <1>4
  <2>2. /\ End(c, e) /\ call[c].pc = "WRITE"
        /\ UNCHANGED <<daemonVars, runs, applied, drafts>> /\ answer' = answer
        /\ inbox' = inbox \/ inbox' = inbox \cup {c}
    BY <1>6 DEF WriteInterrupted, At
  <2> HIDE DEF e
  <2> QED BY <1>2, <1>3, <2>1, <2>2, CallFails
<1>7. CASE WireTimeout(c)
  <2> DEFINE e == wire_error(call[c].op, "TIMEOUT")
  <2>1. e \in CallResults \ {"NONE", "OK"} /\ (e = "AMBIGUOUS" <=> mutates(call[c].op))
    BY <1>4
  <2>2. /\ End(c, e) /\ Hangup(c) /\ inbox' = inbox
        /\ UNCHANGED <<daemonVars, runs, applied, drafts>>
    BY <1>7 DEF WireTimeout
  <2> HIDE DEF e
  <2> QED BY <1>2, <2>1, <2>2, CallFails
<1>8. CASE ResponseLost(c)
  <2> DEFINE e == wire_error(call[c].op, "LOST")
  <2>1. e \in CallResults \ {"NONE", "OK"} /\ (e = "AMBIGUOUS" <=> mutates(call[c].op))
    BY <1>4
  <2>2. /\ End(c, e) /\ answer[c] = None /\ answer' = answer /\ inbox' = inbox
        /\ UNCHANGED <<daemonVars, runs, applied, drafts>>
    BY <1>8 DEF ResponseLost, wireVars
  <2> HIDE DEF e
  <2> QED BY <1>2, <2>1, <2>2, CallFails
<1> QED BY <1>5, <1>6, <1>7, <1>8

\* An answer is believed only when it is exact and binds to the request.
LEMMA ReadAnswerKeepsInv ==
    ASSUME ClientInv, NEW c \in Calls, ReadAnswer(c)
    PROVE  ClientInv'
<1> DEFINE a == answer[c]
           s == [call[c] EXCEPT !.pc = "DONE", !.result = "OK", !.value = a]
<1>1. CallInv(c) /\ ClientTypes /\ call[c] \in CallStates
  BY DEF ClientInv, ClientTypes
<1>2. /\ call[c].pc = "WAIT" /\ a \in Answers /\ a # None
      /\ Hangup(c) /\ inbox' = inbox /\ UNCHANGED <<daemonVars, runs, applied, drafts>>
  BY <1>1 DEF ReadAnswer, At, ClientTypes
<1>3. c \notin inbox /\ call[c].conn = call[c].seen /\ (c \in applied => a.kind # "REMOTE")
  BY <1>1, <1>2 DEF CallInv, RequestIsSent, SocketAgrees
<1>4. \/ a.kind = "REMOTE" /\ End(c, "REMOTE")
      \/ a.kind # "REMOTE" /\ End(c, wire_error(call[c].op, "MALFORMED"))
      \/ a.kind # "REMOTE" /\ End(c, Unbound(call[c].op))
      \/ /\ a.kind = "DATA" /\ ExactResponse(call[c].op, a) /\ Binds(c, a)
         /\ call' = [call EXCEPT ![c].pc = "DONE", ![c].result = "OK", ![c].value = a]
  <2>1. a.kind \in {"DATA", "REMOTE", "GARBAGE"}
    BY <1>2 DEF Answers
  <2>2. CASE a.kind = "REMOTE"
    BY <2>2 DEF ReadAnswer, parse_control_response
  <2>3. CASE a.kind = "GARBAGE"
    BY <2>3 DEF ReadAnswer, parse_control_response
  <2>4. CASE a.kind = "DATA" /\ ~ExactResponse(call[c].op, a)
    BY <2>4 DEF ReadAnswer, parse_control_response
  <2>5. CASE a.kind = "DATA" /\ ExactResponse(call[c].op, a) /\ ~Binds(c, a)
    BY <2>5 DEF ReadAnswer, parse_control_response
  <2>6. CASE a.kind = "DATA" /\ ExactResponse(call[c].op, a) /\ Binds(c, a)
    BY <2>6 DEF ReadAnswer, parse_control_response
  <2> QED BY <2>1, <2>2, <2>3, <2>4, <2>5, <2>6
<1>5. \A e \in {wire_error(call[c].op, "MALFORMED"), Unbound(call[c].op)} :
          /\ e \in CallResults \ {"NONE", "OK"}
          /\ e = "AMBIGUOUS" <=> mutates(call[c].op)
  BY DEF wire_error, Unbound, mutates, CallResults
<1> HIDE DEF a, s
<1>6. CASE a.kind = "REMOTE" /\ End(c, "REMOTE")
  BY <1>2, <1>3, <1>6, CallFails DEF CallResults
<1>7. CASE a.kind # "REMOTE" /\ End(c, wire_error(call[c].op, "MALFORMED"))
  BY <1>2, <1>3, <1>5, <1>7, CallFails
<1>8. CASE a.kind # "REMOTE" /\ End(c, Unbound(call[c].op))
  BY <1>2, <1>3, <1>5, <1>8, CallFails
<1>9. CASE /\ a.kind = "DATA" /\ ExactResponse(call[c].op, a) /\ Binds(c, a)
           /\ call' = [call EXCEPT ![c].pc = "DONE", ![c].result = "OK", ![c].value = a]
  <2>1. s \in CallStates /\ call' = [call EXCEPT ![c] = s]
    BY <1>1, <1>2, <1>9 DEF CallStates, CallPcs, CallResults, ClientTypes, s
  <2>2. /\ s.op = call[c].op /\ s.arg = call[c].arg /\ s.result = "OK" /\ s.pc = "DONE"
        /\ s.seen = call[c].seen /\ s.conn = call[c].conn /\ s.value = a
    BY <1>1 DEF CallStates, s
  <2> SUFFICES ASSUME call'[c] = s PROVE CallInv(c)'
    BY <1>2, <2>1, OneCallMoves
  <2>3. answer'[c] = None
    BY <1>1, <1>2 DEF Hangup, ClientTypes
  <2>4. CallIsMade(c)' /\ SocketAgrees(c)'
    BY <1>1, <1>2, <1>3, <2>2 DEF CallInv, CallIsMade, SocketAgrees
  <2>5. RequestIsSent(c)'
    BY <1>1, <1>2, <1>3, <2>2, <2>3 DEF CallInv, RequestIsSent
  <2>6. AnswerIsTrue(c)'
    BY <2>3 DEF AnswerIsTrue
  <2>7. DraftIsPast(c)'
    BY <1>1, <1>2, <2>2 DEF CallInv, DraftIsPast, KeyIn, Known
  <2>8. TellsTruth(c, a)
    BY <1>1, <1>2, <1>9 DEF CallInv, AnswerIsTrue, a
  <2>9. ValueIsProof(c)'
    <3>1. PICK b \in Answers : b = a
      BY <1>2
    <3>2. TellsTruth(c, b) /\ Binds(c, b) /\ ExactResponse(call[c].op, b)
      BY <1>9, <2>8, <3>1
    <3>3. TellsTruth(c, b)'
      BY <1>2, <2>2, <3>2 DEF TellsTruth, KeyIn, Known
    <3>4. Binds(c, b)'
      BY <2>2, <3>2 DEF Binds, SubmitBinds, ReconcileBinds, ReadBinds
    <3>5. call'[c].value = b /\ call'[c].op = call[c].op
      BY <2>2, <3>1
    <3> QED BY <3>2, <3>3, <3>4, <3>5 DEF ValueIsProof
  <2> QED BY <2>4, <2>5, <2>6, <2>7, <2>9 DEF CallInv
<1> QED BY <1>4, <1>6, <1>7, <1>8, <1>9

-----------------------------------------------------------------------------
(* Runmill's steps: no call moves, runs only grow.                         *)
LEMMA ReplyKeepsInv ==
    ASSUME ClientInv, NEW c \in inbox, NEW a \in Answers, Reply(c, a),
           RunsGrow, runs' \in [Keys -> RunStates], KnownHaveLogs',
           applied' = applied \/ (applied' = applied \cup {c} /\ mutates(call[c].op)),
           c \in applied' => a.kind # "REMOTE",
           drafts' = drafts \/ drafts' = [drafts EXCEPT ![c] = None],
           a.kind = "DATA" => TellsTruth(c, a)'
    PROVE  ClientInv'
<1>1. ClientTypes /\ KnownHaveLogs /\ c \in Calls
  BY DEF ClientInv, ClientTypes
<1>2. CallInv(c)
  BY <1>1 DEF ClientInv
<1>3. /\ answer' \in [Calls -> Answers \cup {None}]
      /\ \A d \in Calls \ {c} : answer'[d] = answer[d]
      /\ IF call[c].pc = "WAIT" THEN answer'[c] = a ELSE answer'[c] = answer[c]
  BY <1>1 DEF ClientTypes, Reply, At
<1>4. drafts' \in [Calls -> RunStates \cup {None}] /\ drafts'[c] \in {drafts[c], None}
      /\ \A d \in Calls \ {c} : drafts'[d] = drafts[d]
  BY <1>1 DEF ClientTypes
<1>5. UNCHANGED <<daemonVars, call>> /\ inbox' = inbox \ {c}
  BY DEF Reply
<1>6. ClientTypes'
  BY <1>1, <1>3, <1>4, <1>5 DEF ClientTypes, daemonVars
<1>7. Surroundings
  BY <1>5, <1>6 DEF Surroundings, daemonVars, ClientInv, ClientTypes
<1>8. \A d \in Calls \ {c} : Untouched(d)
  BY <1>3, <1>4, <1>5 DEF Untouched
<1>9. CallInv(c)'
  <2>1. CallIsMade(c)'
    BY <1>2, <1>5 DEF CallInv, CallIsMade
  <2>2. SocketAgrees(c)'
    BY <1>2, <1>5 DEF CallInv, SocketAgrees, daemonVars
  <2>3. RequestIsSent(c)'
    BY <1>2, <1>3, <1>4, <1>5 DEF CallInv, RequestIsSent
  <2>4. AnswerIsTrue(c)'
    <3>1. CASE call[c].pc = "WAIT" BY <1>3, <3>1 DEF AnswerIsTrue
    <3>2. CASE call[c].pc # "WAIT" BY <1>2, <1>3, <3>2 DEF AnswerIsTrue, CallInv, RequestIsSent
    <3> QED BY <3>1, <3>2
  <2>5. DraftIsPast(c)'
    <3>1. CASE drafts'[c] = None BY <3>1 DEF DraftIsPast
    <3>2. CASE drafts'[c] # None
      <4>1. drafts'[c] = drafts[c] /\ call[c].pc # "IDLE"
        BY <1>2, <1>4, <3>2 DEF CallInv, RequestIsSent
      <4> QED BY <1>1, <1>2, <1>5, <1>6, <4>1, DraftIsKept DEF CallInv
    <3> QED BY <3>1, <3>2
  <2>6. ValueIsProof(c)'
    BY <1>1, <1>2, <1>5, <1>6, ProofIsKept DEF CallInv
  <2> QED BY <2>1, <2>2, <2>3, <2>4, <2>5, <2>6 DEF CallInv
<1>10. \A d \in Calls : CallInv(d)'
  BY <1>7, <1>8, <1>9, UntouchedKeeps
<1> QED BY <1>6, <1>7, <1>10 DEF ClientInv, Surroundings

LEMMA NoRunIsEmpty == NoRun.log = <<>>
BY DEF NoRun

LEMMA SubmitKeepsInv ==
    ASSUME ClientInv, NEW c \in Calls, Submit(c)
    PROVE  ClientInv'
<1> DEFINE k == KeyIn(c)
           s == Admitted(call[c].arg)
           b == [Data(k) EXCEPT !.envelope = IF Known(k) THEN runs[k].envelope ELSE call[c].arg]
<1>1. /\ c \in inbox /\ call[c].op = "SUBMIT" /\ UNCHANGED <<drafts, call>>
      /\ CallInv(c) /\ ClientTypes /\ KnownHaveLogs
  BY DEF Submit, Reply, ClientInv
<1>2. call[c].arg \in Envelopes /\ k \in Keys /\ k = KeyOf[call[c].arg]
  BY <1>1, KeyInIsKey DEF CallInv, CallIsMade, RequestIsSent, Args, Ops
<1>3. b \in Answers /\ b.kind = "DATA"
      /\ b.envelope = IF Known(k) THEN runs[k].envelope ELSE call[c].arg
  <2>1. runs[k].envelope \in Envelopes \cup {None}
    BY <1>1, <1>2 DEF ClientTypes, RunStates
  <2> QED BY <1>2, <2>1 DEF Data, Answers
<1>4. PICK a \in Answers : a = b
  BY <1>3
<1>5. Reply(c, a)
  BY <1>2, <1>4 DEF Submit
<1>6. s \in RunStates /\ s.log # <<>> /\ s.envelope = call[c].arg
  BY <1>2 DEF Admitted, RunStates, Phases
<1> HIDE DEF b, k, s
<1>7. CASE Known(k)
  <2>1. UNCHANGED <<runs, applied>>
    BY <1>2, <1>7 DEF Submit, k
  <2>2. TellsTruth(c, a)'
    BY <1>1, <1>3, <1>4, <1>7, <2>1 DEF TellsTruth, k, KeyIn, Known
  <2>3. c \notin applied
    BY <1>1 DEF CallInv, RequestIsSent
  <2> QED BY <1>1, <1>5, <2>1, <2>2, <2>3, UnchangedRunsGrow, ReplyKeepsInv
<1>8. CASE ~Known(k)
  <2>1. runs' = [runs EXCEPT ![k] = s] /\ applied' = applied \cup {c}
    BY <1>2, <1>8 DEF Submit, k, s
  <2>2. RunsGrow /\ runs' \in [Keys -> RunStates] /\ KnownHaveLogs' /\ runs'[k] = s
    BY <1>1, <1>2, <1>6, <1>8, <2>1, OneRunGrows
  <2>3. TellsTruth(c, a)'
    <3>1. KeyIn(c)' = k /\ call'[c].op = "SUBMIT"
      BY <1>1 DEF KeyIn, k
    <3>2. a.envelope = runs'[k].envelope
      BY <1>3, <1>4, <1>6, <1>8, <2>2
    <3>3. runs'[k] # NoRun
      BY <1>6, <2>2, NoRunIsEmpty
    <3> QED BY <3>1, <3>2, <3>3 DEF TellsTruth, Known
  <2>4. mutates(call[c].op) /\ a.kind = "DATA"
    BY <1>1, <1>3, <1>4 DEF mutates
  <2> QED BY <1>1, <1>5, <2>1, <2>2, <2>3, <2>4, ReplyKeepsInv
<1> QED BY <1>7, <1>8

LEMMA CancelKeepsInv ==
    ASSUME ClientInv, NEW c \in Calls, Cancel(c)
    PROVE  ClientInv'
<1> DEFINE k == KeyIn(c)
           answers(q, d) == [Data(k) EXCEPT !.phase = PhaseOf(runs'[k]),
                                            !.request = q, !.disposition = d]
<1>1. /\ c \in inbox /\ call[c].op = "CANCEL" /\ UNCHANGED <<drafts, call>>
      /\ CallInv(c) /\ ClientTypes /\ KnownHaveLogs
  BY DEF Cancel, Reply, ClientInv
<1>2. call[c].arg \in CancelRequests /\ k \in Keys /\ k = RunOf[call[c].arg]
  BY <1>1, KeyInIsKey DEF CallInv, CallIsMade, RequestIsSent, Args, Ops
<1>3. Known(k) /\ runs[k] \in RunStates /\ runs[k].log # <<>> /\ runs[k].log \in Seq(Phases)
      /\ runs[k].cancel \in CancelRequests \cup {None}
  BY <1>1, <1>2 DEF Cancel, KnownHaveLogs, ClientTypes, RunStates
<1>4. mutates(call[c].op) /\ c \notin applied /\ c \in Calls
  BY <1>1 DEF mutates, CallInv, RequestIsSent
<1>5. ASSUME NEW q \in CancelRequests \cup {None},
             NEW d \in {"ALREADY_TERMINAL", "EXISTING", "REQUESTED"},
             runs'[k] \in RunStates, runs'[k].log # <<>>
      PROVE  /\ answers(q, d) \in Answers /\ answers(q, d).kind = "DATA"
             /\ answers(q, d).request = q
  <2>1. PhaseOf(runs'[k]) \in Phases
    BY <1>5 DEF PhaseOf, RunStates
  <2> QED BY <1>2, <2>1 DEF Data, Answers
<1>6. CASE /\ Ended(runs[k]) /\ UNCHANGED <<runs, applied>>
           /\ Reply(c, answers(call[c].arg, "ALREADY_TERMINAL"))
  <2>1. PICK a \in Answers : a = answers(call[c].arg, "ALREADY_TERMINAL")
    BY <1>2, <1>3, <1>5, <1>6
  <2>2. Reply(c, a)
    BY <1>6, <2>1
  <2>3. TellsTruth(c, a)'
    BY <1>1, <1>3, <1>6 DEF TellsTruth, KeyIn, Known
  <2> HIDE DEF k, answers
  <2> QED BY <1>1, <1>4, <1>6, <2>2, <2>3, UnchangedRunsGrow, ReplyKeepsInv
<1>7. CASE /\ runs[k].cancel /= None /\ UNCHANGED <<runs, applied>>
           /\ Reply(c, answers(runs[k].cancel, "EXISTING"))
  <2>1. PICK a \in Answers : a = answers(runs[k].cancel, "EXISTING")
    BY <1>3, <1>5, <1>7
  <2>2. Reply(c, a) /\ a.request = runs[k].cancel
    BY <1>3, <1>5, <1>7, <2>1
  <2>3. TellsTruth(c, a)'
    BY <1>1, <1>3, <1>7, <2>2 DEF TellsTruth, KeyIn, Known
  <2> HIDE DEF k, answers
  <2> QED BY <1>1, <1>4, <1>7, <2>2, <2>3, UnchangedRunsGrow, ReplyKeepsInv
<1>8. CASE /\ ~Ended(runs[k]) /\ runs[k].cancel = None
           /\ runs' = [runs EXCEPT ![k].log = Logged(k, "CANCEL_REQUESTED"),
                                   ![k].cancel = call[c].arg]
           /\ applied' = applied \cup {c}
           /\ Reply(c, answers(call[c].arg, "REQUESTED"))
  <2> DEFINE s == [runs[k] EXCEPT !.log = Logged(k, "CANCEL_REQUESTED"),
                                  !.cancel = call[c].arg]
  <2>1. "CANCEL_REQUESTED" \in Phases /\ Logged(k, "CANCEL_REQUESTED") \in Seq(Phases)
        /\ Logged(k, "CANCEL_REQUESTED") = Append(runs[k].log, "CANCEL_REQUESTED")
        /\ Logged(k, "CANCEL_REQUESTED") # <<>>
    BY <1>3 DEF Logged, Phases
  <2>2. s \in RunStates /\ s.log = Append(runs[k].log, "CANCEL_REQUESTED")
        /\ s.envelope = runs[k].envelope /\ s.ack = runs[k].ack
        /\ s.cancel = call[c].arg /\ s.log # <<>>
    BY <1>2, <1>3, <2>1 DEF RunStates
  <2>3. runs' = [runs EXCEPT ![k] = s]
    BY <1>1, <1>2, <1>8 DEF ClientTypes
  <2> HIDE DEF s
  <2>4. Grew(runs[k], s)
    BY <1>3, <1>8, <2>1, <2>2, LoggedGrows
  <2>5. RunsGrow /\ runs' \in [Keys -> RunStates] /\ KnownHaveLogs' /\ runs'[k] = s
    BY <1>1, <1>2, <2>2, <2>3, <2>4, OneRunGrows
  <2>6. PICK a \in Answers : a = answers(call[c].arg, "REQUESTED")
    BY <1>2, <1>5, <2>2, <2>5
  <2>7. Reply(c, a) /\ a.request = call[c].arg /\ a.kind = "DATA"
    BY <1>2, <1>5, <1>8, <2>2, <2>5, <2>6
  <2>8. TellsTruth(c, a)'
    <3>1. runs'[k].cancel = call[c].arg /\ call[c].arg # None /\ runs'[k] # NoRun
      <4>1. call[c].arg # None
        BY <1>2, ClientAssumption
      <4>2. runs'[k].cancel = call[c].arg /\ runs'[k].log # <<>>
        BY <2>2, <2>5
      <4> QED BY <4>1, <4>2, NoRunIsEmpty
    <3> QED BY <1>1, <2>7, <3>1 DEF TellsTruth, KeyIn, Known
  <2> HIDE DEF k, answers
  <2> QED BY <1>1, <1>4, <1>8, <2>5, <2>7, <2>8, ReplyKeepsInv
<1> QED BY <1>2, <1>6, <1>7, <1>8 DEF Cancel

LEMMA AcknowledgeKeepsInv ==
    ASSUME ClientInv, NEW c \in Calls, Acknowledge(c)
    PROVE  ClientInv'
<1> DEFINE k == KeyIn(c)
           s == [runs[k] EXCEPT !.ack = TRUE]
           b == [Data(k) EXCEPT !.terminal = k]
<1>1. /\ c \in inbox /\ call[c].op = "ACK" /\ UNCHANGED <<drafts, call>>
      /\ CallInv(c) /\ ClientTypes /\ KnownHaveLogs
  BY DEF Acknowledge, Reply, ClientInv
<1>2. k \in Keys /\ k = call[c].arg
  BY <1>1, KeyInIsKey DEF CallInv, CallIsMade, RequestIsSent, Args, Ops
<1>3. Ended(runs[k]) /\ runs[k] \in RunStates /\ runs[k].log # <<>>
  BY <1>1, <1>2 DEF Acknowledge, Ended, ClientTypes
<1>4. mutates(call[c].op) /\ c \notin applied /\ c \in Calls
      /\ (applied' = applied \/ applied' = applied \cup {c})
  BY <1>1 DEF mutates, CallInv, RequestIsSent, Acknowledge
<1>5. s \in RunStates /\ s.log = runs[k].log /\ s.envelope = runs[k].envelope
      /\ s.cancel = runs[k].cancel /\ s.ack = TRUE
  BY <1>3 DEF RunStates
<1>6. runs' = [runs EXCEPT ![k] = s]
  BY <1>1, <1>2 DEF ClientTypes, Acknowledge
<1>7. b \in Answers /\ b.kind = "DATA"
  BY <1>2 DEF Data, Answers
<1>8. PICK a \in Answers : a = b
  BY <1>7
<1>9. Reply(c, a) /\ a.kind = "DATA"
  BY <1>2, <1>7, <1>8 DEF Acknowledge
<1> HIDE DEF b, s
<1>10. Grew(runs[k], s)
  BY <1>3, <1>5, GrewFromItself DEF Grew
<1>11. RunsGrow /\ runs' \in [Keys -> RunStates] /\ KnownHaveLogs' /\ runs'[k] = s
  BY <1>1, <1>2, <1>3, <1>5, <1>6, <1>10, OneRunGrows
<1>12. TellsTruth(c, a)'
  BY <1>1, <1>3, <1>5, <1>11 DEF TellsTruth, KeyIn, Known, NoRun
<1> HIDE DEF k
<1> QED BY <1>1, <1>4, <1>9, <1>11, <1>12, ReplyKeepsInv

LEMMA RefuseKeepsInv ==
    ASSUME ClientInv, NEW c \in Calls, Refuse(c)
    PROVE  ClientInv'
<1>1. c \in inbox /\ Reply(c, Remote) /\ UNCHANGED <<runs, drafts, applied>> /\ CallInv(c)
      /\ ClientTypes /\ KnownHaveLogs
  BY DEF Refuse, ClientInv
<1>2. PICK a \in Answers : a = Remote
  BY RemoteIsAnswer
<1>3. Reply(c, a) /\ a.kind = "REMOTE" /\ c \notin applied
  BY <1>1, <1>2, RemoteIsAnswer DEF CallInv, RequestIsSent
<1> QED BY <1>1, <1>3, UnchangedRunsGrow, ReplyKeepsInv

\* A read that has asked its first query of two.
LEMMA DraftKeepsInv ==
    ASSUME ClientInv, NEW c \in Calls, Draft(c)
    PROVE  ClientInv'
<1> DEFINE k == KeyIn(c)
<1>1. /\ c \in inbox /\ ~mutates(call[c].op) /\ Known(k)
      /\ drafts' = [drafts EXCEPT ![c] = runs[k]]
      /\ UNCHANGED <<daemonVars, runs, call, inbox, answer, applied>>
      /\ CallInv(c) /\ ClientTypes /\ KnownHaveLogs
  BY DEF Draft, ClientInv
<1>2. k \in Keys /\ KeyIn(c)' = k /\ call[c].pc \in {"WAIT", "DONE"}
  BY <1>1, KeyInIsKey DEF CallInv, CallIsMade, RequestIsSent, KeyIn
<1>3. runs[k] \in RunStates /\ runs[k].log # <<>> /\ Known(KeyIn(c))'
  BY <1>1, <1>2 DEF ClientTypes, KnownHaveLogs, Known
<1> HIDE DEF k
<1>4. drafts' \in [Calls -> RunStates \cup {None}] /\ drafts'[c] = runs[k]
      /\ \A d \in Calls \ {c} : drafts'[d] = drafts[d]
  BY <1>1, <1>3 DEF ClientTypes
<1>5. ClientTypes'
  BY <1>1, <1>4 DEF ClientTypes, daemonVars
<1>6. RunsGrow /\ KnownHaveLogs'
  BY <1>1, UnchangedRunsGrow
<1>7. Surroundings
  BY <1>1, <1>5, <1>6 DEF Surroundings, daemonVars, ClientInv, ClientTypes
<1>8. \A d \in Calls \ {c} : Untouched(d)
  BY <1>1, <1>4 DEF Untouched
<1>9. CallInv(c)'
  <2>1. CallIsMade(c)' /\ SocketAgrees(c)'
    BY <1>1 DEF CallInv, CallIsMade, SocketAgrees, daemonVars
  <2>2. RequestIsSent(c)'
    BY <1>1, <1>2 DEF CallInv, RequestIsSent
  <2>3. AnswerIsTrue(c)'
    BY <1>1 DEF AnswerIsTrue, CallInv, RequestIsSent
  <2>4. DraftIsPast(c)'
    <3>1. Grew(runs[k], runs[k])
      BY <1>3, GrewFromItself
    <3> QED BY <1>1, <1>2, <1>3, <1>4, <3>1 DEF DraftIsPast
  <2>5. ValueIsProof(c)'
    BY <1>1, <1>5, <1>6, ProofIsKept DEF CallInv
  <2> QED BY <2>1, <2>2, <2>3, <2>4, <2>5 DEF CallInv
<1>10. \A d \in Calls : CallInv(d)'
  BY <1>7, <1>8, <1>9, UntouchedKeeps
<1> QED BY <1>5, <1>6, <1>7, <1>10 DEF ClientInv, Surroundings

\* The second query: what the first one read is still a moment of the run.
LEMMA AnswerKeepsInv ==
    ASSUME ClientInv, NEW c \in Calls, Answer(c)
    PROVE  ClientInv'
<1> DEFINE k == KeyIn(c)
           first == drafts[c]
           now == runs[k]
           bundle == IF StatusOf(PhaseOf(now)) \in {"FINALIZING", "FINAL"} THEN k ELSE None
           terminal == IF Ended(now) THEN k ELSE None
           b == [Data(k) EXCEPT !.envelope = first.envelope, !.phase = PhaseOf(first),
                        !.version = Len(first.log), !.latest = Len(now.log),
                        !.status = StatusOf(PhaseOf(now)), !.complete = Ended(now),
                        !.bundle = bundle, !.signed = bundle, !.terminal = terminal]
<1>1. /\ c \in inbox /\ first # None /\ drafts' = [drafts EXCEPT ![c] = None]
      /\ UNCHANGED <<runs, applied, call>> /\ Reply(c, b)
      /\ CallInv(c) /\ ClientTypes /\ KnownHaveLogs
  BY DEF Answer, Reply, ClientInv
<1>2. /\ k \in Keys /\ ~mutates(call[c].op) /\ Known(k) /\ first.log # <<>>
      /\ Grew(first, now)
  BY <1>1, KeyInIsKey DEF CallInv, CallIsMade, RequestIsSent, DraftIsPast
<1>3. first \in RunStates /\ now \in RunStates /\ now.log # <<>>
  BY <1>1, <1>2 DEF ClientTypes, KnownHaveLogs
<1> HIDE DEF k, first, now
<1>4. /\ first.envelope \in Envelopes \cup {None} /\ PhaseOf(first) \in Phases
      /\ Len(first.log) \in Nat /\ Len(now.log) \in Nat /\ Len(first.log) \in 1..Len(first.log)
      /\ StatusOf(PhaseOf(now)) \in {"FINALIZING", "FINAL", "STOPPED", "CURRENT"}
      /\ Ended(now) \in BOOLEAN
      /\ bundle \in Keys \cup {None} /\ terminal \in Keys \cup {None}
  BY <1>2, <1>3 DEF RunStates, PhaseOf, StatusOf, Ended
<1> HIDE DEF bundle, terminal
<1>5. /\ b \in Answers /\ b.kind = "DATA" /\ b.envelope = first.envelope
      /\ b.phase = PhaseOf(first) /\ b.version = Len(first.log)
      /\ b.complete = Ended(now) /\ b.terminal = terminal
  BY <1>2, <1>4 DEF Data, Answers
<1> HIDE DEF b
<1>6. PICK a \in Answers : a = b
  BY <1>5
<1>7. Reply(c, a) /\ a.kind = "DATA"
  BY <1>1, <1>5, <1>6
<1>8. TellsTruth(c, a)'
  <2>1. a.envelope = now.envelope
    BY <1>2, <1>5, <1>6 DEF Grew
  <2>2. a.version \in 1..Len(now.log) /\ a.phase = now.log[a.version]
    BY <1>2, <1>4, <1>5, <1>6 DEF Grew, PhaseOf
  <2>3. a.complete => Ended(now) /\ a.terminal = k
    BY <1>5, <1>6 DEF terminal
  <2>4. call[c].op \notin {"SUBMIT", "CANCEL", "ACK"}
    BY <1>2 DEF mutates
  <2>5. KeyIn(c)' = k /\ now = runs[k] /\ runs' = runs /\ call' = call
    BY <1>1 DEF KeyIn, k, now
  <2> QED BY <1>2, <2>1, <2>2, <2>3, <2>4, <2>5 DEF TellsTruth, Known
<1>9. c \notin applied
  BY <1>1 DEF CallInv, RequestIsSent
<1> QED BY <1>1, <1>7, <1>8, <1>9, UnchangedRunsGrow, ReplyKeepsInv

LEMMA GarbleKeepsInv ==
    ASSUME ClientInv, NEW c \in Calls, Garble(c)
    PROVE  ClientInv'
<1>1. /\ answer[c] # None /\ answer[c].kind = "DATA" /\ call[c].pc = "WAIT"
      /\ UNCHANGED <<daemonVars, runs, call, inbox, drafts, applied>>
      /\ CallInv(c) /\ ClientTypes /\ KnownHaveLogs
  BY DEF Garble, ClientInv, At
<1>2. PICK g \in {Garbage} \cup {[answer[c] EXCEPT !.run = k] : k \in Keys}
                 \cup {[answer[c] EXCEPT !.signed = k] : k \in Keys} :
           answer' = [answer EXCEPT ![c] = g]
  BY DEF Garble
<1>3. answer[c] \in Answers
  BY <1>1 DEF ClientTypes
<1>4. /\ g \in Answers /\ g.kind \in {"DATA", "GARBAGE"}
      /\ g.kind = "DATA" =>
            /\ g.envelope = answer[c].envelope /\ g.request = answer[c].request
            /\ g.version = answer[c].version /\ g.phase = answer[c].phase
            /\ g.complete = answer[c].complete /\ g.terminal = answer[c].terminal
  <2>1. CASE g = Garbage
    BY <2>1, RemoteIsAnswer
  <2>2. CASE \E k \in Keys : g = [answer[c] EXCEPT !.run = k]
    BY <1>1, <1>3, <2>2 DEF Answers
  <2>3. CASE \E k \in Keys : g = [answer[c] EXCEPT !.signed = k]
    BY <1>1, <1>3, <2>3 DEF Answers
  <2> QED BY <1>2, <2>1, <2>2, <2>3
<1>5. answer' \in [Calls -> Answers \cup {None}] /\ answer'[c] = g
      /\ \A d \in Calls \ {c} : answer'[d] = answer[d]
  BY <1>1, <1>2, <1>4 DEF ClientTypes
<1>6. ClientTypes'
  BY <1>1, <1>5 DEF ClientTypes, daemonVars
<1>7. RunsGrow /\ KnownHaveLogs'
  BY <1>1, UnchangedRunsGrow
<1>8. Surroundings
  BY <1>1, <1>6, <1>7 DEF Surroundings, daemonVars, ClientInv, ClientTypes
<1>9. \A d \in Calls \ {c} : Untouched(d)
  BY <1>1, <1>5 DEF Untouched
<1>10. CallInv(c)'
  <2>1. CallIsMade(c)' /\ SocketAgrees(c)'
    BY <1>1 DEF CallInv, CallIsMade, SocketAgrees, daemonVars
  <2>2. RequestIsSent(c)'
    BY <1>1, <1>4, <1>5 DEF CallInv, RequestIsSent
  <2>3. TellsTruth(c, answer[c])
    BY <1>1 DEF CallInv, AnswerIsTrue
  <2>4. g.kind = "DATA" => TellsTruth(c, g)
    BY <1>4, <2>3 DEF TellsTruth
  <2>5. g.kind = "DATA" => TellsTruth(c, g)'
    BY <1>1, <2>4 DEF TellsTruth, KeyIn, Known
  <2>6. AnswerIsTrue(c)'
    BY <1>5, <2>5 DEF AnswerIsTrue
  <2>7. DraftIsPast(c)'
    BY <1>1, <1>6, <1>7, DraftIsKept DEF CallInv
  <2>8. ValueIsProof(c)'
    BY <1>1, <1>6, <1>7, ProofIsKept DEF CallInv
  <2> QED BY <2>1, <2>2, <2>6, <2>7, <2>8 DEF CallInv
<1>11. \A d \in Calls : CallInv(d)'
  BY <1>8, <1>9, <1>10, UntouchedKeeps
<1> QED BY <1>6, <1>7, <1>8, <1>11 DEF ClientInv, Surroundings

LEMMA RunMovesKeepsInv ==
    ASSUME ClientInv, NEW k \in Keys, RunMoves(k)
    PROVE  ClientInv'
<1>1. /\ Known(k) /\ ~Ended(runs[k]) /\ UNCHANGED <<daemonVars, call, wireVars, applied>>
      /\ ClientTypes /\ KnownHaveLogs
  BY DEF RunMoves, ClientInv
<1>2. PICK ph \in Phases : runs' = [runs EXCEPT ![k].log = Logged(k, ph)]
  BY DEF RunMoves, Phases
<1> DEFINE s == [runs[k] EXCEPT !.log = Logged(k, ph)]
<1>3. runs[k] \in RunStates /\ runs[k].log # <<>> /\ runs[k].log \in Seq(Phases)
  BY <1>1 DEF ClientTypes, KnownHaveLogs, RunStates
<1>4. Logged(k, ph) = Append(runs[k].log, ph) /\ Logged(k, ph) \in Seq(Phases)
      /\ Logged(k, ph) # <<>>
  BY <1>3 DEF Logged
<1>5. s \in RunStates /\ s.log = Append(runs[k].log, ph) /\ s.envelope = runs[k].envelope
      /\ s.cancel = runs[k].cancel /\ s.ack = runs[k].ack /\ s.log # <<>>
  BY <1>3, <1>4 DEF RunStates
<1>6. runs' = [runs EXCEPT ![k] = s]
  BY <1>1, <1>2 DEF ClientTypes
<1> HIDE DEF s
<1>7. Grew(runs[k], s)
  BY <1>1, <1>3, <1>5, LoggedGrows
<1>8. RunsGrow /\ runs' \in [Keys -> RunStates] /\ KnownHaveLogs'
  BY <1>1, <1>3, <1>5, <1>6, <1>7, OneRunGrows
<1>9. ClientTypes'
  BY <1>1, <1>8 DEF ClientTypes, daemonVars, wireVars
<1>10. Surroundings
  BY <1>1, <1>8, <1>9 DEF Surroundings, daemonVars, ClientInv, ClientTypes
<1>11. \A d \in Calls : Untouched(d)
  BY <1>1 DEF Untouched, wireVars
<1>12. \A d \in Calls : CallInv(d)'
  BY <1>10, <1>11, UntouchedKeeps
<1> QED BY <1>8, <1>9, <1>10, <1>12 DEF ClientInv, Surroundings

-----------------------------------------------------------------------------
(* Runmill stops, and another process takes its place.                     *)
LEMMA StopKeepsInv ==
    ASSUME ClientInv, Stop
    PROVE  ClientInv'
<1>1. /\ inbox' = {} /\ drafts' = [c \in Calls |-> None]
      /\ UNCHANGED <<boots, runs, call, answer, applied>> /\ ClientTypes /\ KnownHaveLogs
      /\ serving' = FALSE
  BY DEF Stop, ClientInv
<1>2. /\ registry' \in {"NONE", "V1", "V2", "OPEN"} /\ sock' \in [inode : Nat, private : BOOLEAN]
      /\ sock'.inode \in {0, boots}
  <2>1. CASE UNCHANGED <<registry, sock>>
    BY <1>1, <2>1 DEF ClientInv, ClientTypes
  <2>2. CASE registry' = "NONE" /\ sock' = [inode |-> 0, private |-> TRUE]
    BY <2>2
  <2> QED BY <2>1, <2>2 DEF Stop
<1>3. ClientTypes'
  <2>1. drafts' \in [Calls -> RunStates \cup {None}]
    BY <1>1
  <2> QED BY <1>1, <1>2, <2>1 DEF ClientTypes
<1>4. RunsGrow /\ KnownHaveLogs'
  BY <1>1, UnchangedRunsGrow
<1>5. ASSUME NEW c \in Calls PROVE CallInv(c)'
  <2>1. CallInv(c) /\ drafts'[c] = None
    BY <1>1 DEF ClientInv
  <2>2. CallIsMade(c)' /\ SocketAgrees(c)' /\ RequestIsSent(c)'
    BY <1>1, <2>1 DEF CallInv, CallIsMade, SocketAgrees, RequestIsSent
  <2>3. AnswerIsTrue(c)'
    BY <1>1, <2>1 DEF CallInv, AnswerIsTrue, TellsTruth, KeyIn, Known
  <2>4. DraftIsPast(c)'
    BY <2>1 DEF DraftIsPast
  <2>5. ValueIsProof(c)'
    BY <1>1, <1>3, <1>4, <2>1, ProofIsKept DEF CallInv
  <2> QED BY <2>2, <2>3, <2>4, <2>5 DEF CallInv
<1> QED BY <1>1, <1>2, <1>3, <1>4, <1>5 DEF ClientInv

LEMMA StartKeepsInv ==
    ASSUME ClientInv, Start
    PROVE  ClientInv'
<1>1. /\ serving' = TRUE /\ boots' = boots + 1 /\ registry' \in {"V1", "V2", "OPEN"}
      /\ UNCHANGED <<runs, call, wireVars, applied>> /\ ClientTypes /\ KnownHaveLogs
      /\ boots \in Nat
  BY DEF Start, ClientInv, ClientTypes
<1>2. sock' \in [inode : Nat, private : BOOLEAN] /\ sock'.inode = boots'
  BY <1>1 DEF Start
<1>3. ClientTypes'
  BY <1>1, <1>2 DEF ClientTypes, wireVars
<1>4. RunsGrow /\ KnownHaveLogs'
  BY <1>1, UnchangedRunsGrow
<1>5. Surroundings
  BY <1>1, <1>2, <1>3, <1>4 DEF Surroundings
<1>6. \A c \in Calls : Untouched(c)
  BY <1>1 DEF Untouched, wireVars
<1>7. \A c \in Calls : CallInv(c)'
  BY <1>5, <1>6, UntouchedKeeps
<1> QED BY <1>3, <1>4, <1>5, <1>7 DEF ClientInv, Surroundings

-----------------------------------------------------------------------------
LEMMA ClientInvInit == ClientInit => ClientInv
<1> SUFFICES ASSUME ClientInit PROVE ClientInv
  OBVIOUS
<1>1. runs \in [Keys -> {NoRun} \cup {Admitted(e) : e \in Envelopes \ Malformed}]
  BY DEF ClientInit
<1>2. NoRun \in RunStates
  BY DEF NoRun, RunStates
<1>3. \A e \in Envelopes : Admitted(e) \in RunStates /\ Admitted(e).log # <<>>
  BY DEF Admitted, RunStates, Phases
<1>4. runs \in [Keys -> RunStates] /\ KnownHaveLogs
  BY <1>1, <1>2, <1>3 DEF KnownHaveLogs, Known
<1>5. Unmade \in CallStates
  BY DEF Unmade, CallStates, CallArgs, CallPcs, CallResults
<1>6. ClientTypes /\ sock.inode \in {0, boots}
  BY <1>4, <1>5 DEF ClientInit, ClientTypes
<1>7. ASSUME NEW c \in Calls PROVE CallInv(c)
  <2>1. /\ call[c] = Unmade /\ drafts[c] = None /\ answer[c] = None /\ c \notin inbox \cup applied
    BY DEF ClientInit
  <2>2. Unmade.pc = "IDLE" /\ Unmade.result = "NONE"
    BY DEF Unmade
  <2> QED BY <2>1, <2>2 DEF CallInv, CallIsMade, SocketAgrees, RequestIsSent, AnswerIsTrue,
                            DraftIsPast, ValueIsProof
<1> QED BY <1>4, <1>6, <1>7 DEF ClientInv

LEMMA ClientInvStep == ClientInv /\ [ClientNext]_clientVars => ClientInv'
<1> SUFFICES ASSUME ClientInv, [ClientNext]_clientVars PROVE ClientInv'
  OBVIOUS
<1>1. CASE UNCHANGED clientVars
  <2>1. ClientTypes' /\ KnownHaveLogs' /\ sock'.inode \in {0, boots'}
    BY <1>1 DEF ClientInv, ClientTypes, KnownHaveLogs, Known, clientVars
  <2>2. Surroundings
    BY <1>1, <2>1, UnchangedRunsGrow DEF Surroundings, clientVars, ClientInv, ClientTypes
  <2>3. \A c \in Calls : Untouched(c)
    BY <1>1 DEF Untouched, clientVars
  <2> QED BY <2>1, <2>2, <2>3, UntouchedKeeps DEF ClientInv
<1>2. ASSUME NEW c \in Calls, Client(c) PROVE ClientInv'
  BY <1>2, LookingKeepsInv, WritingKeepsInv, ReadAnswerKeepsInv DEF Client
<1>3. ASSUME NEW c \in Calls, Runmill(c) PROVE ClientInv'
  BY <1>3, SubmitKeepsInv, CancelKeepsInv, AcknowledgeKeepsInv, RefuseKeepsInv,
     DraftKeepsInv, AnswerKeepsInv, GarbleKeepsInv DEF Runmill
<1>4. CASE ClientNext
  BY <1>2, <1>3, <1>4, BeginKeepsInv, RunMovesKeepsInv, StopKeepsInv, StartKeepsInv
     DEF ClientNext, ServiceStep
<1> QED BY <1>1, <1>4

\* ControlClient as a whole: every call is typed, its request and its answer
\* agree with Runmill's runs, and what was true of a run stays true.
THEOREM ClientInvHolds == ClientSpec => []ClientInv
PROOF BY ClientInvInit, ClientInvStep, PTL DEF ClientSpec

\* The errors of submit_work_order, request_cancel and acknowledge_outcome: a
\* mutating call that ends with a definite error was not applied and is not on
\* its way, however Runmill hangs, dies or is replaced.
THEOREM DefiniteMeansUnappliedHolds == ClientSpec => []DefiniteMeansUnapplied
<1>1. ClientInv => DefiniteMeansUnapplied
  <2> SUFFICES ASSUME ClientInv, NEW c \in Calls, mutates(call[c].op), At(c, "DONE"),
                      call[c].result \notin {"OK", "AMBIGUOUS"}
               PROVE  c \notin inbox \cup applied
    BY DEF DefiniteMeansUnapplied
  <2>1. CallInv(c)
    BY DEF ClientInv
  <2> QED BY <2>1 DEF CallInv, RequestIsSent, CallIsMade, At
<1> QED BY <1>1, ClientInvHolds, PTL

\* The answers of the control client: success means held by Runmill, recovered
\* means this very envelope, a read is one moment of the run, complete evidence
\* is of a run that ended, and a request went to the socket that was checked.
THEOREM AnswersAreProofHolds == ClientSpec => []AnswersAreProof
<1>1. ASSUME ClientInv PROVE ClientTypeOK
  BY <1>1 DEF ClientInv, ClientTypes, ClientTypeOK, CallInv, CallIsMade, CallStates, CallPcs
<1>2. ASSUME ClientInv PROVE SentWhereLooked
  BY <1>2 DEF ClientInv, ClientTypes, SentWhereLooked, CallInv, SocketAgrees
<1>3. ASSUME ClientInv, NEW c \in Calls, Done(c, "OK")
      PROVE  /\ call[c].op \in Ops /\ KeyIn(c) \in Keys /\ call[c].arg \in Args(call[c].op)
             /\ call[c].value \in Answers
             /\ TellsTruth(c, call[c].value)
             /\ ExactResponse(call[c].op, call[c].value)
             /\ Binds(c, call[c].value)
  BY <1>3, KeyInIsKey DEF ClientInv, CallInv, CallIsMade, ValueIsProof, Done, At
<1>4. ASSUME ClientInv PROVE OkIsHeld
  <2> SUFFICES ASSUME NEW c \in Calls, Done(c, "OK")
               PROVE  CASE call[c].op = "SUBMIT" ->
                             /\ Known(KeyIn(c))
                             /\ PayloadOf[runs[KeyIn(c)].envelope] = PayloadOf[call[c].arg]
                        [] call[c].op = "CANCEL" ->
                             runs[KeyIn(c)].cancel = call[c].arg \/ Ended(runs[KeyIn(c)])
                        [] call[c].op = "ACK" -> runs[KeyIn(c)].ack
                        [] OTHER -> TRUE
    BY DEF OkIsHeld
  <2> QED BY <1>3, <1>4 DEF TellsTruth, Binds, SubmitBinds
<1>5. ASSUME ClientInv PROVE RecoveryIsProof
  BY <1>3, <1>5 DEF RecoveryIsProof, TellsTruth, Binds, ReconcileBinds
<1>6. ASSUME ClientInv PROVE ReadIsOneMoment
  <2> SUFFICES ASSUME NEW c \in Calls, call[c].op \in {"GET", "RECONCILE"}, Done(c, "OK")
               PROVE  /\ call[c].value.run = KeyIn(c)
                      /\ call[c].value.phase = runs[KeyIn(c)].log[call[c].value.latest]
    BY DEF ReadIsOneMoment
  <2> DEFINE a == call[c].value
  <2>1. a.run = KeyIn(c)
    BY <1>3, <1>6 DEF Binds, ReconcileBinds, ReadBinds, KeyIn
  <2>2. a.latest = a.version /\ a.phase = runs[KeyIn(c)].log[a.version]
    BY <1>3, <1>6 DEF TellsTruth, ExactResponse, snapshot_valid
  <2> QED BY <2>1, <2>2
<1>7. ASSUME ClientInv PROVE CompleteMeansEnded
  <2> SUFFICES ASSUME NEW c \in Calls, call[c].op = "EVIDENCE", Done(c, "OK")
               PROVE  /\ call[c].value.complete => call[c].value.phase \in TerminalPhases
                      /\ call[c].value.phase \in TerminalPhases =>
                            Ended(runs[KeyIn(c)]) /\ call[c].value.terminal = KeyIn(c)
    BY DEF CompleteMeansEnded
  <2> DEFINE a == call[c].value
  <2>1. /\ KeyIn(c) \in Keys /\ a.complete => Ended(runs[KeyIn(c)]) /\ a.terminal = KeyIn(c)
        /\ evidence_valid(a)
    BY <1>3, <1>7 DEF TellsTruth, ExactResponse
  <2>2. IF a.phase \in TerminalPhases THEN a.complete /\ a.terminal /= None
                                      ELSE a.terminal = None
    BY <2>1 DEF evidence_valid
  <2> QED BY <1>3, <1>7, <2>1, <2>2, ClientAssumption
<1>8. ClientInv => AnswersAreProof
  BY <1>1, <1>2, <1>4, <1>5, <1>6, <1>7 DEF AnswersAreProof
<1> QED BY <1>8, ClientInvHolds, PTL
==============================================================================
