----------------------------- MODULE Submission -----------------------------
(***************************************************************************)
(* A Work Order on its way to Runmill: the signed envelope is stored once  *)
(* per attempt, an effect carries it out, the answer may be lost or the    *)
(* request may arrive late, and a recovery case with its escalation owns   *)
(* the doubt while exact lookups find and prove the remote run.  The       *)
(* adoption the proofs are for is modelled as far as the code gets: its    *)
(* effect lock cannot be decoded, so no call ever writes.                  *)
(*                                                                         *)
(* The Runmill side is the repository's own conformance gateway.  No       *)
(* production handler drives these functions yet: the actions that send    *)
(* and look up stand for the caller the functions are written for.         *)
(***************************************************************************)
EXTENDS Naturals, FiniteSets, Sequences

CONSTANTS
    Attempts,       \* attempts, each with its work order and its workflow
    Orders,         \* signed orders [idem, digest, signer] a caller may build
    Contract,       \* contract of those envelopes: "ASF" or "RUNMILL"
    Callers,        \* concurrent callers of the recovery functions
    EscalationIds,  \* escalation ids the callers bring
    NoRow,          \* no row, no value
    MaxSessions,    \* bound on worker sessions
    MaxRunVersion      \* bound on a remote run's aggregate version

ASSUME SubmissionAssumption ==
    /\ Contract \in {"ASF", "RUNMILL"}
    /\ NoRow \notin Callers \cup EscalationIds \cup Attempts
    /\ MaxSessions \in Nat \ {0} /\ MaxRunVersion \in Nat \ {0}

VARIABLES
    attempts,     \* attempts: state and work_order_digest
    fenced,       \* attempts whose work item has an unresolved paused fence
    orders,       \* work_orders, one per attempt
    intents,      \* intents handed to the step ledger: None, "ACCEPTED" or "REFUSED"
    effects,      \* effect_intents: status and request
    cases,        \* runmill_submission_recovery_cases
    escalations,  \* the REMOTE_EFFECT_AMBIGUOUS escalation of each effect
    ended,        \* attempts whose delivery workflow is no longer ACTIVE
    sessions,     \* generation of every worker session, the last is the current one
    active,       \* whether the current session is ACTIVE and unexpired
    wire,         \* submissions sent and not yet received
    submissions,  \* FakeState.submissions and run_by_attempt, by attempt
    calls         \* what each recovery caller knows

asfVars == <<attempts, fenced, orders, intents, effects, cases, escalations, ended>>
subVars == <<asfVars, sessions, active, wire, submissions, calls>>

-----------------------------------------------------------------------------
(***************************************************************************)
(* Contracts.  An order abstracts a valid payload (its idempotency key and *)
(* digest) and the key that signed it; Ed25519 signs deterministically, so *)
(* equal orders are equal envelopes.                                       *)
(***************************************************************************)
\* build_signed_work_order, sign: the envelope of an attempt.
SignedWorkOrder(a, o) ==
    [attempt |-> a, idem |-> o.idem, digest |-> o.digest, signer |-> o.signer, contract |-> Contract]

SignedOrders == {SignedWorkOrder(a, o) : a \in Attempts, o \in Orders}

\* QualifiedSubmissionIdentityV1: the request digest covers the whole envelope.
QualifiedSubmissionIdentity(e) ==
    [attempt |-> e.attempt, idem |-> e.idem, workOrderDigest |-> e.digest, requestDigest |-> e]

\* Fault: a later envelope replaces the stored one.
AnyOrder(stored, e) == TRUE

\* The stored row must be the envelope to the last field.
SameOrder(stored, e) == stored \in {NoRow, e}

\* The attempt names no other payload yet.
DigestFree(a, e) == attempts[a].digest \in {NoRow, e.digest}

\* validate_effect: the request decodes as the envelope Runmill admits and
\* carries the digests of the binding.
validate_effect(a, e) == e.contract = "RUNMILL" /\ e.attempt = a

-----------------------------------------------------------------------------
(***************************************************************************)
(* The rows of either side, and what a caller knows.                       *)
(***************************************************************************)
Identities == {QualifiedSubmissionIdentity(e) : e \in SignedOrders}
RemoteRuns == [identity : Identities, generation : Nat, version : Nat]
AttemptRows == [state : {"AUTHORIZED", "DISPATCHING"},
                digest : {o.digest : o \in Orders} \cup {NoRow}]
EffectStatuses == {"PENDING", "IN_FLIGHT", "AMBIGUOUS"}
EffectRows == [status : EffectStatuses \cup {NoRow}, request : SignedOrders \cup {NoRow}]
CaseRows == [attempt : Attempts, envelope : SignedOrders, session : Nat, generation : Nat]
EscalationStatuses == {"OPEN", "ACKNOWLEDGED", "CANCELLED"}
EscalationRows == [status : EscalationStatuses \cup {NoRow}, id : EscalationIds \cup {NoRow}]
Proofs == [run : Identities, version : Nat, session : Nat, generation : Nat]
AdoptionErrors == {"VALIDATION", "CONFLICT", "PERSISTENCE"}
CallRows == [pc : {"idle", "loaded", "cased", "proved"}, attempt : Attempts \cup {NoRow},
             escalation : EscalationIds \cup {NoRow}, session : Nat \cup {NoRow},
             proof : Proofs \cup {NoRow}, answer : AdoptionErrors \cup {NoRow}]

\* SQL's NULL is none of the values a column can hold.
ASSUME NoRowAssumption ==
    /\ NoRow \notin EffectStatuses \cup EscalationStatuses /\ NoRow \notin SignedOrders
    /\ NoRow \notin CaseRows /\ NoRow \notin Proofs /\ NoRow \notin RemoteRuns

-----------------------------------------------------------------------------
(***************************************************************************)
(* The in-memory Runmill gateway.                                          *)
(***************************************************************************)
CurrentGeneration == sessions[Len(sessions)]

NewRun(e) == [identity |-> QualifiedSubmissionIdentity(e), generation |-> CurrentGeneration,
              version |-> 1]

\* submit_work_order: the first submission of a key or an attempt stays; the
\* same key and payload adopt it; anything else is refused.
submit_work_order(e) ==
    IF submissions[e.attempt] = NoRow THEN NewRun(e) ELSE submissions[e.attempt]

\* lookup_qualified_submission and validate_against: the identity must be
\* equal in every field.
lookup_qualified_submission(q) ==
    LET r == submissions[q.attempt] IN
    IF r # NoRow /\ r.identity = q THEN r ELSE NoRow

-----------------------------------------------------------------------------
(***************************************************************************)
(* Cases, proofs and adoptions.                                            *)
(***************************************************************************)
\* NewRunmillSubmissionRecoveryCase: effect and order are the attempt's, the
\* session is the caller's.
NewCase(a, s) == [attempt |-> a, envelope |-> effects[a].request, session |-> s,
                  generation |-> sessions[s]]

\* The insert trigger: an AMBIGUOUS submission of exactly the stored order.
CaseIsExact(a) == effects[a].status = "AMBIGUOUS" /\ effects[a].request = orders[a]

case_fields_match(k, input) == k = input

\* validate_qualified_submission_receipt_for_recovery
validate_receipt(k, receipt) ==
    IF receipt = NoRow \/ receipt.generation # k.generation THEN NoRow
    ELSE [run |-> receipt.identity, version |-> receipt.version,
          session |-> k.session, generation |-> k.generation]

\* What the control socket's own snapshot of a run says of its admission.
Snapshot(e, version) == [admission |-> QualifiedSubmissionIdentity(e), run |-> e.attempt,
                         stateVersion |-> version, latestSequence |-> version]

validate_sequence_consistency(snapshot) ==
    snapshot.latestSequence > 0 /\ snapshot.latestSequence = snapshot.stateVersion

validate_admission_matches(k, admission) == admission = QualifiedSubmissionIdentity(k.envelope)

validate_run_matches(k, snapshot) == snapshot.run = k.attempt

\* validate_external_lookup_candidate: a snapshot that is an exact candidate.
\* It is never a proof: it does not say which worker generation admitted it.
ExactCandidate(k, snapshot) ==
    /\ validate_sequence_consistency(snapshot)
    /\ validate_admission_matches(k, snapshot.admission) /\ validate_run_matches(k, snapshot)

\* validate_case_matches_proof
validate_case_matches_proof(k, proof) ==
    proof.session = k.session /\ proof.generation = k.generation

\* validate_exact_locks, the effect: the row the lock asks for.
EffectIsLockable(a) == effects[a].status = "AMBIGUOUS" /\ effects[a].request = cases[a].envelope

\* validate_exact_locks, after the effect: work order, worker session,
\* delivery workflow and escalation.
RestIsLockable(a, escalation) ==
    /\ orders[a] = cases[a].envelope
    /\ sessions[cases[a].session] = cases[a].generation
    /\ a \notin ended
    /\ escalations[a].id = escalation /\ escalations[a].status \in {"OPEN", "ACKNOWLEDGED"}

\* The deferred guard of an adoption: the case's session is the worker's
\* current one.
SessionIsCurrent(k) ==
    k.session = Len(sessions) /\ active /\ k.generation = CurrentGeneration

\* adopt_in_transaction: how far a call gets.  The effect lock decodes its
\* eight columns as one scalar, which fails on every row it finds; the insert,
\* the run, the stream, the effect and the escalation lie behind it.
adopt_in_transaction(a, proof) ==
    IF ~validate_case_matches_proof(cases[a], proof) THEN "VALIDATION"
    ELSE IF EffectIsLockable(a) THEN "PERSISTENCE" ELSE "CONFLICT"

-----------------------------------------------------------------------------
NoEffect == [status |-> NoRow, request |-> NoRow]
NoCall == [pc |-> "idle", attempt |-> NoRow, escalation |-> NoRow, session |-> NoRow,
           proof |-> NoRow, answer |-> NoRow]

SubInit ==
    /\ attempts = [a \in Attempts |-> [state |-> "AUTHORIZED", digest |-> NoRow]]
    /\ fenced = {} /\ orders = [a \in Attempts |-> NoRow]
    /\ intents = [a \in Attempts |-> NoRow]
    /\ effects = [a \in Attempts |-> NoEffect]
    /\ cases = [a \in Attempts |-> NoRow]
    /\ escalations = [a \in Attempts |-> [status |-> NoRow, id |-> NoRow]]
    /\ ended = {}
    /\ sessions = <<1>> /\ active = TRUE
    /\ wire = {} /\ submissions = [a \in Attempts |-> NoRow]
    /\ calls = [c \in Callers |-> NoCall]

remoteVars == <<sessions, active, wire, submissions>>
recoveryVars == <<cases, escalations, ended, calls>>

\* persist_signed_work_order: one transaction under the attempt's row lock.
persist_signed_work_order(a, o) ==
    LET e == SignedWorkOrder(a, o) IN
    /\ attempts[a].state \in {"AUTHORIZED", "DISPATCHING"} /\ a \notin fenced
    /\ DigestFree(a, e) /\ SameOrder(orders[a], e)
    /\ orders' = [orders EXCEPT ![a] = e]
    /\ attempts' = [attempts EXCEPT ![a].digest = e.digest]
    /\ UNCHANGED <<fenced, intents, effects, remoteVars, recoveryVars>>

\* The source changed: intake pauses the work item.
Fence(a) ==
    /\ a \notin fenced /\ fenced' = fenced \cup {a}
    /\ UNCHANGED <<attempts, orders, intents, effects, remoteVars, recoveryVars>>

StoredEffect(a) == [status |-> "PENDING", request |-> orders[a]]

\* build_submission_effect_from_stored_work_order or
\* build_submission_effect_intent, handed to the step ledger, which validates
\* it and inserts it under the attempt's deterministic key.
CommitEffect(a) ==
    /\ orders[a] # NoRow /\ effects[a] = NoEffect /\ intents[a] = NoRow
    /\ intents' = [intents EXCEPT ![a] = IF validate_effect(a, orders[a]) THEN "ACCEPTED" ELSE "REFUSED"]
    /\ effects' = [effects EXCEPT ![a] =
                     IF validate_effect(a, orders[a])
                     THEN StoredEffect(a) ELSE @]
    /\ attempts' = [attempts EXCEPT ![a].state = "DISPATCHING"]
    /\ UNCHANGED <<fenced, orders, remoteVars, recoveryVars>>

\* The effect's one execution puts the stored request on the wire.
Send(a) ==
    /\ effects[a].status = "PENDING"
    /\ effects' = [effects EXCEPT ![a].status = "IN_FLIGHT"]
    /\ wire' = wire \cup {effects[a].request}
    /\ UNCHANGED <<attempts, fenced, orders, intents, sessions, active, submissions, recoveryVars>>

\* The lease ran out before an answer was recorded: the next claim releases
\* the effect.
Expire(a) ==
    /\ effects[a].status = "IN_FLIGHT"
    /\ effects' = [effects EXCEPT ![a].status = "AMBIGUOUS"]
    /\ UNCHANGED <<attempts, fenced, orders, intents, remoteVars, recoveryVars>>

\* A submission arrives, perhaps after a lookup found nothing, and perhaps
\* again; or it never does.
Arrive(e) ==
    /\ e \in wire
    /\ submissions' = [submissions EXCEPT ![e.attempt] = submit_work_order(e)]
    /\ wire' \in {wire, wire \ {e}}
    /\ UNCHANGED <<asfVars, sessions, active, calls>>
Drop(e) ==
    /\ e \in wire /\ wire' = wire \ {e}
    /\ UNCHANGED <<asfVars, sessions, active, submissions, calls>>

\* append_event and the rest: the remote run moves on.
RunAdvances(a) ==
    /\ submissions[a] # NoRow /\ submissions[a].version < MaxRunVersion
    /\ submissions' = [submissions EXCEPT ![a].version = @ + 1]
    /\ UNCHANGED <<asfVars, sessions, active, wire, calls>>

\* The session closes or expires, and another opens, of the same generation
\* or of the next one (a quarantine).
SessionEnds ==
    /\ active /\ active' = FALSE
    /\ UNCHANGED <<asfVars, sessions, wire, submissions, calls>>
SessionOpens ==
    /\ Len(sessions) < MaxSessions
    /\ \E g \in {CurrentGeneration, CurrentGeneration + 1} : sessions' = Append(sessions, g)
    /\ active' = TRUE
    /\ UNCHANGED <<asfVars, wire, submissions, calls>>

\* A step of the delivery workflow commits a terminal workflow state.
DeliveryEnds(a) ==
    /\ a \notin ended /\ ended' = ended \cup {a}
    /\ UNCHANGED <<attempts, fenced, orders, intents, effects, cases, escalations, remoteVars, calls>>

\* asf_validate_escalation_resolved_transition: an escalation of this category
\* may be acknowledged or withdrawn.  Resolving it raises: the trigger reads
\* three columns that the table does not have.
EscalationMoves == [OPEN |-> {"ACKNOWLEDGED", "CANCELLED"}, ACKNOWLEDGED |-> {"CANCELLED"}]

\* An operator acknowledges the escalation or withdraws it.
MoveEscalation(a) ==
    /\ escalations[a].status \in DOMAIN EscalationMoves
    /\ \E s \in EscalationMoves[escalations[a].status] :
          escalations' = [escalations EXCEPT ![a].status = s]
    /\ UNCHANGED <<attempts, fenced, orders, intents, effects, cases, ended, remoteVars, calls>>

recoveryRest == <<attempts, fenced, orders, intents, effects, ended, remoteVars>>

\* create_or_get_...: the load.  A found case is compared with the input.
LoadCase(c, a, s, x) ==
    /\ calls[c].pc = "idle" /\ effects[a].request # NoRow /\ s \in DOMAIN sessions
    /\ cases[a] # NoRow => case_fields_match(cases[a], NewCase(a, s))
    /\ calls' = [calls EXCEPT ![c] = [NoCall EXCEPT !.pc = "loaded", !.attempt = a,
                                                    !.session = s, !.escalation = x]]
    /\ UNCHANGED <<recoveryRest, cases, escalations>>

\* The escalation is inserted, or found under the effect's key, whatever its
\* status.
Escalated(a, x) ==
    IF escalations[a].id = NoRow THEN [status |-> "OPEN", id |-> x] ELSE escalations[a]

\* create_or_get_...: insert or lose the race, then the escalation; a found
\* escalation of another id refuses and rolls everything back.
create_or_get_case(c) ==
    LET a == calls[c].attempt
        k == IF cases[a] = NoRow THEN NewCase(a, calls[c].session) ELSE cases[a] IN
    /\ calls[c].pc = "loaded" /\ (cases[a] = NoRow => CaseIsExact(a))
    /\ escalations[a].id \in {NoRow, calls[c].escalation}
    /\ cases' = [cases EXCEPT ![a] = k]
    /\ escalations' = [escalations EXCEPT ![a] = Escalated(a, calls[c].escalation)]
    /\ calls' = [calls EXCEPT ![c].pc = "cased"]
    /\ UNCHANGED recoveryRest

\* Looking up and proving.  NotFound, a transport failure or a mismatch
\* leaves the caller where it was: it may only look again or give up.
Lookup(c) ==
    LET a == calls[c].attempt
        proof == validate_receipt(cases[a],
                     lookup_qualified_submission(QualifiedSubmissionIdentity(cases[a].envelope))) IN
    /\ calls[c].pc \in {"cased", "proved"} /\ proof # NoRow
    /\ calls' = [calls EXCEPT ![c].pc = "proved", ![c].proof = proof, ![c].answer = NoRow]
    /\ UNCHANGED <<recoveryRest, cases, escalations>>

\* adopt_exact_runmill_submission_recovery: the transaction rolls back, and
\* the caller keeps its proof.
Adopt(c) ==
    /\ calls[c].pc = "proved"
    /\ calls' = [calls EXCEPT ![c].answer = adopt_in_transaction(calls[c].attempt, calls[c].proof)]
    /\ UNCHANGED <<recoveryRest, cases, escalations>>

\* Any error, or a crash: the caller forgets.
GiveUp(c) ==
    /\ calls[c].pc # "idle"
    /\ calls' = [calls EXCEPT ![c] = NoCall]
    /\ UNCHANGED <<recoveryRest, cases, escalations>>

SubNext ==
    \/ \E a \in Attempts : \/ \E o \in Orders : persist_signed_work_order(a, o)
                           \/ Fence(a) \/ CommitEffect(a) \/ Send(a) \/ Expire(a)
                           \/ RunAdvances(a) \/ MoveEscalation(a) \/ DeliveryEnds(a)
    \/ \E e \in SignedOrders : Arrive(e) \/ Drop(e)
    \/ SessionEnds \/ SessionOpens
    \/ \E c \in Callers : \/ \E a \in Attempts, s \in 1..MaxSessions, x \in EscalationIds : LoadCase(c, a, s, x)
                          \/ create_or_get_case(c) \/ Lookup(c) \/ Adopt(c) \/ GiveUp(c)

SubSpec == SubInit /\ [][SubNext]_subVars

-----------------------------------------------------------------------------
(***************************************************************************)
(* The rows have their types, and an effect that was stored holds the      *)
(* request it will send (ledger/steps.rs, runmill_submission_recovery.rs). *)
(***************************************************************************)
SubTypeOK ==
    /\ attempts \in [Attempts -> AttemptRows] /\ fenced \subseteq Attempts
    /\ orders \in [Attempts -> SignedOrders \cup {NoRow}]
    /\ intents \in [Attempts -> {NoRow, "ACCEPTED", "REFUSED"}]
    /\ effects \in [Attempts -> EffectRows]
    /\ \A a \in Attempts : effects[a].status = NoRow <=> effects[a].request = NoRow
    /\ cases \in [Attempts -> CaseRows \cup {NoRow}]
    /\ escalations \in [Attempts -> EscalationRows]
    /\ ended \subseteq Attempts
    /\ sessions \in Seq(Nat) /\ Len(sessions) \in 1..MaxSessions /\ active \in BOOLEAN
    /\ wire \subseteq SignedOrders
    /\ submissions \in [Attempts -> RemoteRuns \cup {NoRow}]
    /\ calls \in [Callers -> CallRows]

(***************************************************************************)
(* What Runmill admitted for an attempt is the very envelope ASF stored    *)
(* for it, and the attempt's own digest names it, whichever caller signed  *)
(* it, however often it was persisted and however late it arrived.         *)
(***************************************************************************)
AdmittedAsStored ==
    \A a \in Attempts : submissions[a] # NoRow =>
        /\ orders[a] # NoRow
        /\ submissions[a].identity = QualifiedSubmissionIdentity(orders[a])
        /\ attempts[a].digest = orders[a].digest

(***************************************************************************)
(* Doubt is kept: once an ambiguous submission was taken up its effect     *)
(* stays AMBIGUOUS and its escalation exists, and that escalation can only *)
(* be withdrawn by an operator.  No retry, no late arrival and no failed   *)
(* adoption lets ASF forget that Runmill may hold a run.                   *)
(***************************************************************************)
DoubtIsOwned ==
    \A a \in Attempts : cases[a] # NoRow =>
        /\ effects[a].status = "AMBIGUOUS"
        /\ escalations[a].id # NoRow /\ escalations[a].status \in EscalationStatuses

(***************************************************************************)
(* A proof stays true while its holder waits: it names the run Runmill     *)
(* has for the stored envelope, the generation that admitted it and a      *)
(* version the run has reached, whatever the run, the sessions and the     *)
(* other callers did since the lookup.                                     *)
(***************************************************************************)
ProofsStayTrue ==
    \A c \in Callers : calls[c].pc = "proved" =>
        LET a == calls[c].attempt IN
        /\ submissions[a] # NoRow
        /\ calls[c].proof.run = QualifiedSubmissionIdentity(orders[a])
        /\ calls[c].proof.run = submissions[a].identity
        /\ calls[c].proof.generation = submissions[a].generation
        /\ calls[c].proof.version <= submissions[a].version

(***************************************************************************)
(* A run that Runmill did admit can always be proved: the lookup with the  *)
(* case's identity finds it, and a case that names the admitting           *)
(* generation yields a proof.  Nothing ASF stores after the submission     *)
(* takes that away.                                                        *)
(***************************************************************************)
AdmittedIsProvable ==
    \A a \in Attempts : cases[a] # NoRow /\ submissions[a] # NoRow =>
        LET found == lookup_qualified_submission(QualifiedSubmissionIdentity(cases[a].envelope)) IN
        /\ found # NoRow
        /\ cases[a].generation = submissions[a].generation => validate_receipt(cases[a], found) # NoRow

(***************************************************************************)
(* The two ways to recognise a lost submission agree: a control snapshot   *)
(* of a run admitted from some envelope is an exact candidate for a case   *)
(* when, and only when, the qualified lookup of that run at the case's     *)
(* generation is a proof.  An envelope signed by another key is neither.   *)
(***************************************************************************)
CandidatesAgree ==
    \A a \in Attempts : cases[a] # NoRow => \A e \in SignedOrders :
        ExactCandidate(cases[a], Snapshot(e, 1))
            <=> /\ QualifiedSubmissionIdentity(cases[a].envelope) = QualifiedSubmissionIdentity(e)
                /\ validate_receipt(cases[a], [NewRun(e) EXCEPT !.generation = cases[a].generation]) # NoRow

(***************************************************************************)
(* A Work Order is submitted as it was stored, and what is in doubt stays  *)
(* owned and provable: the parts above together.                           *)
(***************************************************************************)
SubmissionIsSound ==
    /\ SubTypeOK
    /\ AdmittedAsStored
    /\ DoubtIsOwned
    /\ AdmittedIsProvable
    /\ CandidatesAgree
    /\ ProofsStayTrue

-----------------------------------------------------------------------------
\* What the documentation of adopt_exact_runmill_submission_recovery asks for:
\* every lock and the deferred guard are satisfied.
MayAdopt(c) ==
    LET a == calls[c].attempt IN
    /\ validate_case_matches_proof(cases[a], calls[c].proof)
    /\ EffectIsLockable(a) /\ RestIsLockable(a, calls[c].escalation)
    /\ SessionIsCurrent(cases[a])

(***************************************************************************)
(* "A conflict if adoption already exists, or a persistence error when     *)
(* PostgreSQL fails": a call that meets every documented condition, with   *)
(* the database up, is not answered by a persistence error.  It is: the    *)
(* code's effect lock fails on the row it found.  (MayAdopt never becomes  *)
(* true again once false, so it held when the answer was given.)           *)
(***************************************************************************)
ExactAdoptionsSucceed ==
    \A c \in Callers : calls[c].answer = "PERSISTENCE" => ~MayAdopt(c)
=============================================================================
