---------------------------- MODULE EventContract ----------------------------
(***************************************************************************)
(* The contract of Runmill's run events (adapters/runmill_control.rs).     *)
(*                                                                         *)
(* Runmill publishes the history of a run as typed events.  The control    *)
(* client knows every type twice: `event_contract` says which phase the    *)
(* run is in after it and which payload fields it must and may carry,      *)
(* `validate_event_payload_shape` says which value each field has.  A page *)
(* with one event that fails either is refused as a whole and is asked for *)
(* again, so an event the client cannot understand stops the observation   *)
(* of its run for ever, and a field that neither function looks at is      *)
(* retained as provenance unread.                                          *)
(*                                                                         *)
(* A payload is a function from field names to values.  A value is its     *)
(* class (a digest, a commit, a text, ...) with the words in it that the   *)
(* contract tells apart; a nested object is one value of its own class.    *)
(* The publisher is external: it may send a sound event, or one with a     *)
(* single defect of the kind that another version of Runmill would have.   *)
(***************************************************************************)
EXTENDS FiniteSets, Functions, TLC

CONSTANT
    Published           \* the event types the publisher sends, plus any it
                        \* has added that the client does not know

VARIABLES
    phase,              \* the phase of the run as the client last read it
    offered,            \* the event Runmill answers the client's read with
    verdict             \* what the client made of it: NONE, OK or MALFORMED

contractVars == <<phase, offered, verdict>>

-----------------------------------------------------------------------------
(* Values. *)

Value(c, words) == [class |-> c, of |-> words]
Digest == {Value("digest", {})}
Sha == {Value("sha", {})}
Text == {Value("text", {})}
Positive == {Value("positive", {})}
Natural == {Value("positive", {}), Value("zero", {})}
Timestamp == {Value("timestamp", {})}
Repository == {Value("repository", {})}
Url == {Value("url", {})}
Branch == {Value("branch", {})}
Texts == {Value("texts", {})}
Flag == {Value("flag", {"true"}), Value("flag", {"false"})}
True == {Value("flag", {"true"})}
OneOf(words) == {Value("word", {w}) : w \in words}
Junk == Value("junk", {})

Phases == {"RECEIVED", "ADMITTED", "REPOSITORY_LEASED", "IDENTITY_READY",
           "WORKSPACE_READY", "TASK_PACKET_READY", "IMPLEMENTING", "CANDIDATE_READY", "LOCAL_VERIFY",
           "LOCAL_REVIEW", "FIXING", "DELIVERY_READY", "PUSHED", "PR_OPEN", "CI_WAIT",
           "PR_REVIEW", "PR_DELIVERED", "MERGE_QUEUE_WAIT", "MERGE_READY", "MERGED",
           "EVIDENCE_FINALIZED", "COMPLETED", "CANCEL_REQUESTED", "CANCELLING",
           "WAITING_APPROVAL", "NEEDS_SPEC", "BLOCKED_EXTERNAL", "BUDGET_EXHAUSTED",
           "REFUSED", "QUARANTINED", "CANCELLED", "FAILED"}

Terminal == {"COMPLETED", "CANCELLED", "FAILED", "REFUSED", "QUARANTINED",
             "BUDGET_EXHAUSTED"}

PhaseValue == {Value("phase", {p}) : p \in Phases}

-----------------------------------------------------------------------------
(* event_contract: the phase, the required and the optional fields.        *)

Entry(p, required, optional) ==
    [phase |-> p, required |-> required, optional |-> optional]

WorkEntry ==
    "work_order.admitted" :> Entry("ADMITTED",
        {"work_order_id", "attempt_id", "tenant_id", "payload_digest",
         "envelope_digest", "signature"}, {})
    @@ "repository.lease_acquired" :>
        Entry("REPOSITORY_LEASED", {"repository", "generation"}, {})
    @@ "identity.leases_acquired" :>
        Entry("IDENTITY_READY", {"attributions_digest", "roles", "attributions"}, {})
    @@ "workspace.prepared" :> Entry("WORKSPACE_READY",
        {"workspace_id", "sandbox_profile", "isolation_evidence_digest"}, {})
    @@ "task_packet.created" :>
        Entry("TASK_PACKET_READY", {"task_packet_digest", "source_snapshot_digest"}, {})
    @@ "implementation.started" :>
        Entry("IMPLEMENTING", {"session", "checkpoint_digest"}, {})
    @@ "candidate.created" :>
        Entry("CANDIDATE_READY", {"candidate_sha", "parent_sha", "tree_digest"}, {})
    @@ "verification.started" :>
        Entry("LOCAL_VERIFY", {"candidate_sha", "required_check_ids"}, {})
    @@ "verification.completed" :> Entry("LOCAL_VERIFY",
        {"candidate_sha", "check_id", "outcome", "evidence_digest"}, {})
    @@ "review.started" :>
        Entry("LOCAL_REVIEW", {"candidate_sha", "reviewer_attribution"}, {})
    @@ "review.completed" :> Entry("LOCAL_REVIEW",
        {"candidate_sha", "reviewer_attribution", "outcome", "findings_digest"}, {})
    @@ "fixing.started" :> Entry("FIXING", {"candidate_sha", "iteration"}, {})
    @@ "delivery.ready" :>
        Entry("DELIVERY_READY", {"candidate_sha", "required_remote_checks"}, {})
    @@ "branch.pushed" :>
        Entry("PUSHED", {"candidate_sha", "remote_ref", "observed_remote_sha"}, {})

Observation == {"observation_intent_digest", "observation_digest",
                "observation_fencing_generation"}
CiOutcome == {"candidate_sha", "outcome", "checks_digest", "checks", "observed_at"}

DeliveryEntry ==
    "pull_request.opened" :> Entry("PR_OPEN",
        {"candidate_sha", "repository", "number", "url", "observed_head_sha", "base_sha"}, {})
    @@ "ci.waiting" :> Entry("CI_WAIT", {"candidate_sha", "snapshot_digest"}, {})
    @@ "ci.completed" :> Entry("CI_WAIT", CiOutcome, {})
    @@ "ci.recheck_completed" :> Entry("CI_WAIT", CiOutcome \cup Observation, {})
    @@ "pr_review.started" :>
        Entry("PR_REVIEW", {"candidate_sha", "reviewer_attribution"}, {})
    @@ "pr_review.completed" :> Entry("PR_REVIEW",
        {"candidate_sha", "reviewer_attribution", "outcome", "findings_digest"}, {})
    @@ "ci.revalidated" :> Entry("PR_REVIEW", CiOutcome \cup Observation, {})
    @@ "pull_request.delivered" :> Entry("PR_DELIVERED",
        {"candidate_sha", "repository", "number", "url", "head_ref", "base_ref", "marker",
         "head_sha", "observed_head_sha", "current_base_sha", "collision_set_digest",
         "base_observation_digest", "protection_digest", "protection", "state", "draft",
         "delivery_observation_intent_digest", "delivery_observation_digest",
         "observed_at", "final_ci_observation_intent_digest",
         "final_ci_observation_digest", "final_ci_observation_fencing_generation",
         "final_ci_checks_digest", "final_ci_checks", "final_ci_observed_at"}, {})
    @@ "merge_queue.entered" :>
        Entry("MERGE_QUEUE_WAIT", {"candidate_sha", "merge_group_sha"}, {})
    @@ "merge.ready" :>
        Entry("MERGE_READY", {"candidate_sha", "merge_group_sha", "evidence_digest"}, {})
    @@ "merge.completed" :>
        Entry("MERGED", {"candidate_sha", "merge_sha", "evidence_digest"}, {})
    @@ "evidence.finalized" :>
        Entry("EVIDENCE_FINALIZED", {"candidate_sha", "bundle_digest"}, {})
    @@ "run.completed" :> Entry("COMPLETED",
        {"candidate_sha", "closure_target", "satisfied", "evidence_bundle_digest"},
        {"terminal_evidence_bundle_digest"})

STOP == {"code", "summary", "checkpoint", "retry_disposition", "required_actor",
         "required_action", "evidence_refs"}
CANCELLATION == STOP \cup {"request_id", "requester", "reason", "mode", "grace_seconds"}

StopEntry ==
    [t \in {"cancellation.requested", "cancellation.escalated"} |->
        Entry("CANCEL_REQUESTED", CANCELLATION, {"candidate_sha", "reconciliation_origin"})]
    @@ "cancellation.started" :>
        Entry("CANCELLING", CANCELLATION, {"candidate_sha", "reconciliation_origin"})
    @@ "run.waiting_approval" :>
        Entry("WAITING_APPROVAL", STOP, {"candidate_sha", "decision_type", "requested_effect"})
    @@ "run.needs_spec" :> Entry("NEEDS_SPEC", STOP, {"candidate_sha"})
    @@ "run.blocked_external" :>
        Entry("BLOCKED_EXTERNAL", STOP, {"candidate_sha", "continuation"})
    @@ "run.cancelled" :> Entry("CANCELLED", CANCELLATION,
        {"candidate_sha", "reconciliation_origin", "terminal_evidence_bundle_digest"})
    @@ [t \in {"budget.exhausted", "run.refused", "run.quarantined", "run.failed"} |->
        Entry(CASE t = "budget.exhausted" -> "BUDGET_EXHAUSTED"
                [] t = "run.refused" -> "REFUSED"
                [] t = "run.quarantined" -> "QUARANTINED"
                [] t = "run.failed" -> "FAILED",
              STOP, {"candidate_sha", "terminal_evidence_bundle_digest"})]

\* A resumed run is in the phase its own payload names.
ResumedEntry(payload) ==
    LET Word(f) == IF f \in DOMAIN payload THEN payload[f].of ELSE {}
    IN  [phase |-> IF Word("resume_phase") = {} THEN "NONE"
                   ELSE CHOOSE p \in Word("resume_phase") : TRUE,
         required |-> {"interrupted_phase", "resume_phase", "evidence_digest"} \cup
             CASE Word("interrupted_phase") = {"WAITING_APPROVAL"} -> {"approval_id"}
               [] Word("interrupted_phase") = {"BLOCKED_EXTERNAL"} -> {"reconciliation"}
               [] OTHER -> {"none"},
         optional |-> {"candidate_sha"}]

FixedEntry == WorkEntry @@ DeliveryEntry @@ StopEntry

KnownTypes == DOMAIN FixedEntry \cup {"run.resumed"}

event_contract(type, payload) ==
    IF type = "run.resumed" THEN ResumedEntry(payload) ELSE FixedEntry[type]

\* Exactly the contract's fields: all the required ones and no stranger.
exact_required_optional(payload, entry) ==
    /\ entry.required \subseteq DOMAIN payload
    /\ DOMAIN payload \subseteq entry.required \cup entry.optional

-----------------------------------------------------------------------------
(* validate_event_payload_shape: the value of every field.                 *)

All(fields, values) == [f \in fields |-> values]

\* Every check of a list passed, or any outcome.
Checks(passed_only) ==
    {Value("checks", o) : o \in SUBSET (IF passed_only THEN {"passed"}
                                        ELSE {"passed", "failed", "pending",
                                              "not-scheduled"})}

\* The three leases of a run: the roles are all named, and each of the three
\* attributions has one of them, perhaps the same.
LeaseRoles == {"implementer", "local-reviewer", "pr-reviewer"}
Roles == {Value("roles", LeaseRoles)}
Attributions == {Value("attributions", held) : held \in SUBSET LeaseRoles \ {{}}}
Signature == {Value("signature", {"verified", "EdDSA"})}

\* Fault: nobody looks at what a stopped run asks for.
StopShapeUnread ==
    All({"code", "summary"}, Text) @@ "checkpoint" :> PhaseValue
    @@ "retry_disposition" :> OneOf({"safe", "reconcile-first", "new-attempt-required",
                                     "prohibited"})
    @@ "required_actor" :> OneOf({"asf", "repository-owner", "platform-operator",
                                  "security", "provider-administrator"})
    @@ "evidence_refs" :> Texts

validate_stop_payload ==
    All({"code", "summary", "required_action"}, Text) @@ "checkpoint" :> PhaseValue
    @@ "retry_disposition" :> OneOf({"safe", "reconcile-first", "new-attempt-required",
                                     "prohibited"})
    @@ "required_actor" :> OneOf({"asf", "repository-owner", "platform-operator",
                                  "security", "provider-administrator"})
    @@ "evidence_refs" :> Texts

validate_cancellation_payload ==
    validate_stop_payload @@ All({"request_id", "requester", "reason"}, Text)
    @@ "mode" :> OneOf({"graceful", "forced"}) @@ "grace_seconds" :> Natural

Reconciliations ==
    {Value("reconciliation", {a}) :
        a \in {"continue-confirmed", "replay-not-applied", "continue-cancellation"}}

Continuations ==
    {Value("continuation", {d, p}) :
        d \in {"retry-interrupted-phase", "finish-cancellation"}, p \in Phases}

validate_resumed_payload(payload) ==
    "resume_phase" :> PhaseValue @@ "evidence_digest" :> Digest
    @@ "interrupted_phase" :> OneOf({"WAITING_APPROVAL", "BLOCKED_EXTERNAL"})
    @@ CASE payload["interrupted_phase"].of = {"WAITING_APPROVAL"} -> "approval_id" :> Text
         [] OTHER -> "reconciliation" :> Reconciliations

validate_delivery_payload ==
    All({"candidate_sha", "head_sha", "observed_head_sha", "current_base_sha"}, Sha)
    @@ "repository" :> Repository @@ "url" :> Url @@ "marker" :> Text
    @@ All({"number", "final_ci_observation_fencing_generation"}, Positive)
    @@ All({"head_ref", "base_ref"}, Branch)
    @@ All({"collision_set_digest", "base_observation_digest", "protection_digest",
            "delivery_observation_intent_digest", "delivery_observation_digest",
            "final_ci_observation_intent_digest", "final_ci_observation_digest",
            "final_ci_checks_digest"}, Digest)
    @@ "protection" :> {Value("protection", {})} @@ "state" :> OneOf({"open"})
    @@ "draft" :> Flag @@ All({"observed_at", "final_ci_observed_at"}, Timestamp)
    @@ "final_ci_checks" :> Checks(TRUE)

CiShape(type) ==
    "candidate_sha" :> Sha @@ "checks_digest" :> Digest @@ "observed_at" :> Timestamp
    @@ "outcome" :> OneOf(CASE type = "ci.completed" ->
                                  {"passed", "failed", "pending", "not-scheduled"}
                            [] type = "ci.recheck_completed" ->
                                  {"failed", "pending", "not-scheduled"}
                            [] type = "ci.revalidated" -> {"passed"})
    @@ "checks" :> Checks(type = "ci.revalidated")
    @@ IF type = "ci.completed" THEN <<>>
       ELSE All({"observation_intent_digest", "observation_digest"}, Digest)
            @@ "observation_fencing_generation" :> Positive

WorkShape ==
    "work_order.admitted" :>
        (All({"work_order_id", "attempt_id", "tenant_id"}, Text)
         @@ All({"payload_digest", "envelope_digest"}, Digest) @@ "signature" :> Signature)
    @@ "repository.lease_acquired" :> ("repository" :> Repository @@ "generation" :> Positive)
    @@ "identity.leases_acquired" :>
        ("attributions_digest" :> Digest @@ "roles" :> Roles @@ "attributions" :> Attributions)
    @@ "workspace.prepared" :>
        (All({"workspace_id", "sandbox_profile"}, Text)
         @@ "isolation_evidence_digest" :> Digest)
    @@ "task_packet.created" :> All({"task_packet_digest", "source_snapshot_digest"}, Digest)
    @@ "implementation.started" :>
        ("session" :> OneOf({"new", "resumed"}) @@ "checkpoint_digest" :> Digest)
    @@ "candidate.created" :>
        (All({"candidate_sha", "parent_sha"}, Sha) @@ "tree_digest" :> Digest)
    @@ "verification.started" :> ("candidate_sha" :> Sha @@ "required_check_ids" :> Texts)
    @@ "verification.completed" :>
        ("candidate_sha" :> Sha @@ "check_id" :> Text @@ "evidence_digest" :> Digest
         @@ "outcome" :> OneOf({"passed", "failed", "blocked"}))
    @@ [t \in {"review.started", "pr_review.started"} |->
         "candidate_sha" :> Sha @@ "reviewer_attribution" :> Text]
    @@ [t \in {"review.completed", "pr_review.completed"} |->
         "candidate_sha" :> Sha @@ "reviewer_attribution" :> Text
         @@ "outcome" :> OneOf({"approved", "changes-requested", "blocked"})
         @@ "findings_digest" :> Digest]
    @@ "fixing.started" :> ("candidate_sha" :> Sha @@ "iteration" :> Positive)
    @@ "delivery.ready" :> ("candidate_sha" :> Sha @@ "required_remote_checks" :> Texts)
    @@ "branch.pushed" :>
        (All({"candidate_sha", "observed_remote_sha"}, Sha) @@ "remote_ref" :> Text)

DeliveryShape ==
    "pull_request.opened" :>
        (All({"candidate_sha", "observed_head_sha", "base_sha"}, Sha)
         @@ "repository" :> Repository @@ "number" :> Positive @@ "url" :> Url)
    @@ "ci.waiting" :> ("candidate_sha" :> Sha @@ "snapshot_digest" :> Digest)
    @@ [t \in {"ci.completed", "ci.recheck_completed", "ci.revalidated"} |-> CiShape(t)]
    @@ "pull_request.delivered" :> validate_delivery_payload
    @@ "merge_queue.entered" :> All({"candidate_sha", "merge_group_sha"}, Sha)
    @@ "merge.ready" :>
        (All({"candidate_sha", "merge_group_sha"}, Sha) @@ "evidence_digest" :> Digest)
    @@ "merge.completed" :>
        (All({"candidate_sha", "merge_sha"}, Sha) @@ "evidence_digest" :> Digest)
    @@ "evidence.finalized" :> ("candidate_sha" :> Sha @@ "bundle_digest" :> Digest)
    @@ "run.completed" :>
        ("candidate_sha" :> Sha @@ "closure_target" :> OneOf({"pr", "merge"})
         @@ "satisfied" :> True @@ "evidence_bundle_digest" :> Digest)

StopShape ==
    [t \in {"cancellation.requested", "cancellation.escalated", "cancellation.started",
            "run.cancelled"} |-> validate_cancellation_payload]
    @@ [t \in {"run.waiting_approval", "run.needs_spec", "run.blocked_external",
               "budget.exhausted", "run.refused", "run.quarantined", "run.failed"} |->
         validate_stop_payload]

FixedShape == WorkShape @@ DeliveryShape @@ StopShape

\* The fields that are looked at only when they are present.
WhenPresent ==
    "candidate_sha" :> Sha @@ "terminal_evidence_bundle_digest" :> Digest
    @@ "decision_type" :> Text @@ "requested_effect" :> Text
    @@ "continuation" :> Continuations
    @@ "reconciliation_origin" :> OneOf({"none", "preexisting", "durable-effects",
                                         "forced-cancellation-cleanup"})

Shape(type, payload) ==
    IF type = "run.resumed" THEN validate_resumed_payload(payload) ELSE FixedShape[type]

validate_event_payload_shape(type, payload) ==
    /\ \A f \in DOMAIN Shape(type, payload) :
          /\ f \in DOMAIN payload
          /\ payload[f] \in Shape(type, payload)[f]
    /\ \A f \in DOMAIN payload \cap DOMAIN WhenPresent : payload[f] \in WhenPresent[f]

validate_event_payload(event) ==
    /\ event.type \in KnownTypes
    /\ LET entry == event_contract(event.type, event.payload)
       IN  /\ event.phase = entry.phase
           /\ exact_required_optional(event.payload, entry)
    /\ validate_event_payload_shape(event.type, event.payload)

-----------------------------------------------------------------------------
(* The publisher, which is external, and the reader.                       *)

\* The words a resumed run's payload may hold: they decide its other fields.
ResumedPayloads ==
    {"interrupted_phase" :> Value("word", {w}) @@ "resume_phase" :> Value("phase", {p})
     @@ "evidence_digest" :> Value("digest", {})
     @@ (IF w = "WAITING_APPROVAL" THEN "approval_id" :> Value("text", {})
         ELSE "reconciliation" :> Value("reconciliation", {"replay-not-applied"})) :
        w \in {"WAITING_APPROVAL", "BLOCKED_EXTERNAL"}, p \in {"IMPLEMENTING", "CI_WAIT"}}

\* A value Runmill may give a field: one the client reads the field as, or
\* anything where the client does not look.
Sample(shape, f) == IF f \in DOMAIN shape THEN CHOOSE v \in shape[f] : TRUE
                    ELSE IF f \in DOMAIN WhenPresent
                         THEN CHOOSE v \in WhenPresent[f] : TRUE ELSE Junk

SoundPayloads(type) ==
    IF type = "run.resumed" THEN ResumedPayloads
    ELSE LET entry == FixedEntry[type]
         IN  {[f \in entry.required \cup o |-> Sample(FixedShape[type], f)] :
                 o \in {o \in SUBSET entry.optional :
                           \/ o = {}
                           \/ o = entry.optional
                           \/ Cardinality(o) = 1}}

Event(type, p, payload, defect) ==
    [type |-> type, phase |-> p, payload |-> payload, defect |-> defect]

NoEvent == Event("none", "NONE", <<>>, "none")

Sound(type) ==
    {Event(type, event_contract(type, pl).phase, pl, "none") : pl \in SoundPayloads(type)}

\* A check that did not pass, reported where the contract has only passed ones.
MixedChecks == Value("checks", {"passed", "failed"})

Defective(e) ==
    {[e EXCEPT !.payload = Restrict(@, DOMAIN @ \ {f}), !.defect = "missing"] :
        f \in event_contract(e.type, e.payload).required}
    \cup {[e EXCEPT !.payload[f] = Junk, !.defect = "junk"] : f \in DOMAIN e.payload}
    \cup {[e EXCEPT !.payload = @ @@ (f :> Junk), !.defect = "stranger"] :
             f \in {"added_later", "candidate_sha", "terminal_evidence_bundle_digest"} \
                   (event_contract(e.type, e.payload).required
                    \cup event_contract(e.type, e.payload).optional)}
    \cup {[e EXCEPT !.payload[f] = MixedChecks, !.defect = "unproved"] :
             f \in DOMAIN e.payload \cap
                   (IF e.type \in {"ci.revalidated", "pull_request.delivered"}
                    THEN {"checks", "final_ci_checks"} ELSE {})}
    \cup {[e EXCEPT !.phase = p, !.defect = "phase"] :
             p \in {"IMPLEMENTING", "COMPLETED", "FAILED"} \ {e.phase}}

ContractInit == phase = "RECEIVED" /\ offered = NoEvent /\ verdict = "NONE"

PublishSound(type) ==
    /\ offered = NoEvent
    /\ \E e \in Sound(type) : offered' = e
    /\ UNCHANGED <<phase, verdict>>

PublishDefective(type) ==
    /\ offered = NoEvent
    /\ \E e \in Sound(type) : \E d \in Defective(e) : offered' = d
    /\ UNCHANGED <<phase, verdict>>

PublishUnknown(type) ==
    /\ offered = NoEvent
    /\ offered' = Event(type, phase, <<>>, "unknown")
    /\ UNCHANGED <<phase, verdict>>

ReadEvent ==
    /\ offered /= NoEvent
    /\ verdict = "NONE"
    /\ IF validate_event_payload(offered)
         THEN verdict' = "OK" /\ phase' = offered.phase
         ELSE verdict' = "MALFORMED" /\ UNCHANGED phase
    /\ UNCHANGED offered

\* The next read: after an accepted event of the one behind it, after a
\* refused one of what a replaced Runmill answers instead.
ReadOn ==
    /\ verdict /= "NONE"
    /\ offered' = NoEvent /\ verdict' = "NONE"
    /\ UNCHANGED phase

ContractNext ==
    \/ \E t \in Published \cap KnownTypes : PublishSound(t) \/ PublishDefective(t)
    \/ \E t \in Published \ KnownTypes : PublishUnknown(t)
    \/ ReadEvent
    \/ ReadOn

ContractSpec == ContractInit /\ [][ContractNext]_contractVars

-----------------------------------------------------------------------------
(* Properties. *)

ContractTypeOK ==
    /\ phase \in Phases
    /\ verdict \in {"NONE", "OK", "MALFORMED"}
    /\ offered.phase \in Phases \cup {"NONE"}

\* No field of an accepted event went unread: whatever single thing is wrong
\* with an event (a field left out, added, with a value of another class, a
\* phase that is not the type's, a type nobody knows), it is refused.  The
\* two tables of the client, 300 lines apart, must agree for this.
AcceptedIsSound == verdict = "OK" => offered.defect = "none"

\* An event with the contract's fields and their values is never refused.
\* A refused page is asked for again with the same cursor, so one field that
\* the shape demands and the contract forbids would stop the run's
\* observation at that event for ever.
SoundIsAccepted == verdict = "MALFORMED" => offered.defect /= "none"

\* Only an event that ends its run names the terminal evidence.  The evidence
\* view is held to the same rule: terminal digest if and only if terminal.
EvidenceNamesTheEnd ==
    (/\ verdict = "OK"
     /\ "terminal_evidence_bundle_digest" \in DOMAIN offered.payload)
        => phase \in Terminal

\* Every phase that ends a run can be reached by an event that names the
\* terminal evidence of it, and a run that is waiting, blocked or being
\* cancelled is not mistaken for one that ended.
EndIsExpressible ==
    (verdict = "OK" /\ offered.type /= "run.resumed")
        => (phase \in Terminal <=>
               "terminal_evidence_bundle_digest" \in FixedEntry[offered.type].optional)

\* The client accepts exactly the events of the contract, and the contract can
\* say how a run ends: the invariants above together.
ContractIsExact ==
    /\ ContractTypeOK
    /\ AcceptedIsSound
    /\ SoundIsAccepted
    /\ EvidenceNamesTheEnd
    /\ EndIsExpressible
=============================================================================
