-------------------------- MODULE TerminalEvidence --------------------------
(***************************************************************************)
(* What follows a stream that reached TERMINAL_READY: the producer mints   *)
(* one RETAIN_RUNMILL_TERMINAL_EVIDENCE job for the terminal observation,  *)
(* whose handler reads Runmill's signed evidence once and retains, in one  *)
(* transaction, the terminal bundle, the evidence bundle when the read is  *)
(* final, the obligation to verify it, and its own completion.             *)
(*                                                                         *)
(* The module composes the retention with the observation that feeds it:   *)
(* the two share the stream, its results and the worker's control session. *)
(* The terminal event's sequence is one past the last event the page       *)
(* listed, which is how the code reads Runmill's numbering.                *)
(***************************************************************************)
EXTENDS ObservationStream

CONSTANT Verifiers  \* the reactors that hand evidence over (Enqueue)
ASSUME VerifiersAssumption == Verifiers \subseteq Reactors /\ "none" \notin Reactors

VARIABLES
    open,       \* the work is open and its workflow active
    paused,     \* work_item_dispatch_fences: a paused fence
    signer,     \* the run's admission session, whose key signs
    evidence,   \* Runmill's evidence of the run (external)
    retention,  \* the retention job
    bundle,     \* runmill_terminal_evidence_bundles of the run
    ingested,   \* evidence_bundles: who ingested, or "none"
    artifact,   \* artifacts: the row of the digest the manifest names
    verification, \* a VERIFY_EVIDENCE job exists
    owner,      \* the dead letter of the retention job
    hand        \* [Reactors -> what a retaining reactor holds]

termVars == <<open, paused, signer, evidence, retention, bundle, ingested, artifact,
              verification, owner, hand>>
allVars == <<obsVars, termVars>>

None == "none"
\* flaw: what is wrong with the signed envelope, if anything: an open cleanup
\* or another breach of the contract's shape, or a digest or signature that
\* does not verify.
Evidence == [seq : Nat, inWindow : BOOLEAN, final : BOOLEAN,
             flaw : {None, "shape", "signature"}]
NoEvidence == [seq |-> 0, inWindow |-> FALSE, final |-> FALSE, flaw |-> None]
Retention == [status : {"NONE", "PENDING", "RUNNING", "RETRY", "COMPLETED", "DEAD"},
              fence : Nat, attempts : 0..MaxAttempts, leased : BOOLEAN,
              session : 0..MaxSession, seq : Nat]
Hand == [phase : {"idle", "claimed", "read"}, fence : Nat, read : Evidence]
EmptyHand == [phase |-> "idle", fence |-> 0, read |-> NoEvidence]

TermInit ==
    /\ Init
    /\ open = TRUE /\ paused = FALSE /\ signer = "live"
    /\ evidence = NoEvidence
    /\ retention = [status |-> "NONE", fence |-> 0, attempts |-> 0, leased |-> FALSE,
                    session |-> 0, seq |-> 0]
    /\ bundle = NoEvidence /\ ingested = None /\ artifact = "absent"
    /\ verification = FALSE
    /\ owner = "none"
    /\ hand = [r \in Reactors |-> EmptyHand]

-----------------------------------------------------------------------------
(***************************************************************************)
(* The surroundings: the work, a source change, the signing session, and   *)
(* Runmill's evidence.                                                     *)
(***************************************************************************)
WorkCloses ==
    /\ open /\ open' = FALSE
    /\ UNCHANGED <<obsVars, paused, signer, evidence, retention, bundle, ingested, artifact,
                   verification, owner, hand>>

\* A source change of accepted work pauses its dispatch; nothing resumes it.
PauseDispatch ==
    /\ open /\ ~paused /\ paused' = TRUE
    /\ UNCHANGED <<obsVars, open, signer, evidence, retention, bundle, ingested, artifact,
                   verification, owner, hand>>

\* The admission session is closed or expires, or is revoked.
SignerEnds ==
    /\ signer = "live" /\ signer' \in {"ended", "revoked"}
    /\ UNCHANGED <<obsVars, open, paused, evidence, retention, bundle, ingested, artifact,
                   verification, owner, hand>>

\* Runmill signs the terminal bundle of a finished run, with an evidence
\* bundle (final) or without one (stopped).  The artifact its manifest names
\* is new, or another run stored its digest with other metadata.
IssueEvidence ==
    /\ run.terminal /\ evidence = NoEvidence
    /\ \E f \in BOOLEAN, w \in {None, "shape", "signature"} :
           /\ evidence' = [seq |-> run.latest + 1, inWindow |-> signer = "live", final |-> f,
                           flaw |-> w]
           /\ artifact' \in IF f THEN {"absent", "different"} ELSE {"absent"}
    /\ UNCHANGED <<obsVars, open, paused, signer, retention, bundle, ingested,
                   verification, owner, hand>>

-----------------------------------------------------------------------------
(***************************************************************************)
(* The producer.                                                           *)
(***************************************************************************)
TerminalResults == {x \in results : x.disposition = "TERMINAL_READY"}

\* Both snapshots of the observation must state the terminal phase.
OwesBundle ==
    /\ stream.state = "TERMINAL_READY"
    /\ \E x \in TerminalResults : x.bothTerminal
    /\ open /\ session.live /\ bundle = NoEvidence

\* One past the last event the page listed.
TerminalEventSequence == (CHOOSE x \in TerminalResults : TRUE).next + 1

\* The key is the observation: a job that exists, in whatever state, is the
\* only one there will be.
ProduceRetention ==
    /\ OwesBundle
    /\ retention.status = "NONE"
    /\ retention' = [retention EXCEPT !.status = "PENDING", !.session = session.id,
                                      !.seq = TerminalEventSequence]
    /\ UNCHANGED <<obsVars, open, paused, signer, evidence, bundle, ingested, artifact,
                   verification, owner, hand>>

-----------------------------------------------------------------------------
(***************************************************************************)
(* Claims of the retention job.                                            *)
(***************************************************************************)
RetentionRoute ==
    /\ stream.state = "TERMINAL_READY"
    /\ session.live /\ retention.session = session.id

RetentionDue ==
    \/ retention.status \in {"PENDING", "RETRY"}
    \/ retention.status = "RUNNING" /\ ~retention.leased

ClaimRetention(r) ==
    /\ hand[r].phase = "idle"
    /\ RetentionDue /\ RetentionRoute /\ retention.attempts < MaxAttempts
    /\ retention' = [retention EXCEPT !.status = "RUNNING", !.fence = @ + 1,
                                      !.attempts = @ + 1, !.leased = TRUE]
    /\ hand' = [hand EXCEPT ![r] = [EmptyHand EXCEPT !.phase = "claimed",
                                                     !.fence = retention.fence + 1]]
    /\ UNCHANGED <<obsVars, open, paused, signer, evidence, bundle, ingested, artifact,
                   verification, owner>>

\* Fault: only a claim that still has its lease is recovered.
RecoverLeased ==
    /\ retention.status = "RUNNING" /\ retention.leased
    /\ retention.attempts = MaxAttempts
    /\ retention' = [retention EXCEPT !.status = "DEAD", !.fence = @ + 1]
    /\ owner' = "open"
    /\ UNCHANGED <<obsVars, open, paused, signer, evidence, bundle, ingested, artifact,
                   verification, hand>>

\* A lapsed last attempt is taken over only to be dead-lettered.
RecoverExhausted ==
    /\ retention.status = "RUNNING" /\ ~retention.leased
    /\ retention.attempts = MaxAttempts
    /\ retention' = [retention EXCEPT !.status = "DEAD", !.fence = @ + 1]
    /\ owner' = "open"
    /\ UNCHANGED <<obsVars, open, paused, signer, evidence, bundle, ingested, artifact,
                   verification, hand>>

RetentionLapses ==
    /\ retention.status = "RUNNING" /\ retention.leased
    /\ retention' = [retention EXCEPT !.leased = FALSE]
    /\ UNCHANGED <<obsVars, open, paused, signer, evidence, bundle, ingested, artifact,
                   verification, owner, hand>>

HandCrashes(r) ==
    /\ hand[r].phase # "idle"
    /\ hand' = [hand EXCEPT ![r] = EmptyHand]
    /\ UNCHANGED <<obsVars, open, paused, signer, evidence, retention, bundle, ingested, artifact,
                   verification, owner>>

-----------------------------------------------------------------------------
(***************************************************************************)
(* One retention.                                                          *)
(***************************************************************************)
HoldsRetention(r) ==
    /\ retention.status = "RUNNING" /\ retention.leased
    /\ retention.fence = hand[r].fence

ExactRetentionAuthority(r) == HoldsRetention(r) /\ RetentionRoute /\ open

\* get-evidence answers with the evidence once it exists.
ReadTerminalEvidence(r) ==
    /\ hand[r].phase = "claimed"
    /\ ExactRetentionAuthority(r)
    /\ evidence # NoEvidence
    /\ hand' = [hand EXCEPT ![r].phase = "read", ![r].read = evidence]
    /\ UNCHANGED <<obsVars, open, paused, signer, evidence, retention, bundle, ingested, artifact,
                   verification, owner>>

\* The envelope satisfies its contract and states the fenced sequence.
ParsesAsBundle(e) == e.flaw # "shape"
BindsToFence(e) == e.seq = retention.seq

\* Fault: any signature of the session's key is good enough.
AnySigner(e) == e.flaw # "signature"

\* The admission session is not revoked, the bundle was issued while it could
\* sign, and digest and signature verify under its key.
SigningWindow(e) == e.inWindow
TrustedSigner(e) == signer # "revoked" /\ SigningWindow(e) /\ e.flaw # "signature"

\* The job's two snapshots are one observation that ends before the terminal
\* event.
SnapshotsPair == \E x \in TerminalResults : x.next = retention.seq - 1

\* A bundle that is already there must be this one.
BundleMatches(e) == bundle \in {NoEvidence, e}

\* What a read must satisfy to be retained.
Retainable(e) ==
    /\ ParsesAsBundle(e) /\ BindsToFence(e)
    /\ TrustedSigner(e) /\ SnapshotsPair
    /\ BundleMatches(e)

\* The manifest's artifact is stored, or a row of the same digest adopted if
\* its metadata agrees.
BindManifest(e) ==
    /\ e.final => artifact # "different"
    /\ artifact' = IF e.final THEN "bound" ELSE artifact

\* A final read also carries the evidence bundle; a reactor with a verifier
\* creates the obligation with it, which a paused dispatch fence refuses.
HandOver(r) ==
    LET enqueue == hand[r].read.final /\ r \in Verifiers
    IN /\ enqueue => ~paused
       /\ BindManifest(hand[r].read)
       /\ ingested' = IF hand[r].read.final THEN r ELSE ingested
       /\ verification' = (verification \/ enqueue)

Retain(r) ==
    /\ hand[r].phase = "read"
    /\ ExactRetentionAuthority(r)
    /\ Retainable(hand[r].read)
    /\ bundle' = hand[r].read
    /\ HandOver(r)
    /\ retention' = [retention EXCEPT !.status = "COMPLETED", !.leased = FALSE]
    /\ hand' = [hand EXCEPT ![r] = EmptyHand]
    /\ UNCHANGED <<obsVars, open, paused, signer, evidence, owner>>

\* Any error of the attempt, recorded by the reactor under its claim.
RetentionFails(r) ==
    /\ hand[r].phase # "idle" /\ HoldsRetention(r)
    /\ retention' = [retention EXCEPT !.leased = FALSE,
                         !.status = IF retention.attempts < MaxAttempts THEN "RETRY" ELSE "DEAD"]
    /\ owner' = IF retention.attempts < MaxAttempts THEN owner ELSE "open"
    /\ hand' = [hand EXCEPT ![r] = EmptyHand]
    /\ UNCHANGED <<obsVars, open, paused, signer, evidence, bundle, ingested, artifact,
                   verification>>

RetentionRefused(r) ==
    /\ hand[r].phase # "idle" /\ ~HoldsRetention(r)
    /\ hand' = [hand EXCEPT ![r] = EmptyHand]
    /\ UNCHANGED <<obsVars, open, paused, signer, evidence, retention, bundle, ingested, artifact,
                   verification, owner>>

-----------------------------------------------------------------------------
RetentionStep(r) ==
    ClaimRetention(r) \/ ReadTerminalEvidence(r) \/ Retain(r) \/ RetentionFails(r)
    \/ RetentionRefused(r) \/ HandCrashes(r)

Surroundings == WorkCloses \/ PauseDispatch \/ SignerEnds \/ IssueEvidence

TermNext ==
    \/ Next /\ UNCHANGED termVars
    \/ Surroundings \/ ProduceRetention \/ RecoverExhausted \/ RetentionLapses
    \/ \E r \in Reactors : RetentionStep(r)

TermSpec == TermInit /\ [][TermNext]_allVars

\* The producer runs on every poll, every reactor finishes what it holds, and
\* a lease that nobody renews lapses.  The worker opens a session again.
TermFairness ==
    /\ WF_allVars(ProduceRetention) /\ WF_allVars(RecoverExhausted)
    /\ WF_allVars(RetentionLapses) /\ WF_allVars(OpenSession /\ UNCHANGED termVars)
    /\ \A r \in Reactors :
           WF_allVars(ClaimRetention(r)) /\ WF_allVars(RetentionStep(r) /\ hand[r].phase # "idle")

TermFairSpec == TermSpec /\ TermFairness

-----------------------------------------------------------------------------
\* Every row keeps its domain.
TermTypeOK ==
    /\ ObsTypeOK
    /\ open \in BOOLEAN /\ paused \in BOOLEAN
    /\ signer \in {"live", "ended", "revoked"} /\ evidence \in Evidence
    /\ retention \in Retention /\ bundle \in Evidence
    /\ ingested \in Reactors \cup {None} /\ verification \in BOOLEAN
    /\ artifact \in {"absent", "different", "bound"}
    /\ owner \in {"none", "open"} /\ hand \in [Reactors -> Hand]

\* A retained bundle is durable proof: it is Runmill's own evidence of a
\* finished run, signed while the run's admission session could sign, one
\* past the last event of a completely retained history.
BundleIsProof ==
    bundle # NoEvidence =>
        /\ bundle = evidence /\ bundle.inWindow /\ bundle.flaw = None
        /\ run.terminal /\ stream.state = "TERMINAL_READY"
        /\ bundle.seq = run.latest + 1 /\ 1..run.latest \subseteq events

\* The bundle and the completion of its job are one commit, through crashes
\* and reclaimed claims: neither is ever seen without the other.
BundleWithItsJob == bundle # NoEvidence <=> retention.status = "COMPLETED"

\* Evidence is never retained with nobody owning what happens to it: where a
\* verifier is installed the ingested evidence has its verification, and no
\* verification exists for evidence that was not ingested with its bundle and
\* with the artifact its manifest names.
EvidenceIsOwned ==
    /\ ingested \in Verifiers => verification
    /\ verification => ingested \in Verifiers
    /\ ingested # None => bundle.final /\ artifact = "bound"

\* A retention that died without a bundle left an open escalation behind.
DeadRetentionIsOwned == retention.status = "DEAD" => owner = "open" /\ bundle = NoEvidence

\* The bundle is written once, by the holder of the present claim, and never
\* changes; a session revoked before the commit vouches for nothing.
BundleIsFinal ==
    [][bundle' # bundle =>
           /\ bundle = NoEvidence /\ signer # "revoked"
           /\ \E r \in Reactors : HoldsRetention(r) /\ hand'[r] = EmptyHand]_allVars

\* What the retention keeps true of its rows, beside the observation: the
\* bundle is proof, comes with its job's completion, its evidence has an
\* owner, and so has a retention that died.
RetentionIsSound ==
    /\ TermTypeOK /\ BundleIsProof /\ BundleWithItsJob
    /\ EvidenceIsOwned /\ DeadRetentionIsOwned

\* Every retention job ends, or has lost the control session it was minted
\* for.
RetentionEndsOrLosesRoute ==
    retention.status = "PENDING" ~>
        (retention.status \in {"COMPLETED", "DEAD"} \/ ~RetentionRoute)

=============================================================================
