------------------------------- MODULE Intake -------------------------------
(***************************************************************************)
(* Source intake: how a candidate snapshot of a source item becomes, or    *)
(* changes, a work item.  Two paths lead to the same transaction writer:   *)
(* the INTAKE_SYNC job, which collects every page of the Linear listing    *)
(* before it opens one transaction for all of them, and POST /v1/intake,   *)
(* one snapshot under an idempotency key.  A snapshot's digest covers its  *)
(* revision, so a content stands for its digest.                           *)
(*                                                                         *)
(* The writer's transaction holds the tenant's intake lock and the row of  *)
(* every work item it touches until it commits, so it is one step here.    *)
(***************************************************************************)
EXTENDS Naturals, FiniteSets, Sequences

CONSTANTS
    Listed,      \* the Linear issues with the opt-in label
    Submitted,   \* the external identities an API caller submits
    Contents,    \* contents of an item: records [rev, body]
    Syncs,       \* INTAKE_SYNC jobs
    SubmitKeys,        \* Idempotency-Keys of POST /v1/intake
    PageSize,    \* snapshots a page may hold
    MaxPages,    \* MAX_INTAKE_PAGES
    MaxSyncAttempts, \* max_attempts of the job
    MaxItemVersion   \* bound on the versions readiness and delivery reach

ASSUME IntakeAssumption ==
    /\ Contents \subseteq [rev : Nat, body : Nat]
    /\ Listed \cap Submitted = {}
    /\ PageSize \in Nat \ {0} /\ MaxPages \in Nat \ {0} /\ MaxSyncAttempts \in Nat \ {0}
    /\ MaxItemVersion \in Nat

VARIABLES
    provider,    \* [Listed -> content] what Linear lists now (external)
    sync,        \* [Syncs -> the job and what its handler has collected]
    snapshots,   \* source_snapshots: <<item, content>>
    items,        \* work_items
    outbox,      \* outbox: the source events
    audit,       \* audit_events: the facts intake appended, newest last
    fence,       \* work_item_dispatch_fences: the candidate, or NoContent
    escalations, \* open BLOCKED_EXTERNAL escalations: <<item, candidate>>, and
                 \* NoContent for one that a delivery step opened
    submissions,     \* idempotency_records of the API intake
    seen         \* what the caller about to accept has read

intakeVars == <<provider, sync, snapshots, items, outbox, audit, fence, escalations,
                submissions, seen>>

Items == Listed \cup Submitted
NoContent == [rev |-> 0, body |-> 0]
Candidates == Contents \cup {NoContent}

Requeueable == {"DISCOVERED", "READINESS_PENDING", "NEEDS_SPEC", "READY",
                "WAITING_DEPENDENCY"}
\* RUNNING stands for every state between acceptance and the end that is not
\* requeueable.  Only work in one of Delivered must have been accepted.
Delivered == {"ACCEPTED", "RUNNING", "CLOSED"}
ItemStates == Requeueable \cup Delivered \cup {"NONE", "REFUSED"}
\* policy: the content the work's policy, owner and budgets were decided for.
Work == [state : ItemStates, snap : Candidates, version : Nat, accepted : BOOLEAN,
         policy : Candidates]
NoWork == [state |-> "NONE", snap |-> NoContent, version |-> 0, accepted |-> FALSE,
           policy |-> NoContent]

Outcomes == {"DISCOVERED", "UNCHANGED", "READINESS_REQUEUED",
             "AUTHORITY_REEVALUATION_REQUIRED"}
Event == [kind : Outcomes, item : Items, content : Contents, version : Nat,
          retained : Candidates, policy : Candidates]

Collected == UNION {[D -> Contents] : D \in SUBSET Listed}
Nothing == [i \in {} |-> NoContent]
Sync == [status : {"NONE", "PENDING", "RUNNING", "COMPLETED", "DEAD"},
         attempts : 0..MaxSyncAttempts, pages : 0..MaxPages, whole : BOOLEAN,
         got : Collected]

NoView == [version |-> 0, snap |-> NoContent]
SubmitReceipt == [disposition : Outcomes, item : Items, content : Contents, version : Nat,
                  accepted : BOOLEAN]
SubmitRecord == [request : Items \X Contents, receipt : SubmitReceipt]
NoSubmission == [request |-> <<>>, receipt |-> <<>>]
Views == [version : Nat, snap : Candidates]
AuditFact == [action : Outcomes, before : Candidates, after : Contents]

\* SQL's NULL is no content of an item.
ASSUME NoContentAssumption == NoContent \notin Contents

IntakeInit ==
    /\ provider \in [Listed -> {c \in Contents : \A d \in Contents : c.rev <= d.rev}]
    /\ sync = [s \in Syncs |-> [status |-> "NONE", attempts |-> 0, pages |-> 0,
                                whole |-> FALSE, got |-> Nothing]]
    /\ snapshots = {}
    /\ items = [i \in Items |-> NoWork]
    /\ outbox = {} /\ audit = [i \in Items |-> <<>>]
    /\ fence = [i \in Items |-> NoContent] /\ escalations = {}
    /\ submissions = [k \in SubmitKeys |-> NoSubmission]
    /\ seen = [i \in Items |-> NoView]

-----------------------------------------------------------------------------
(***************************************************************************)
(* Persisting one snapshot.                                                *)
(***************************************************************************)
\* A captured revision keeps its content.
RevisionIsFree(i, c) == \A d \in Contents :
    <<i, d>> \in snapshots /\ d.rev = c.rev => d = c

\* Fault: accepted_at is not asked for; accepted work that waits for a
\* dependency is requeued like any other.
OutcomeByState(i, c) ==
    IF items[i].state = "NONE" THEN "DISCOVERED"
    ELSE IF items[i].snap = c THEN "UNCHANGED"
    ELSE IF items[i].state \in Requeueable THEN "READINESS_REQUEUED"
    ELSE "AUTHORITY_REEVALUATION_REQUIRED"

OutcomeOf(i, c) ==
    IF items[i].state = "NONE" THEN "DISCOVERED"
    ELSE IF items[i].snap = c THEN "UNCHANGED"
    ELSE IF ~items[i].accepted /\ items[i].state \in Requeueable THEN "READINESS_REQUEUED"
    ELSE "AUTHORITY_REEVALUATION_REQUIRED"

\* The version after the event's effect.
VersionAfter(i, c) ==
    IF OutcomeOf(i, c) \in {"DISCOVERED", "READINESS_REQUEUED"}
    THEN items[i].version + 1 ELSE items[i].version

SourceEvent(i, c) ==
    [kind |-> OutcomeOf(i, c), item |-> i, content |-> c, version |-> VersionAfter(i, c),
     retained |-> items[i].snap,
     policy |-> IF OutcomeOf(i, c) = "AUTHORITY_REEVALUATION_REQUIRED"
                THEN items[i].policy ELSE NoContent]

\* outbox.idempotency_key: what happened, the item and the digest.
SameKey(e, f) == e.kind = f.kind /\ e.item = f.item /\ e.content = f.content

\* A row under the same key must be the same event, payload and all.
OutboxAgrees(i, c) == \A e \in outbox :
    SameKey(e, SourceEvent(i, c)) => e = SourceEvent(i, c)
Recorded(i, c) == SourceEvent(i, c) \in outbox

\* Fault: the event is written, and the writer returns as for a recorded one.
OpensNothing(i, c) == FALSE

\* The change is new, and to accepted work: a fence and an escalation are due.
\* A change of refused work is recorded, and nothing more.
OpensFence(i, c) ==
    /\ OutcomeOf(i, c) = "AUTHORITY_REEVALUATION_REQUIRED"
    /\ ~Recorded(i, c) /\ items[i].accepted

FenceAgrees(i, c) ==
    OpensFence(i, c) /\ fence[i] # NoContent => fence[i] = c

Persists(i, c) ==
    /\ RevisionIsFree(i, c)
    /\ OutcomeOf(i, c) = "UNCHANGED" \/ OutboxAgrees(i, c)
    /\ FenceAgrees(i, c)

\* Discovery inserts the item; a requeue replaces its snapshot and clears
\* everything readiness had decided.
WorkAfter(i, c) ==
    CASE OutcomeOf(i, c) = "DISCOVERED" ->
           [state |-> "DISCOVERED", snap |-> c, version |-> 1, accepted |-> FALSE,
            policy |-> NoContent]
      [] OutcomeOf(i, c) = "READINESS_REQUEUED" ->
           [items[i] EXCEPT !.state = "READINESS_PENDING", !.snap = c, !.policy = NoContent,
                           !.version = @ + 1]
      [] OTHER -> items[i]

Emits(i, c) == OutcomeOf(i, c) # "UNCHANGED" /\ ~Recorded(i, c)

AuditAfter(i, c) ==
    IF Emits(i, c)
    THEN Append(audit[i], [action |-> OutcomeOf(i, c), before |-> items[i].snap, after |-> c])
    ELSE audit[i]

\* A snapshot is inserted, or the identical row is adopted.
Captured(batch) == snapshots \cup {<<i, batch[i]>> : i \in DOMAIN batch}

Escalated(i) == \E x \in Candidates : <<i, x>> \in escalations

\* The owner the acceptance required is told which candidate to weigh, unless
\* the item has an open escalation of the category: ON CONFLICT DO NOTHING.
EscalationsDue(batch) ==
    {<<i, batch[i]>> : i \in {j \in DOMAIN batch : OpensFence(j, batch[j]) /\ ~Escalated(j)}}

\* One transaction for every snapshot of the batch: all are written or none.
Persist(batch) ==
    LET D == DOMAIN batch IN
    /\ \A i \in D : Persists(i, batch[i])
    /\ snapshots' = Captured(batch)
    /\ items' = [i \in Items |-> IF i \in D THEN WorkAfter(i, batch[i]) ELSE items[i]]
    /\ outbox' = outbox \cup {SourceEvent(i, batch[i]) :
                               i \in {j \in D : Emits(j, batch[j])}}
    /\ audit' = [i \in Items |-> IF i \in D THEN AuditAfter(i, batch[i]) ELSE audit[i]]
    /\ fence' = [i \in Items |-> IF i \in D /\ OpensFence(i, batch[i])
                                  THEN batch[i] ELSE fence[i]]
    /\ escalations' = escalations \cup EscalationsDue(batch)

-----------------------------------------------------------------------------
(***************************************************************************)
(* The sync job.                                                           *)
(***************************************************************************)
\* A person, or ASF's own closure, edits an issue; its updatedAt moves.
EditIssue(i) ==
    /\ \E c \in Contents : c.rev > provider[i].rev /\ provider' = [provider EXCEPT ![i] = c]
    /\ UNCHANGED <<sync, snapshots, items, outbox, audit, fence, escalations, submissions,
                   seen>>

\* POST /v1/intake/sync queues the job.
QueueSync(s) ==
    /\ sync[s].status = "NONE"
    /\ sync' = [sync EXCEPT ![s].status = "PENDING"]
    /\ UNCHANGED <<provider, snapshots, items, outbox, audit, fence, escalations, submissions,
                   seen>>

\* A claim counts an attempt and starts from the first page.
ClaimSync(s) ==
    /\ sync[s].status = "PENDING" /\ sync[s].attempts < MaxSyncAttempts
    /\ sync' = [sync EXCEPT ![s] = [status |-> "RUNNING", attempts |-> @.attempts + 1,
                                    pages |-> 0, whole |-> FALSE, got |-> Nothing]]
    /\ UNCHANGED <<provider, snapshots, items, outbox, audit, fence, escalations, submissions,
                   seen>>

\* The last attempt leaves the job dead, an earlier one leaves it to retry.
FailedSync(j) ==
    [j EXCEPT !.status = IF j.attempts < MaxSyncAttempts THEN "PENDING" ELSE "DEAD",
              !.pages = 0, !.whole = FALSE, !.got = Nothing]

Merge(got, page) == [i \in DOMAIN got \cup page |->
                        IF i \in DOMAIN got THEN got[i] ELSE provider[i]]

PageAllowed(s) == sync[s].pages < MaxPages

\* What the connector may answer: no more than it was asked for, no issue
\* twice, and never an empty page with more to come.
ListedPage(page, more) == Cardinality(page) <= PageSize /\ (more => page # {})

\* Each page shows the issues as they are when it is read.  An issue on two
\* pages must read the same on both.
FetchPage(s) ==
    /\ sync[s].status = "RUNNING" /\ ~sync[s].whole /\ PageAllowed(s)
    /\ \E page \in SUBSET Listed, more \in BOOLEAN :
           /\ ListedPage(page, more)
           /\ \A i \in page \cap DOMAIN sync[s].got : sync[s].got[i] = provider[i]
           /\ sync' = [sync EXCEPT ![s].pages = @ + 1, ![s].whole = ~more,
                                   ![s].got = Merge(@, page)]
    /\ UNCHANGED <<provider, snapshots, items, outbox, audit, fence, escalations, submissions,
                   seen>>

\* Any refused page, a transport failure, a crash, the page bound reached
\* with more to come, or a snapshot the writer cannot persist.
FailSync(s) ==
    /\ sync[s].status = "RUNNING"
    /\ sync' = [sync EXCEPT ![s] = FailedSync(@)]
    /\ UNCHANGED <<provider, snapshots, items, outbox, audit, fence, escalations, submissions,
                   seen>>

PersistSync(s) ==
    /\ sync[s].status = "RUNNING" /\ sync[s].whole
    /\ Persist(sync[s].got)
    /\ sync' = [sync EXCEPT ![s].status = "COMPLETED", ![s].got = Nothing]
    /\ UNCHANGED <<provider, submissions, seen>>

-----------------------------------------------------------------------------
(***************************************************************************)
(* Direct intake, readiness, acceptance and delivery.                      *)
(***************************************************************************)
SubmissionReceipt(i, c) == [disposition |-> OutcomeOf(i, c), item |-> i, content |-> c,
                  version |-> VersionAfter(i, c), accepted |-> items[i].accepted]

Unclaimed(k) == submissions[k] = NoSubmission
Completed(k, i, c) ==
    [submissions EXCEPT ![k] = [request |-> <<i, c>>, receipt |-> SubmissionReceipt(i, c)]]

\* A key that is claimed already answers from its record, and changes
\* nothing; a refused submission leaves no record.
Submit(k, i, c) ==
    /\ Unclaimed(k)
    /\ Persist([j \in {i} |-> c])
    /\ submissions' = Completed(k, i, c)
    /\ UNCHANGED <<provider, sync, seen>>

\* The readiness evaluation of work that is not accepted writes its verdict
\* and, when ready, the fields acceptance needs, on the row as it is.
EvaluateReadiness(i) ==
    /\ items[i].state \in {"DISCOVERED", "READINESS_PENDING"} /\ ~items[i].accepted
    /\ items[i].version < MaxItemVersion
    /\ \E t \in {"READY", "NEEDS_SPEC", "WAITING_DEPENDENCY", "REFUSED"} :
           items' = [items EXCEPT ![i].state = t,
                                ![i].policy = IF t = "READY" THEN items[i].snap ELSE NoContent,
                                ![i].version = @ + 1]
    /\ UNCHANGED <<provider, sync, snapshots, outbox, audit, fence, escalations, submissions,
                   seen>>

View(i) == [version |-> items[i].version, snap |-> items[i].snap]

ReadWorkItem(i) ==
    /\ items[i].state = "READY"
    /\ seen' = [seen EXCEPT ![i] = View(i)]
    /\ UNCHANGED <<provider, sync, snapshots, items, outbox, audit, fence, escalations,
                   submissions>>

\* The schema refuses a second acceptance.
AcceptGuard(i) ==
    /\ items[i].state = "READY" /\ ~items[i].accepted
    /\ seen[i].version = items[i].version
    /\ items[i].policy # NoContent

\* POST accept carries the version the caller read.
AcceptWorkItem(i) ==
    /\ AcceptGuard(i)
    /\ items' = [items EXCEPT ![i].state = "ACCEPTED", ![i].accepted = TRUE,
                            ![i].version = @ + 1]
    /\ UNCHANGED <<provider, sync, snapshots, outbox, audit, fence, escalations, submissions,
                   seen>>

\* The states a step may move accepted work to, the ones RUNNING stands for
\* passed over.
Moves(t) ==
    CASE t = "ACCEPTED" -> {"RUNNING", "WAITING_DEPENDENCY"}
      [] t = "RUNNING" -> {"RUNNING", "WAITING_DEPENDENCY", "READINESS_PENDING", "REFUSED",
                           "CLOSED"}
      [] t = "WAITING_DEPENDENCY" -> {"RUNNING", "READINESS_PENDING"}
      [] t = "READINESS_PENDING" -> {"NEEDS_SPEC", "READY", "WAITING_DEPENDENCY", "REFUSED"}
      [] t = "NEEDS_SPEC" -> {"READINESS_PENDING", "REFUSED"}
      [] t = "READY" -> {"ACCEPTED", "READINESS_PENDING", "REFUSED"}
      [] OTHER -> {}

\* Delivery commits steps of accepted work; each moves its version, and one
\* that is blocked opens the item's escalation of the category.
AdvanceDelivery(i) ==
    /\ items[i].accepted /\ items[i].version < MaxItemVersion
    /\ \E t \in Moves(items[i].state) :
           items' = [items EXCEPT ![i].state = t, ![i].version = @ + 1]
    /\ \/ escalations' = escalations
       \/ ~Escalated(i) /\ escalations' = escalations \cup {<<i, NoContent>>}
    /\ UNCHANGED <<provider, sync, snapshots, outbox, audit, fence, submissions, seen>>

SyncStep ==
    \/ \E i \in Listed : EditIssue(i)
    \/ \E s \in Syncs : QueueSync(s) \/ ClaimSync(s) \/ FetchPage(s) \/ FailSync(s)
                         \/ PersistSync(s)
SubmitStep == \E k \in SubmitKeys, i \in Submitted, c \in Contents : Submit(k, i, c)
ItemStep ==
    \E i \in Items : EvaluateReadiness(i) \/ ReadWorkItem(i) \/ AcceptWorkItem(i)
                         \/ AdvanceDelivery(i)

IntakeNext == SyncStep \/ SubmitStep \/ ItemStep

IntakeSpec == IntakeInit /\ [][IntakeNext]_intakeVars

-----------------------------------------------------------------------------
(***************************************************************************)
(* Properties.                                                             *)
(***************************************************************************)
\* Every variable has its type.
IntakeTypeOK ==
    /\ provider \in [Listed -> Contents]
    /\ sync \in [Syncs -> Sync]
    /\ snapshots \subseteq Items \X Contents
    /\ items \in [Items -> Work]
    /\ outbox \subseteq Event
    /\ audit \in [Items -> Seq(AuditFact)]
    /\ fence \in [Items -> Candidates]
    /\ escalations \subseteq Items \X Candidates
    /\ submissions \in [SubmitKeys -> SubmitRecord \cup {NoSubmission}]
    /\ seen \in [Items -> Views]

\* Once work is accepted no intake, of either path, replaces the snapshot its
\* authority came from (apply_snapshot_to_work_item, docs/api.md:139).
AuthorityIsRetained ==
    [][\A i \in Items : items[i].accepted => /\ items'[i].accepted
                                             /\ items'[i].snap = items[i].snap
                                             /\ items'[i].policy = items[i].policy]_intakeVars

\* What readiness decided is about the snapshot the item has now: a change
\* that arrives between the decision and the acceptance takes it back.
ReadinessIsCurrent ==
    \A i \in Items : items[i].policy # NoContent => items[i].policy = items[i].snap

\* The content that becomes authoritative is the content the accepting caller
\* read, though a sync may have committed in between.
AcceptedAsRead ==
    [][\A i \in Items : ~items[i].accepted /\ items'[i].accepted
                            => items'[i].snap = seen[i].snap]_intakeVars

\* A recorded change is of the snapshot the item still has.  If the work is
\* accepted its dispatch is fenced against the candidate, and an escalation
\* is open: the one that names the candidate, unless delivery had opened one
\* first.  If it is not, it was refused, and stays so (intake.rs:1039-1082).
ChangeIsOwned ==
    /\ \A e \in outbox :
          e.kind = "AUTHORITY_REEVALUATION_REQUIRED"
              => /\ e.retained = items[e.item].snap
                 /\ items[e.item].accepted \/ items[e.item].state = "REFUSED"
                 /\ items[e.item].accepted
                       => /\ fence[e.item] = e.content
                          /\ \E x \in {e.content, NoContent} : <<e.item, x>> \in escalations
    /\ \A i \in Items, c \in Contents : <<i, c>> \in escalations => fence[i] = c

\* Every event has exactly one audit fact, in the order the item changed, and
\* each fact starts from what the previous change left.
AuditTellsTheHistory ==
    \A i \in Items :
        /\ Len(audit[i]) = Cardinality({e \in outbox : e.item = i})
        /\ \A n \in DOMAIN audit[i] :
               \E e \in outbox : /\ e.item = i /\ e.kind = audit[i][n].action
                                 /\ e.content = audit[i][n].after
                                 /\ e.retained = audit[i][n].before
        /\ \A n \in 2..Len(audit[i]) :
               audit[i][n - 1].action # "AUTHORITY_REEVALUATION_REQUIRED"
                   => audit[i][n].before = audit[i][n - 1].after

\* No external identity is discovered twice, and each snapshot an item ever
\* pointed at was captured.
OneItemPerIdentity ==
    /\ \A k, l \in SubmitKeys :
          k # l /\ submissions[k] # NoSubmission /\ submissions[l] # NoSubmission
            => ~(/\ submissions[k].receipt.disposition = "DISCOVERED"
                 /\ submissions[l].receipt.disposition = "DISCOVERED"
                 /\ submissions[k].receipt.item = submissions[l].receipt.item)
    /\ \A i \in Items : items[i].state # "NONE" => <<i, items[i].snap>> \in snapshots
    /\ \A i \in Items, c, d \in Contents :
            <<i, c>> \in snapshots /\ <<i, d>> \in snapshots /\ c.rev = d.rev => c = d

\* What intake leaves behind is whole, whatever the order of syncs,
\* submissions, decisions and deliveries: the invariants above together.
IntakeIsSound ==
    /\ IntakeTypeOK
    /\ ReadinessIsCurrent
    /\ ChangeIsOwned
    /\ AuditTellsTheHistory
    /\ OneItemPerIdentity

\* Authority is given to what its caller read, and kept to that: both
\* properties of steps above together.
AuthorityIsDeliberate == AuthorityIsRetained /\ AcceptedAsRead

=============================================================================
