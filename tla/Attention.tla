------------------------------ MODULE Attention ------------------------------
(***************************************************************************)
(* The attention queue of one tenant: the escalation that owns the dead    *)
(* jobs of a work item, the operational incidents that own dead jobs       *)
(* without one, the operators who move the incidents, and a reader who     *)
(* walks the queue page by page while all of it changes.                   *)
(***************************************************************************)
EXTENDS Naturals, FiniteSets

CONSTANTS
    Bound,         \* jobs of the work item
    Unbound,       \* jobs without one; each has at most one incident
    Actors,        \* operators
    MaxDeadline,   \* deadlines are 1..MaxDeadline
    MaxEscalation, \* bound on the escalations of the work item
    Limit,         \* rows of a page
    Walks          \* bound on the reader's walks

ASSUME AttentionAssumption ==
    /\ Bound \cap Unbound = {} /\ IsFiniteSet(Unbound) /\ MaxDeadline \in Nat \ {0}
    /\ MaxEscalation \in Nat /\ Limit \in Nat \ {0} /\ Walks \in Nat

VARIABLES
    workState,        \* work_items.state
    dead,        \* workflow_jobs that are DEAD
    owner,       \* dead_letter_escalation_id, dead_letter_operational_incident_id
    escalations, \* escalations of category WORKFLOW_JOB_EXHAUSTED, by number
    incidents,   \* operational_incidents, by their workflow_job_id
    receipts,    \* operational_incident_transition_receipts, by job and version
    answers,     \* snapshots the operators were given, by job and version
    reader       \* the walk: cursor, records shown, records open and unmoved since it began

attentionVars == <<workState, dead, owner, escalations, incidents, receipts, answers, reader>>

-----------------------------------------------------------------------------
(***************************************************************************)
(* Records and their order.                                                *)
(***************************************************************************)
Numbers == 1..MaxEscalation
Nobody == 0
NoCursor == <<>>
OpenStatuses == {"OPEN", "ACKNOWLEDGED"}
Kinds == {"ACKNOWLEDGE", "RESOLVE", "CANCEL"}
Requests == [kind : Kinds, actor : Actors]

\* AttentionSeverity::rank
rank == [INFO |-> 1, LOW |-> 2, MEDIUM |-> 3, HIGH |-> 4, CRITICAL |-> 5]
RecordSeverities == DOMAIN rank

Record == [status : {"NONE", "OPEN", "ACKNOWLEDGED", "RESOLVED", "CANCELLED"},
           severity : RecordSeverities, deadline : 1..MaxDeadline, version : 0..3]
NoRecord == [status |-> "NONE", severity |-> "HIGH", deadline |-> 1, version |-> 0]
Snapshot == [status : {"ACKNOWLEDGED", "RESOLVED", "CANCELLED"}, version : 2..3]
required_status(kind) == IF kind = "ACKNOWLEDGE" THEN "OPEN" ELSE "ACKNOWLEDGED"
resulting_status(kind) ==
    CASE kind = "ACKNOWLEDGE" -> "ACKNOWLEDGED"
      [] kind = "RESOLVE" -> "RESOLVED"
      [] kind = "CANCEL" -> "CANCELLED"

\* A receipt is the only member of its set.
Receipt(q, v) == [request |-> q, result |-> [status |-> resulting_status(q.kind), version |-> v + 1]]

\* Records are named by their table and id.
Ids == ({"ESCALATION"} \X Numbers) \cup ({"OPERATIONAL_INCIDENT"} \X Unbound)
RecordOf(id) == IF id[1] = "ESCALATION" THEN escalations[id[2]] ELSE incidents[id[2]]
Open == {id \in Ids : RecordOf(id).status \in OpenStatuses}

\* The identity that ends a tie: any fixed order does.
Place == CHOOSE f \in [Ids -> 1..Cardinality(Ids)] :
            \A a, b \in Ids : a # b => f[a] # f[b]

Key(r, id) == <<rank[r.severity], r.deadline, Place[id]>>

\* Highest severity first, then the earliest deadline, then the identity.
compare_attention_items(k, l) ==
    \/ k[1] > l[1]
    \/ k[1] = l[1] /\ k[2] < l[2]
    \/ k[1] = l[1] /\ k[2] = l[2] /\ k[3] < l[3]

AttentionInit ==
    /\ workState = "ACTIVE" /\ dead = {}
    /\ owner = [j \in Bound \cup Unbound |-> Nobody]
    /\ escalations = [n \in Numbers |-> NoRecord]
    /\ incidents = [j \in Unbound |-> NoRecord]
    /\ receipts = [j \in Unbound |-> [v \in 1..2 |-> {}]]
    /\ answers = [j \in Unbound |-> [v \in 1..2 |-> {}]]
    /\ reader = [cursor |-> NoCursor, shown |-> {}, twice |-> FALSE, steady |-> {}, walks |-> 0]

\* A record that changed its place or closed is not steady any more.
Moved(id) == [reader EXCEPT !.steady = @ \ {id}]

-----------------------------------------------------------------------------
(***************************************************************************)
(* Dead letters of the work item.                                          *)
(***************************************************************************)
OpenEscalations == {n \in Numbers : escalations[n].status \in OpenStatuses}

\* A dead letter is HIGH at least.
normalized_dead_letter(severity) == IF severity = "CRITICAL" THEN "CRITICAL" ELSE "HIGH"

\* Fault: the adopted escalation takes the deadline of the newcomer.
TakeNewDeadline(r, severity, deadline) ==
    [r EXCEPT !.severity = IF severity = "CRITICAL" THEN severity ELSE @,
              !.deadline = deadline]

\* A second dead job joins the open escalation: it only ever grows more urgent.
merge_active_dead_letter(r, severity, deadline) ==
    [r EXCEPT !.severity = IF severity = "CRITICAL" THEN severity ELSE @,
              !.deadline = IF deadline < @ THEN deadline ELSE @]

\* The job's link to the escalation that owns it for good.
LinkOwner(j, n) == [owner EXCEPT ![j] = n]

insert_dead_letter_escalation(j, severity, deadline) ==
    \/ \E n \in OpenEscalations :
          /\ escalations' = [escalations EXCEPT
                 ![n] = merge_active_dead_letter(@, severity, deadline)]
          /\ owner' = LinkOwner(j, n)
          /\ reader' = Moved(<<"ESCALATION", n>>)
    \/ /\ OpenEscalations = {}
       /\ \E n \in Numbers :
             /\ escalations[n] = NoRecord /\ \A k \in 1..(n - 1) : escalations[k] # NoRecord
             /\ escalations' = [escalations EXCEPT
                    ![n] = [status |-> "OPEN", severity |-> severity,
                            deadline |-> deadline, version |-> 1]]
             /\ owner' = [owner EXCEPT ![j] = n]
       /\ UNCHANGED reader

dead_letter_work_item_claim(j) ==
    /\ j \in Bound \ dead
    /\ dead' = dead \cup {j} /\ workState' = "ESCALATED"
    /\ \E s \in {"MEDIUM", "HIGH", "CRITICAL"}, d \in 1..MaxDeadline :
          insert_dead_letter_escalation(j, normalized_dead_letter(s), d)
    /\ UNCHANGED <<incidents, receipts, answers>>

\* Cancelling escalated work closes the escalation and keeps the links.
close_exhausted_cancellation_escalation ==
    /\ workState = "ESCALATED"
    /\ \E n \in OpenEscalations :
          /\ escalations' = [escalations EXCEPT ![n].status = "CANCELLED"]
          /\ reader' = Moved(<<"ESCALATION", n>>)
    /\ workState' = "ACTIVE"
    /\ UNCHANGED <<dead, owner, incidents, receipts, answers>>

-----------------------------------------------------------------------------
(***************************************************************************)
(* Incidents.                                                              *)
(***************************************************************************)
dead_letter_operational_claim(j) ==
    /\ j \in Unbound \ dead
    /\ \E d \in 1..MaxDeadline :
          incidents' = [incidents EXCEPT ![j] = [status |-> "OPEN", severity |-> "HIGH",
                                                 deadline |-> d, version |-> 1]]
    /\ dead' = dead \cup {j} /\ owner' = [owner EXCEPT ![j] = 1]
    /\ UNCHANGED <<workState, escalations, receipts, answers, reader>>

\* No one moved the incident from this version, and it is at it.
Unanswered(j, v, q) ==
    /\ receipts[j][v] = {}
    /\ incidents[j].version = v /\ incidents[j].status = required_status(q.kind)

update_incident(j, kind) ==
    /\ incidents' = [incidents EXCEPT
           ![j] = [incidents[j] EXCEPT !.status = resulting_status(kind),
                                       !.version = incidents[j].version + 1]]
    /\ reader' = IF kind = "ACKNOWLEDGE" THEN reader ELSE Moved(<<"OPERATIONAL_INCIDENT", j>>)

\* A table of receipts or answers with more of them at one version.
Noted(table, j, v, more) ==
    [table EXCEPT ![j] = [table[j] EXCEPT ![v] = table[j][v] \cup more]]

insert_transition_receipt(j, v, q) == receipts' = Noted(receipts, j, v, {Receipt(q, v)})

\* The caller may or may not hear of it.
transition_operational_incident(j, v, q) ==
    /\ Unanswered(j, v, q)
    /\ update_incident(j, q.kind) /\ insert_transition_receipt(j, v, q)
    /\ answers' \in {answers, Noted(answers, j, v, {Receipt(q, v)})}
    /\ UNCHANGED <<workState, dead, owner, escalations>>

\* The snapshot of the receipt, whatever happened since.
StoredSnapshot(j, v) == receipts[j][v]

\* The same request again; another request at that version is refused.
load_transition_receipt(j, v) ==
    /\ receipts[j][v] # {}
    /\ answers' = Noted(answers, j, v, StoredSnapshot(j, v))
    /\ UNCHANGED <<workState, dead, owner, escalations, incidents, receipts, reader>>

-----------------------------------------------------------------------------
(***************************************************************************)
(* Reading the queue.                                                      *)
(***************************************************************************)
\* A dead job without an owner, or escalated work without an open escalation.
\* The records written here are complete by construction of their columns.
Uncovered ==
    {j \in dead : owner[j] = Nobody}
    \cup (IF workState = "ESCALATED" /\ OpenEscalations = {} THEN {"WORK_ESCALATED"} ELSE {})

\* One uncovered obligation refuses the whole page.
ensure_attention_coverage == Uncovered = {}

\* The open records behind the cursor.
Beyond == {id \in Open : \/ reader.cursor = NoCursor
                         \/ compare_attention_items(reader.cursor, Key(RecordOf(id), id))}

\* The first rows beyond the cursor, no more than the limit.
Page ==
    {id \in Beyond :
        Cardinality({o \in Beyond : compare_attention_items(Key(RecordOf(o), o),
                                                            Key(RecordOf(id), id))}) < Limit}

LastRow(page) == CHOOSE id \in page : \A o \in page :
    o = id \/ compare_attention_items(Key(RecordOf(o), o), Key(RecordOf(id), id))

\* A first page starts a walk over; a later one follows the cursor.
attention ==
    /\ ensure_attention_coverage
    /\ Page # {}
    /\ reader.cursor = NoCursor => reader.walks < Walks
    /\ reader' = [cursor |-> Key(RecordOf(LastRow(Page)), LastRow(Page)),
                  shown |-> reader.shown \cup Page,
                  twice |-> reader.twice \/ reader.shown \cap Page # {},
                  steady |-> IF reader.cursor = NoCursor THEN Open ELSE reader.steady,
                  walks |-> IF reader.cursor = NoCursor THEN reader.walks + 1 ELSE reader.walks]
    /\ UNCHANGED <<workState, dead, owner, escalations, incidents, receipts, answers>>

\* The last page had no cursor: the walk is over.
EndOfWalk ==
    /\ reader.cursor # NoCursor /\ Page = {}
    /\ reader' = [reader EXCEPT !.cursor = NoCursor, !.shown = {}, !.steady = {}]
    /\ UNCHANGED <<workState, dead, owner, escalations, incidents, receipts, answers>>

DeadLetterStep ==
    \/ \E j \in Bound : dead_letter_work_item_claim(j)
    \/ \E j \in Unbound : dead_letter_operational_claim(j)
    \/ close_exhausted_cancellation_escalation

IncidentStep(j, requests) ==
    \E v \in 1..2 : \/ \E q \in requests : transition_operational_incident(j, v, q)
                    \/ load_transition_receipt(j, v)

WalkStep == attention \/ EndOfWalk

AttentionNext ==
    \/ DeadLetterStep
    \/ \E j \in Unbound : IncidentStep(j, Requests)
    \/ WalkStep

AttentionSpec == AttentionInit /\ [][AttentionNext]_attentionVars

-----------------------------------------------------------------------------
(***************************************************************************)
(* Properties.                                                             *)
(***************************************************************************)
\* Every row has one of the shapes the tables allow.
AttentionTypeOK ==
    /\ workState \in {"ACTIVE", "ESCALATED"} /\ dead \subseteq Bound \cup Unbound
    /\ escalations \in [Numbers -> Record] /\ incidents \in [Unbound -> Record]
    /\ \A j \in Unbound, v \in 1..2 :
          receipts[j][v] \subseteq [request : Requests, result : Snapshot]
    /\ reader.shown \subseteq Ids /\ reader.steady \subseteq Ids

\* The page can always be served: no sequence of dead letters, adoptions,
\* closures and cancellations leaves an obligation without its owner, which
\* would hide the whole queue (ensure_attention_coverage).
QueueIsReadable == Uncovered = {}

\* Urgency never falls while a record is open, so nothing the reader has
\* passed slides behind the cursor and is shown again
\* (MERGE_ACTIVE_ESCALATION_SQL against the keyset of attention).
NeverShownTwice == ~reader.twice

\* A record that stayed open and in its place while the reader walked to the
\* end was shown (attention, compare_attention_items).
SteadyIsShown ==
    (reader.cursor # NoCursor /\ Beyond = {}) => reader.steady \subseteq reader.shown

\* All operators who ask about one version of an incident are told the same
\* thing, however late they ask (transition_operational_incident).
TransitionsAgree == \A j \in Unbound, v \in 1..2 : Cardinality(answers[j][v]) <= 1

\* The receipts are the incident's history: one after the other they lead to
\* the state it is in, and a closed incident was acknowledged by somebody
\* (insert_transition_receipt, the lifecycle guard of migration 0002).
ReceiptsAreHistory ==
    \A j \in Unbound :
        incidents[j].version > 0 =>
            /\ \A v \in 1..2 : receipts[j][v] # {} <=> v < incidents[j].version
            /\ incidents[j].version > 1 =>
                  \E q \in Requests :
                      receipts[j][incidents[j].version - 1]
                          = {[request |-> q, result |-> [status |-> incidents[j].status,
                                                         version |-> incidents[j].version]]}

\* Attention is never lost: the queue is readable, a walk over it is complete
\* and shows nothing twice, and the incidents' history is kept and told as it
\* was (the parts above together).
AttentionIsComplete ==
    /\ AttentionTypeOK
    /\ QueueIsReadable
    /\ NeverShownTwice
    /\ SteadyIsShown
    /\ TransitionsAgree
    /\ ReceiptsAreHistory
=============================================================================
