------------------------------ MODULE MCOwners ------------------------------
(* Who owns what is done and left undone: the transaction that ends a       *)
(* workflow step and kills an exhausted job, the queue in which operators   *)
(* see what dead jobs leave behind, and the chain of audited facts.  Each   *)
(* takes what it needs of the others as given, so they are checked side by  *)
(* side: a behaviour takes the steps of one scenario, and everything else   *)
(* stays in its initial state.                                              *)
EXTENDS StepLedger, Attention, AuditChain, TLC

VARIABLE focus

-----------------------------------------------------------------------------
(* A step that goes on, one that closes and uses the same key for another   *)
(* row, one that brings its own escalation, one that closes under a retry   *)
(* and is refused.                                                          *)
NextJob == <<"JOB", "next">>
Content(body) == [body |-> body, due |-> 0, well |-> TRUE]

MCKeys == {NextJob}
MCWriteSet ==
    "go" :> [state |-> "RUNNING", workflow |-> "ACTIVE", cursor |-> 1, audited |-> TRUE,
             anchor |-> [kind |-> "WORKFLOW", deadline |-> FALSE],
             rows |-> NextJob :> Content("a")]
    @@
    "close" :> [state |-> "CLOSED", workflow |-> "COMPLETED", cursor |-> 2, audited |-> TRUE,
                anchor |-> [kind |-> "CLOSURE", deadline |-> FALSE],
                rows |-> NextJob :> Content("b")]
    @@
    "doubt" :> [state |-> "ESCALATED", workflow |-> "WAITING", cursor |-> 1, audited |-> TRUE,
                anchor |-> [kind |-> "ESCALATION", deadline |-> TRUE], rows |-> <<>>]
    @@
    "odd" :> [state |-> "CLOSED", workflow |-> "COMPLETED", cursor |-> 2, audited |-> TRUE,
              anchor |-> [kind |-> "RETRY", deadline |-> TRUE], rows |-> <<>>]
PlainFailure == {r \in FailRequest : r.error = "e1" /\ r.at = 2 /\ r.severity = "HIGH" /\ ~r.force}


\* The work item's jobs are interchangeable, and so are the writers.
Alike == Permutations(Bound) \cup Permutations(Writers)

-----------------------------------------------------------------------------
Init ==
    /\ StepInit /\ AttentionInit /\ AuditInit
    /\ focus \in {"commit", "failure", "queue", "incident", "chain", "export"}
    /\ focus # "chain" => clock = 0

\* Two lease owners commit or fail, while others move the work item.  The
\* second job is claimed once.
CommitScenario ==
    \/ \E c \in Callers : ClaimStep(c, "j1") \/ (job["j2"].token = 0 /\ Claim(c, "j2"))
    \/ \E c \in Callers : CallerStep(c, CommitRequest \cup PlainFailure)
    \/ MoveOutside
    \/ \E k \in Keys : Delay(k)

\* One lease owner reports every kind of failure, while operators attend.
FailureScenario ==
    \/ \E j \in Jobs : ClaimStep("a", j)
    \/ CallerStep("a", {r \in FailRequest : r.severity # "HIGH"})
    \/ AttendStep

\* The reader walks while records come, move and go.
QueueScenario ==
    \/ DeadLetterStep \/ WalkStep
    \/ \E j \in Unbound, v \in 1..2, q \in {r \in Requests : r.actor = "o1"} :
           transition_operational_incident(j, v, q)

\* Two operators race for one incident and repeat themselves.
IncidentScenario ==
    dead_letter_operational_claim("u1") \/ IncidentStep("u1", Requests) \/ WalkStep

Alone(w) == \A v \in Writers \ {w} : txn[v] = Idle

\* Two writers of any kind, under a clock that may be set back; or a few rows
\* that are exported.
ChainScenario == Provision \/ SetClock \/ \E w \in Writers : Write(w)
ExportScenario ==
    \/ Provision \/ ExportStep
    \/ Cardinality(auditRows) < 2 /\ \E w \in Writers : Alone(w) /\ Write(w)

Next ==
    \/ focus = "commit" /\ CommitScenario /\ UNCHANGED <<focus, attentionVars, auditVars>>
    \/ focus = "failure" /\ FailureScenario /\ UNCHANGED <<focus, attentionVars, auditVars>>
    \/ focus = "queue" /\ QueueScenario /\ UNCHANGED <<focus, stepVars, auditVars>>
    \/ focus = "incident" /\ IncidentScenario /\ UNCHANGED <<focus, stepVars, auditVars>>
    \/ focus = "chain" /\ ChainScenario /\ UNCHANGED <<focus, stepVars, attentionVars>>
    \/ focus = "export" /\ ExportScenario /\ UNCHANGED <<focus, stepVars, attentionVars>>

vars == <<focus, stepVars, attentionVars, auditVars>>
Spec == Init /\ [][Next]_vars
=============================================================================
