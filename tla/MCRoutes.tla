------------------------------ MODULE MCRoutes ------------------------------
(***************************************************************************)
(* Small fleets for Routes: two builds that share the queue, due jobs that *)
(* one process, the other or none can serve, retentions that both serve    *)
(* and neither may take, and one build with timers.  A behaviour takes the *)
(* steps of one of them.                                                   *)
(***************************************************************************)
EXTENDS Routes

VARIABLE focus

Route(t, c) == [type |-> t, contract |-> c]
Ready(t, c, scope) == [type |-> t, contract |-> c, ready |-> TRUE, scope |-> scope]

\* The builds differ in the contract of the observation.
MCTypes == {"OBSERVE_RUNMILL_RUN", "RECONCILE_WORKER", "REQUEST_WORK_ITEM_CANCELLATION",
            Retention, "VERIFY_EVIDENCE", "CLOSE_SOURCE"}
MCCanonical ==
    [p \in Processes |-> [t \in PRODUCTION_JOB_TYPES |->
        IF p = "p2" /\ t = "OBSERVE_RUNMILL_RUN" THEN 2 ELSE 1]]

\* Two contracts of one worker-scoped type.
BuildEnvelopes ==
    {EnvelopeOf("OBSERVE_RUNMILL_RUN", c, w) : c \in 1..2, w \in WorkerIds \cup {Malformed}}
SecondEnvelope == {EnvelopeOf("OBSERVE_RUNMILL_RUN", 2, "w1")}
BuildOffered ==
    {Ready("OBSERVE_RUNMILL_RUN", c, s) :
        c \in 1..2, s \in {Unscoped, <<"OBSERVE_RUNMILL_RUN", "w1">>}}

\* Handlers of one worker, and jobs for it, for another and for nobody.
DueEnvelopes ==
    {EnvelopeOf("REQUEST_WORK_ITEM_CANCELLATION", 1, w) : w \in WorkerIds}
    \cup {[EnvelopeOf("RECONCILE_WORKER", 1, "w1") EXCEPT !.wellFormed = FALSE],
          EnvelopeOf("RECONCILE_WORKER", 1, Malformed),
          EnvelopeOf("CLOSE_SOURCE", 1, Nobody), EnvelopeOf("CLOSE_SOURCE", 2, Nobody)}
DueOffered(p) ==
    {Ready("REQUEST_WORK_ITEM_CANCELLATION", 1, <<"REQUEST_WORK_ITEM_CANCELLATION", "w1">>),
     Ready("RECONCILE_WORKER", 1, <<"RECONCILE_WORKER", "w1">>)}
    \cup (IF p = "p1" THEN {Ready("CLOSE_SOURCE", 1, Unscoped)} ELSE {})

\* Retentions of two workers, which the producer always writes well formed:
\* one process may serve either worker or none, the other the first or none.
RetentionEnvelopes == {EnvelopeOf(Retention, 1, w) : w \in WorkerIds}
RetentionOffered(p) ==
    {Ready(Retention, 1, <<Retention, w>>) : w \in IF p = "p1" THEN WorkerIds ELSE {"w1"}}

\* Timers, a verifier and a closure.
MCTimerRoutes == {Route("CLOSE_SOURCE", 1), Route("RECONCILE_WORKER", 1), Route("CLOSE_SOURCE", 2)}
TimerEnvelopes == {EnvelopeOf("RECONCILE_WORKER", 1, "w2")}
TimerOffered(p) ==
    {Ready("CLOSE_SOURCE", 1, Unscoped), Ready("RECONCILE_WORKER", 1, Unscoped)}
    \cup (IF p = "p1" THEN {Ready("VERIFY_EVIDENCE", 1, Unscoped),
                            Ready("RECONCILE_WORKER", 1, <<"RECONCILE_WORKER", "w1">>)} ELSE {})

MCEnvelopes == BuildEnvelopes \cup DueEnvelopes \cup RetentionEnvelopes \cup TimerEnvelopes
MCOffered ==
    BuildOffered \cup DueOffered("p1") \cup RetentionOffered("p1") \cup TimerOffered("p1")

-----------------------------------------------------------------------------
Init ==
    /\ RoutesInit
    /\ focus \in {"builds", "due", "retention", "timers"}

Next ==
    /\ \/ /\ focus = "builds"
          /\ \/ \E p \in Processes : ProcessStep(p, BuildOffered)
             \/ EnqueueStep(1, BuildEnvelopes) \/ EnqueueStep(2, SecondEnvelope)
       \/ /\ focus = "due"
          /\ \/ \E p \in Processes : ProcessStep(p, DueOffered(p)) \/ Crash(p)
             \/ EnqueueStep(1, DueEnvelopes)
       \/ /\ focus = "retention"
          /\ \/ \E p \in Processes : ProcessStep(p, RetentionOffered(p)) \/ Crash(p)
             \/ EnqueueStep(1, RetentionEnvelopes)
       \/ /\ focus = "timers"
          /\ \/ \E p \in Processes : ProcessStep(p, TimerOffered(p))
             \/ TimerStep \/ EnqueueStep(1, TimerEnvelopes)
    /\ UNCHANGED focus

vars == <<focus, routeVars>>

\* A process that is down is started, and its reactor keeps polling.
Fairness == \A p \in Processes : WF_vars((Boot(p) \/ Start(p) \/ PollStep(p)) /\ UNCHANGED focus)

FairSpec == Init /\ [][Next]_vars /\ Fairness
=============================================================================
