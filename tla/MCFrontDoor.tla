---------------------------- MODULE MCFrontDoor ----------------------------
(* What ASF is told: issues from the tracker (Intake), requests of clients  *)
(* (Api) and what a worker's daemon says of its health (WorkerHealth).      *)
(* They share no state here, so they are checked side by side: a behaviour  *)
(* takes the steps of one scenario, and everything else stays in its        *)
(* initial state.                                                           *)
EXTENDS Api, Intake, WorkerHealth, TLC

VARIABLE focus

MCContents == {[rev |-> 1, body |-> 1], [rev |-> 2, body |-> 1], [rev |-> 2, body |-> 2],
               [rev |-> 3, body |-> 1]}

\* Two callers of the two operations that move the item; one caller of each of
\* them and of an approval or a verification; two callers about the worker.
Calls == [cancel |-> {"ACCEPT", "CANCEL"} \X Keys,
          decide |-> {"ACCEPT", "CANCEL", "DECIDE"} \X {1},
          verify |-> {"ACCEPT", "CANCEL", "VERIFY"} \X {1},
          worker |-> {"RECONCILE"} \X Keys]
Called(S) == {s[1] : s \in S}

(* Health: two components, a detail, the reasons that tell the statuses     *)
(* apart, and clocks in step and out of step.                               *)
MCDetails == {<<"sandbox", "enforcement_downgraded">>}
MCReasons == {<<"worker", "capacity_full">>, <<"sandbox", "downgraded">>}
MCGrave == {<<"sandbox", "downgraded">>}
MCOffsets == {-1, 0, 1, 2}

Init ==
    /\ ApiInit /\ IntakeInit /\ HealthInit
    /\ focus \in {"sync", "submit", "cancel", "decide", "verify", "worker", "health", "row"}
    /\ capable = IF focus \in DOMAIN Calls THEN Called(Calls[focus]) ELSE {}
    /\ focus = "health" => daemon.offset # 0 /\ daemon.max = Concurrency
    /\ focus # "health" => daemon.offset = 0
    /\ focus \notin {"health", "row"} => daemon.max = Concurrency

ApiStep ==
    /\ focus \in DOMAIN Calls
    /\ ApiNext
    /\ capable' \subseteq Called(Calls[focus])
    /\ \A s \in Slots \ Calls[focus] : records'[s] = records[s]
    /\ UNCHANGED <<focus, intakeVars, healthVars>>

\* One check of a daemon whose clock, probes and words may be off, or two
\* checks that race with sessions, admissions and a new generation.
HealthStep ==
    \/ focus = "health" /\ (DaemonStep \/ AskStep("k1", Twists \cup {"none"}))
    \/ focus = "row" /\ (RowStep \/ \E k \in Jobs : AskStep(k, {"none"}) \/ SettleStep(k))

\* One item of a batch at a time is accepted; the others show what else a
\* batch may hold.
OneAccepted == \A i, j \in Items : items'[i].accepted /\ items'[j].accepted => i = j

Next ==
    \/ ApiStep
    \/ focus = "sync" /\ (SyncStep \/ ItemStep) /\ OneAccepted /\ UNCHANGED <<focus, apiVars, healthVars>>
    \/ focus = "submit" /\ (SubmitStep \/ ItemStep) /\ UNCHANGED <<focus, apiVars, healthVars>>
    \/ HealthStep /\ UNCHANGED <<focus, apiVars, intakeVars>>

vars == <<focus, apiVars, intakeVars, healthVars>>
Spec == Init /\ [][Next]_vars

Alike == Permutations(Syncs) \cup Permutations(Listed)
=============================================================================
