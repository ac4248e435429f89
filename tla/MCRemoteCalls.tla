---------------------------- MODULE MCRemoteCalls ----------------------------
(* What ASF asks of Runmill and what it hears: the calls of the control      *)
(* client, the way of a Work Order with its recovery, the contract of the    *)
(* events and their projection.  Each takes the others' answers as given, so *)
(* they are checked side by side: a behaviour takes the steps of one         *)
(* scenario, and everything else stays in its initial state.                 *)
EXTENDS ControlClient, Submission, EventContract, RunEvents

VARIABLE focus

-----------------------------------------------------------------------------
(* Three signed orders under one key (an order, the same order signed       *)
(* again, and another order), and a second run to be confused with.         *)
MCKeyOf == [e \in Envelopes |-> IF e = "second" THEN "k2" ELSE "k1"]
MCPayloadOf == [e \in Envelopes |-> IF e \in {"order", "again"} THEN "p1" ELSE e]
MCRunOf == [q \in CancelRequests |-> "k1"]
TwoRuns == [k \in Keys |-> Admitted(IF k = "k1" THEN "order" ELSE "second")]

(* Two orders differ in the key that signed them, a third in its payload    *)
(* and its idempotency key.                                                 *)
MCOrders == {[idem |-> "i1", digest |-> "d1", signer |-> "s1"],
             [idem |-> "i1", digest |-> "d1", signer |-> "s2"],
             [idem |-> "i2", digest |-> "d2", signer |-> "s1"]}
Alike == Permutations(Callers) \cup Permutations(EscalationIds)

(* Event types: every one the client knows, and one of a later Runmill.     *)
MCPublished == KnownTypes \cup {"run.archived"}

(* Three sequences.  Every event may come under its own identity or under a *)
(* reused one, at the next version or one beyond it; an event of another    *)
(* schema or of another run claims success.                                 *)
WireTypes == {"run.running", "run.progressed", "run.succeeded", "run.cancelled",
              "run.unknown"}
Claimed(schema, binds, types) ==
    [id : 1..3, seq : 0..3, ver : 1..5, type : types, schema : {schema}, binds : {binds}]
MCWire ==
    {e \in Claimed(TRUE, TRUE, WireTypes)
           \cup Claimed(FALSE, TRUE, {"run.succeeded"})
           \cup Claimed(TRUE, FALSE, {"run.succeeded"}) :
        /\ e.ver \in {e.seq + 1, e.seq + 2}
        /\ e.id \in {e.seq, 1}}

-----------------------------------------------------------------------------
Init ==
    /\ ClientInit /\ SubInit /\ ContractInit /\ RunEventsInit
    /\ focus \in {"send", "read", "recover", "contract", "events"}
    /\ runs = IF focus = "read" THEN TwoRuns ELSE [k \in Keys |-> NoRun]

\* A submission against another submission or a recovery, with Runmill
\* replaced at any moment.
SendStep ==
    \/ Begin("c1", "SUBMIT", "order")
    \/ \E op \in {"SUBMIT", "RECONCILE"}, e \in Envelopes : Begin("c2", op, e)
    \/ ServiceStep \/ Stop \/ Start

\* Reads and the other two mutations of runs that move on meanwhile.
ReadStep ==
    \/ \E c \in Calls : \E op \in Ops \ {"SUBMIT", "RECONCILE"} :
           \E arg \in Args(op) : Begin(c, op, arg)
    \/ ServiceStep

Next ==
    \/ focus = "send" /\ SendStep /\ UNCHANGED <<focus, subVars, contractVars, runEventVars>>
    \/ focus = "read" /\ ReadStep /\ UNCHANGED <<focus, subVars, contractVars, runEventVars>>
    \/ focus = "recover" /\ SubNext /\ UNCHANGED <<focus, clientVars, contractVars, runEventVars>>
    \/ focus = "contract" /\ ContractNext /\ UNCHANGED <<focus, clientVars, subVars, runEventVars>>
    \/ focus = "events" /\ RunEventsNext /\ UNCHANGED <<focus, clientVars, subVars, contractVars>>

vars == <<focus, clientVars, subVars, contractVars, runEventVars>>
Spec == Init /\ [][Next]_vars
=============================================================================
