---------------------------- MODULE ControlClient ----------------------------
(***************************************************************************)
(* The client of Runmill's private control socket                          *)
(* (adapters/runmill_control.rs).                                          *)
(*                                                                         *)
(* A call reads the daemon's registry, looks at the socket, connects,      *)
(* looks again, writes one request and waits for one answer, with a        *)
(* timeout on the connection and another on the exchange.  Nothing it does *)
(* after the first byte is written can be taken back: the daemon may apply *)
(* the request after the caller has given up.  So the error of a mutating  *)
(* call says either that nothing was sent or that the outcome is           *)
(* ambiguous, and what an answer proves is checked before it is returned.  *)
(*                                                                         *)
(* Runmill is external: it may stop, be replaced by another process behind *)
(* the same path, hang, lose answers, and answer a read from two queries   *)
(* between which the run moved on.  An event page is checked in module     *)
(* ObservationStream, an event in EventContract, health in WorkerHealth.   *)
(***************************************************************************)
EXTENDS Naturals, Sequences

CONSTANTS
    Calls,              \* the calls a behaviour may make, each once
    Envelopes,          \* signed Work Orders
    CancelRequests,     \* cancellation requests
    Keys,               \* idempotency keys; Runmill has one run for each
    KeyOf,              \* the key in an envelope's payload
    PayloadOf,          \* the digest of an envelope's payload
    RunOf,              \* the run a cancellation request names
    Malformed,          \* envelopes and requests that break their own contract
    MaxVersion,         \* how far a run's history goes
    MaxRestart,         \* how often Runmill is replaced
    None

ASSUME ClientAssumption ==
    /\ \A e \in Envelopes : KeyOf[e] \in Keys
    /\ \A q \in CancelRequests : RunOf[q] \in Keys
    /\ None \notin Keys \cup CancelRequests
    /\ MaxVersion \in Nat /\ MaxRestart \in Nat

VARIABLES
    registry,           \* what the registry file says: NONE, V1, V2, or OPEN
                        \* when others may write it
    sock,               \* the socket file: [inode, private], inode 0 if absent
    serving,            \* whether a process listens on it
    boots,              \* how often Runmill was started
    runs,               \* Runmill's runs, by key
    call,               \* the state of every call
    inbox,              \* requests a serving process holds unanswered
    drafts,             \* the first half of an answer to a read
    answer,             \* the bytes that came back on a call's connection
    applied             \* history: the calls whose request changed a run

clientVars == <<registry, sock, serving, boots, runs, call, inbox, drafts, answer, applied>>
daemonVars == <<registry, sock, serving, boots>>
wireVars == <<inbox, drafts, answer>>

-----------------------------------------------------------------------------
(* Runmill's runs. *)

TerminalPhases == {"COMPLETED", "CANCELLED"}

NoRun == [envelope |-> None, log |-> <<>>, cancel |-> None, ack |-> FALSE]

Admitted(e) == [envelope |-> e, log |-> <<"ADMITTED">>, cancel |-> None, ack |-> FALSE]

Known(k) == runs[k] /= NoRun
PhaseOf(r) == r.log[Len(r.log)]
Ended(r) == r.log /= <<>> /\ PhaseOf(r) \in TerminalPhases

-----------------------------------------------------------------------------
(* Calls. *)

Ops == {"SUBMIT", "RECONCILE", "GET", "EVIDENCE", "CANCEL", "ACK"}

mutates(op) == op \in {"SUBMIT", "CANCEL", "ACK"}

\* What the operations are called with.
Args(op) ==
    CASE op \in {"SUBMIT", "RECONCILE"} -> Envelopes
      [] op = "CANCEL" -> CancelRequests
      [] OTHER -> Keys

\* The whole of an envelope is checked, field by field, before it is sent.
validate_work_order_envelope(e) == e \notin Malformed

validate_cancellation_request(q) == q \notin Malformed

ValidRequest(op, arg) ==
    CASE op \in {"SUBMIT", "RECONCILE"} -> validate_work_order_envelope(arg)
      [] op = "CANCEL" -> validate_cancellation_request(arg)
      [] OTHER -> TRUE

KeyIn(c) ==
    CASE call[c].op \in {"SUBMIT", "RECONCILE"} -> KeyOf[call[c].arg]
      [] call[c].op = "CANCEL" -> RunOf[call[c].arg]
      [] OTHER -> call[c].arg

Unmade == [op |-> "NONE", arg |-> None, pc |-> "IDLE", seen |-> 0, conn |-> 0,
           result |-> "NONE", value |-> None]

At(c, pc) == call[c].pc = pc
Go(c, pc) == call' = [call EXCEPT ![c].pc = pc]
End(c, result) == call' = [call EXCEPT ![c].pc = "DONE", ![c].result = result]

\* What is still on a closed connection is never read.
Hangup(c) == answer' = [answer EXCEPT ![c] = None]

\* Fault: only a malformed answer makes a mutation's outcome ambiguous.
wire_error_definite(op, failure) ==
    IF mutates(op) /\ failure = "MALFORMED" THEN "AMBIGUOUS" ELSE "LOCAL"

\* What an error after the first written byte is called.
wire_error(op, failure) == IF mutates(op) THEN "AMBIGUOUS" ELSE failure

-----------------------------------------------------------------------------
(* The client's steps. *)

ClientInit ==
    /\ registry = "V1"
    /\ sock = [inode |-> 1, private |-> TRUE]
    /\ serving = TRUE /\ boots = 1
    /\ runs \in {r \in [Keys -> {NoRun} \cup {Admitted(e) : e \in Envelopes \ Malformed}] :
                   \A k \in Keys : r[k] /= NoRun => KeyOf[r[k].envelope] = k}
    /\ call = [c \in Calls |-> Unmade]
    /\ inbox = {} /\ applied = {}
    /\ drafts = [c \in Calls |-> None]
    /\ answer = [c \in Calls |-> None]

\* A request that fails its own validation, holds credential-shaped data or
\* is larger than the protocol allows goes no further.
Begin(c, op, arg) ==
    /\ At(c, "IDLE")
    /\ call' = [call EXCEPT ![c] =
                   IF ValidRequest(op, arg)
                     THEN [Unmade EXCEPT !.op = op, !.arg = arg, !.pc = "REGISTRY"]
                     ELSE [Unmade EXCEPT !.op = op, !.arg = arg, !.pc = "DONE",
                                         !.result = "LOCAL"]]
    /\ UNCHANGED <<daemonVars, runs, wireVars, applied>>

\* The file and its directory are there, and no one else's.
PrivateRegistry == registry \notin {"NONE", "OPEN"}

read_registry(c) ==
    /\ At(c, "REGISTRY")
    /\ IF PrivateRegistry /\ registry = "V1" THEN Go(c, "SOCKET") ELSE End(c, "LOCAL")
    /\ UNCHANGED <<daemonVars, runs, wireVars, applied>>

validate_socket(c) ==
    /\ At(c, "SOCKET")
    /\ IF sock.inode /= 0 /\ sock.private
         THEN call' = [call EXCEPT ![c].pc = "CONNECT", ![c].seen = sock.inode]
         ELSE End(c, "LOCAL")
    /\ UNCHANGED <<daemonVars, runs, wireVars, applied>>

\* The connection goes to whatever the path names now.
Connect(c) ==
    /\ At(c, "CONNECT")
    /\ IF serving /\ sock.inode /= 0
         THEN call' = [call EXCEPT ![c].pc = "RECHECK", ![c].conn = sock.inode]
         ELSE End(c, "LOCAL")
    /\ UNCHANGED <<daemonVars, runs, wireVars, applied>>

ConnectTimeout(c) ==
    /\ At(c, "CONNECT")
    /\ End(c, "LOCAL")
    /\ UNCHANGED <<daemonVars, runs, wireVars, applied>>

validate_connected_socket(c) ==
    /\ At(c, "RECHECK")
    /\ IF sock.inode = call[c].seen THEN Go(c, "WRITE") ELSE End(c, "LOCAL")
    /\ UNCHANGED <<daemonVars, runs, wireVars, applied>>

\* The process the call is connected to is still there.
Peer(c) == serving /\ sock.inode = call[c].conn

Write(c) ==
    /\ At(c, "WRITE")
    /\ Peer(c)
    /\ inbox' = inbox \cup {c}
    /\ Go(c, "WAIT")
    /\ UNCHANGED <<daemonVars, runs, drafts, answer, applied>>

\* A write that failed may still have delivered the whole request.
WriteInterrupted(c) ==
    /\ At(c, "WRITE")
    /\ inbox' \in {inbox} \cup (IF Peer(c) THEN {inbox \cup {c}} ELSE {})
    /\ End(c, wire_error(call[c].op, "INTERRUPTED"))
    /\ UNCHANGED <<daemonVars, runs, drafts, answer, applied>>

\* The exchange takes longer than the timeout; Runmill is not told.
WireTimeout(c) ==
    /\ At(c, "WAIT") \/ At(c, "WRITE")
    /\ End(c, wire_error(call[c].op, "TIMEOUT"))
    /\ Hangup(c)
    /\ UNCHANGED <<daemonVars, runs, inbox, drafts, applied>>

\* The connection ended without an answer.
ResponseLost(c) ==
    /\ At(c, "WAIT")
    /\ ~Peer(c)
    /\ answer[c] = None
    /\ End(c, wire_error(call[c].op, "LOST"))
    /\ UNCHANGED <<daemonVars, runs, wireVars, applied>>

-----------------------------------------------------------------------------
(* What an answer must be to be believed.                                  *)

\* The members of an answer that some check looks at; the others keep None.
Data(k) == [kind |-> "DATA", run |-> k, envelope |-> None, phase |-> "NONE",
            version |-> 0, latest |-> 0, request |-> None, disposition |-> "NONE",
            status |-> "NONE", complete |-> FALSE, bundle |-> None, terminal |-> None,
            signed |-> None]

Remote == [Data(None) EXCEPT !.kind = "REMOTE"]
Garbage == [Data(None) EXCEPT !.kind = "GARBAGE"]

\* Fault: the run row and the latest sequence may be of different moments.
snapshot_torn(a) == a.version /= 0

\* RunmillRunSnapshot::validate.
snapshot_valid(a) == a.version /= 0 /\ a.latest = a.version

\* The signed bundle is the one whose digest the view announces.
validate_signed_evidence(a) == a.bundle /= None /\ a.signed = a.bundle

\* RunmillEvidenceView::validate.
evidence_valid(a) ==
    /\ IF a.phase \in TerminalPhases THEN a.complete /\ a.terminal /= None
                                     ELSE a.terminal = None
    /\ CASE a.status = "CURRENT" ->
              /\ ~a.complete /\ a.bundle = None /\ a.signed = None
              /\ a.phase \notin TerminalPhases
         [] a.status = "STOPPED" ->
              /\ a.bundle = None /\ a.signed = None
              /\ a.complete => a.phase \in TerminalPhases
         [] a.status = "FINALIZING" ->
              ~a.complete /\ validate_signed_evidence(a)
         [] a.status = "FINAL" ->
              a.complete /\ validate_signed_evidence(a)

\* RunmillCancellationResult::validate.
cancellation_valid(a) ==
    IF a.disposition = "ALREADY_TERMINAL" THEN a.phase \in TerminalPhases
    ELSE a.phase = "CANCEL_REQUESTED"

ExactResponse(op, a) ==
    CASE op \in {"GET", "RECONCILE"} -> snapshot_valid(a)
      [] op = "EVIDENCE" -> evidence_valid(a)
      [] op = "CANCEL" -> cancellation_valid(a)
      [] OTHER -> TRUE

\* The admission is of this envelope and no other.
ReconcileBinds(c, a) ==
    /\ a.run = KeyOf[call[c].arg]
    /\ PayloadOf[a.envelope] = PayloadOf[call[c].arg]
    /\ a.envelope = call[c].arg

SubmitBinds(c, a) == PayloadOf[a.envelope] = PayloadOf[call[c].arg]

ReadBinds(c, a) == a.run = call[c].arg

\* The answer is to the request that was made.
Binds(c, a) ==
    CASE call[c].op = "SUBMIT" -> SubmitBinds(c, a)
      [] call[c].op = "RECONCILE" -> ReconcileBinds(c, a)
      [] call[c].op = "CANCEL" -> a.run = RunOf[call[c].arg] /\ a.request = call[c].arg
      [] call[c].op = "ACK" -> a.run = call[c].arg /\ a.terminal = call[c].arg
      [] OTHER -> ReadBinds(c, a)

Unbound(op) == CASE mutates(op) -> "AMBIGUOUS"
                 [] op = "RECONCILE" -> "MISMATCH"
                 [] OTHER -> "MALFORMED"

\* One line with exactly the members of a success or of a refusal.
parse_control_response(a) ==
    CASE a.kind = "GARBAGE" -> "MALFORMED"
      [] a.kind = "REMOTE" -> "REMOTE"
      [] OTHER -> "DATA"

ReadAnswer(c) ==
    /\ At(c, "WAIT")
    /\ answer[c] /= None
    /\ LET a == answer[c]
           op == call[c].op
           parsed == parse_control_response(a)
       IN  CASE parsed = "REMOTE" -> End(c, "REMOTE")
             [] parsed = "MALFORMED" \/ (parsed = "DATA" /\ ~ExactResponse(op, a)) ->
                   End(c, wire_error(op, "MALFORMED"))
             [] parsed = "DATA" /\ ExactResponse(op, a) /\ ~Binds(c, a) ->
                   End(c, Unbound(op))
             [] OTHER -> call' = [call EXCEPT ![c].pc = "DONE", ![c].result = "OK",
                                              ![c].value = a]
    /\ Hangup(c)
    /\ UNCHANGED <<daemonVars, runs, inbox, drafts, applied>>

-----------------------------------------------------------------------------
(* Runmill, external. *)

\* An answer only reaches a caller that still waits.
Reply(c, a) ==
    /\ inbox' = inbox \ {c}
    /\ answer' = IF At(c, "WAIT") THEN [answer EXCEPT ![c] = a] ELSE answer
    /\ UNCHANGED <<daemonVars, call>>

Logged(k, ph) == Append(runs[k].log, ph)

Submit(c) ==
    LET k == KeyOf[call[c].arg]
    IN  /\ c \in inbox /\ call[c].op = "SUBMIT"
        /\ \/ /\ ~Known(k)
              /\ runs' = [runs EXCEPT ![k] = Admitted(call[c].arg)]
              /\ applied' = applied \cup {c}
              /\ Reply(c, [Data(k) EXCEPT !.envelope = call[c].arg])
           \/ /\ Known(k)
              /\ Reply(c, [Data(k) EXCEPT !.envelope = runs[k].envelope])
              /\ UNCHANGED <<runs, applied>>
        /\ UNCHANGED drafts

Cancel(c) ==
    LET k == RunOf[call[c].arg]
        a == [Data(k) EXCEPT !.phase = PhaseOf(runs'[k])]
    IN  /\ c \in inbox /\ call[c].op = "CANCEL"
        /\ Known(k)
        /\ \/ /\ Ended(runs[k])
              /\ UNCHANGED <<runs, applied>>
              /\ Reply(c, [a EXCEPT !.request = call[c].arg,
                                    !.disposition = "ALREADY_TERMINAL"])
           \/ /\ ~Ended(runs[k]) /\ runs[k].cancel /= None
              /\ UNCHANGED <<runs, applied>>
              /\ Reply(c, [a EXCEPT !.request = runs[k].cancel, !.disposition = "EXISTING"])
           \/ /\ ~Ended(runs[k]) /\ runs[k].cancel = None
              /\ Len(runs[k].log) < MaxVersion
              /\ runs' = [runs EXCEPT ![k].log = Logged(k, "CANCEL_REQUESTED"),
                                      ![k].cancel = call[c].arg]
              /\ applied' = applied \cup {c}
              /\ Reply(c, [a EXCEPT !.request = call[c].arg, !.disposition = "REQUESTED"])
        /\ UNCHANGED drafts

Acknowledge(c) ==
    LET k == call[c].arg
    IN  /\ c \in inbox /\ call[c].op = "ACK"
        /\ Ended(runs[k])
        /\ runs' = [runs EXCEPT ![k].ack = TRUE]
        /\ applied' = IF runs[k].ack THEN applied ELSE applied \cup {c}
        /\ Reply(c, [Data(k) EXCEPT !.terminal = k])
        /\ UNCHANGED drafts

\* A definite refusal: nothing is known under the name, or it is not taken now.
Refuse(c) ==
    /\ c \in inbox
    /\ Reply(c, Remote)
    /\ UNCHANGED <<runs, drafts, applied>>

\* A read asks two queries; the run may move on between them.
Draft(c) ==
    /\ c \in inbox /\ ~mutates(call[c].op)
    /\ drafts[c] = None
    /\ Known(KeyIn(c))
    /\ drafts' = [drafts EXCEPT ![c] = runs[KeyIn(c)]]
    /\ UNCHANGED <<daemonVars, runs, call, inbox, answer, applied>>

StatusOf(ph) == CASE ph = "EVIDENCE_FINALIZED" -> "FINALIZING"
                  [] ph = "COMPLETED" -> "FINAL"
                  [] ph = "CANCELLED" -> "STOPPED"
                  [] OTHER -> "CURRENT"

Answer(c) ==
    LET k == KeyIn(c)
        first == drafts[c]
        now == runs[k]
        bundle == IF StatusOf(PhaseOf(now)) \in {"FINALIZING", "FINAL"} THEN k ELSE None
    IN  /\ c \in inbox /\ drafts[c] /= None
        /\ drafts' = [drafts EXCEPT ![c] = None]
        /\ Reply(c, [Data(k) EXCEPT !.envelope = first.envelope, !.phase = PhaseOf(first),
                        !.version = Len(first.log), !.latest = Len(now.log),
                        !.status = StatusOf(PhaseOf(now)), !.complete = Ended(now),
                        !.bundle = bundle, !.signed = bundle,
                        !.terminal = IF Ended(now) THEN k ELSE None])
        /\ UNCHANGED <<runs, applied>>

\* An answer cut short or too large, one for another run, one whose bundle is
\* not the one it is announced with.
Garble(c) ==
    /\ answer[c] /= None /\ answer[c].kind = "DATA" /\ At(c, "WAIT")
    /\ \E a \in {Garbage} \cup {[answer[c] EXCEPT !.run = k] : k \in Keys}
                \cup {[answer[c] EXCEPT !.signed = k] : k \in Keys} :
          answer' = [answer EXCEPT ![c] = a]
    /\ UNCHANGED <<daemonVars, runs, call, inbox, drafts, applied>>

\* A run moves on.
RunMoves(k) ==
    /\ Known(k) /\ ~Ended(runs[k]) /\ Len(runs[k].log) < MaxVersion
    /\ \E ph \in CASE PhaseOf(runs[k]) = "ADMITTED" -> {"EVIDENCE_FINALIZED"}
                   [] PhaseOf(runs[k]) = "EVIDENCE_FINALIZED" -> {"COMPLETED"}
                   [] OTHER -> {"CANCELLED"} :
          runs' = [runs EXCEPT ![k].log = Logged(k, ph)]
    /\ UNCHANGED <<daemonVars, call, wireVars, applied>>

\* Runmill dies with what it had not finished; its socket may stay behind.
Stop ==
    /\ serving
    /\ serving' = FALSE
    /\ inbox' = {} /\ drafts' = [c \in Calls |-> None]
    /\ \/ UNCHANGED <<registry, sock>>
       \/ registry' = "NONE" /\ sock' = [inode |-> 0, private |-> TRUE]
    /\ UNCHANGED <<boots, runs, call, answer, applied>>

\* Another process takes its place behind the same path.
Start ==
    /\ ~serving /\ boots <= MaxRestart
    /\ serving' = TRUE /\ boots' = boots + 1
    /\ registry' \in {"V1", "V2", "OPEN"}
    /\ \E private \in BOOLEAN : sock' = [inode |-> boots + 1, private |-> private]
    /\ UNCHANGED <<runs, call, wireVars, applied>>

-----------------------------------------------------------------------------
Client(c) ==
    \/ read_registry(c)
    \/ validate_socket(c)
    \/ Connect(c)
    \/ ConnectTimeout(c)
    \/ validate_connected_socket(c)
    \/ Write(c)
    \/ WriteInterrupted(c)
    \/ WireTimeout(c)
    \/ ResponseLost(c)
    \/ ReadAnswer(c)

Runmill(c) ==
    \/ Submit(c)
    \/ Cancel(c)
    \/ Acknowledge(c)
    \/ Refuse(c)
    \/ Draft(c)
    \/ Answer(c)
    \/ Garble(c)

\* What goes on once the calls are made, unless Runmill is replaced.
ServiceStep ==
    \/ \E c \in Calls : Client(c) \/ Runmill(c)
    \/ \E k \in Keys : RunMoves(k)

ClientNext ==
    \/ \E c \in Calls : \E op \in Ops : \E arg \in Args(op) : Begin(c, op, arg)
    \/ ServiceStep
    \/ Stop
    \/ Start

ClientSpec == ClientInit /\ [][ClientNext]_clientVars

-----------------------------------------------------------------------------
(* Properties. *)

\* Every call is at a known step, ends with an outcome, and only a mutating
\* one ends in doubt (runmill_control.rs:2034).
ClientTypeOK ==
    /\ registry \in {"NONE", "V1", "V2", "OPEN"}
    /\ inbox \subseteq Calls /\ applied \subseteq Calls
    /\ \A c \in Calls :
          /\ call[c].pc \in {"IDLE", "REGISTRY", "SOCKET", "CONNECT", "RECHECK", "WRITE",
                             "WAIT", "DONE"}
          /\ (call[c].result = "AMBIGUOUS") => mutates(call[c].op)
          /\ (call[c].result = "NONE") <=> (call[c].pc /= "DONE")

Done(c, result) == At(c, "DONE") /\ call[c].result = result

\* A mutating call that ends with anything but success or an ambiguous outcome
\* has changed nothing and never will: no request of it is on its way to a
\* process that could still apply it.  A caller that retries on such an error
\* with a new request cannot cause a second effect.
DefiniteMeansUnapplied ==
    \A c \in Calls :
       (mutates(call[c].op) /\ At(c, "DONE") /\ call[c].result \notin {"OK", "AMBIGUOUS"})
          => c \notin inbox \cup applied

\* A submission that succeeded is held by Runmill under its own payload, a
\* cancellation that succeeded is the one Runmill holds or came too late, and
\* an acknowledged outcome stays acknowledged.
OkIsHeld ==
    \A c \in Calls : Done(c, "OK") =>
       CASE call[c].op = "SUBMIT" ->
              /\ Known(KeyIn(c))
              /\ PayloadOf[runs[KeyIn(c)].envelope] = PayloadOf[call[c].arg]
         [] call[c].op = "CANCEL" ->
              runs[KeyIn(c)].cancel = call[c].arg \/ Ended(runs[KeyIn(c)])
         [] call[c].op = "ACK" -> runs[KeyIn(c)].ack
         [] OTHER -> TRUE

\* A submission recovered after its answer was lost is this very envelope's:
\* not another order under the same key, not the same order signed again.
RecoveryIsProof ==
    \A c \in Calls : (call[c].op = "RECONCILE" /\ Done(c, "OK"))
        => runs[KeyIn(c)].envelope = call[c].arg

\* What a caller reads of a run is one moment of it: the phase is the one the
\* run had at the sequence the answer names, although Runmill asked twice.
ReadIsOneMoment ==
    \A c \in Calls : (call[c].op \in {"GET", "RECONCILE"} /\ Done(c, "OK"))
        => /\ call[c].value.run = KeyIn(c)
           /\ call[c].value.phase = runs[KeyIn(c)].log[call[c].value.latest]

\* Evidence that claims to be complete is of a run that ended and holds that
\* run's terminal bundle.  For a FINAL view the first part is the daemon's
\* word, which the client's validation takes; the second part is checked.
CompleteMeansEnded ==
    \A c \in Calls : (call[c].op = "EVIDENCE" /\ Done(c, "OK"))
        => /\ call[c].value.complete => call[c].value.phase \in TerminalPhases
           /\ call[c].value.phase \in TerminalPhases =>
                 Ended(runs[KeyIn(c)]) /\ call[c].value.terminal = KeyIn(c)

\* A request is only ever given to the process whose socket was looked at,
\* however often Runmill was replaced in between.
SentWhereLooked == \A c \in inbox \cup applied : call[c].conn = call[c].seen

\* What a finished call tells its caller is proof: the parts above together.
AnswersAreProof ==
    /\ ClientTypeOK
    /\ OkIsHeld
    /\ RecoveryIsProof
    /\ ReadIsOneMoment
    /\ CompleteMeansEnded
    /\ SentWhereLooked
=============================================================================
