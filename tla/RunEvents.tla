------------------------------ MODULE RunEvents ------------------------------
(***************************************************************************)
(* Ingestion of worker events (ingest_run_event) beside the other writer   *)
(* of a run's row, the cancellation handler.  Raw events are retained in   *)
(* whatever order they arrive; only the contiguous prefix of them is       *)
(* projected into the run.                                                 *)
(*                                                                         *)
(* The ingestion holds the session, the worker and the run row to the end  *)
(* of its transaction, so it is one step.  The cancellation handler reads  *)
(* the run, talks to the worker without a lock, and commits against the    *)
(* state and the version it read: two steps.                               *)
(***************************************************************************)
EXTENDS Naturals, FiniteSets

CONSTANTS
    Wire,           \* events a worker may deliver, in any order, any number of times
    MaxSeq,         \* bound on the sequences delivered
    MaxCancels      \* bound on the cancellation observations committed

EventTypes == {"run.adopted", "run.running", "run.progressed", "run.waiting_approval",
               "run.verifying", "run.succeeded", "run.failed", "run.refused",
               "run.cancel_requested", "run.cancelled", "run.quarantined", "run.unknown"}

\* id: external_event_id and cursor, unique in the run; schema: supported or
\* not; binds: the envelope names this run, attempt, order and version.
WireEvent == [id : Nat, seq : Nat, ver : Nat, type : EventTypes, schema : BOOLEAN,
              binds : BOOLEAN]

ASSUME RunEventsAssumption ==
    /\ MaxSeq \in Nat \ {0} /\ MaxCancels \in Nat
    /\ Wire \subseteq WireEvent /\ \A e \in Wire : e.seq <= MaxSeq

VARIABLES
    raw,       \* raw_run_events of the run
    applications, \* run_event_applications: the projected sequences
    run,       \* the runs row: state, last_event_sequence, aggregate_version
    session,   \* the worker session that owns the run: "ACTIVE", "CLOSED", or
               \* "STALE" once the worker's generation has moved past it
    binding,   \* what the cancellation handler read of the run, or NoBinding
    observed   \* cancellation observations committed

runEventVars == <<raw, applications, run, session, binding, observed>>

Open == {"ADOPTED", "RUNNING", "WAITING_APPROVAL", "VERIFYING"}
TerminalStates == {"SUCCEEDED", "FAILED", "REFUSED", "CANCELLED", "QUARANTINED"}
RunStates == Open \cup {"CANCEL_REQUESTED"} \cup TerminalStates
Run == [state : RunStates, seq : 0..MaxSeq, ver : Nat \ {0}]
NoBinding == [state |-> "NONE", ver |-> 0]

RunEventsInit ==
    /\ raw = {} /\ applications = {}
    /\ run = [state |-> "ADOPTED", seq |-> 0, ver |-> 1]
    /\ session = "ACTIVE"
    /\ binding = NoBinding /\ observed = 0

-----------------------------------------------------------------------------
(***************************************************************************)
(* Projection.                                                             *)
(***************************************************************************)
\* Fault: everything but a repeated terminal state is a transition.
AnyTransition(from, to) == from # to \/ from \in TerminalStates

valid_run_transition(from, to) ==
    \/ from = to
    \/ from = "ADOPTED" /\ to \in RunStates \ {"ADOPTED"}
    \/ from \in {"RUNNING", "WAITING_APPROVAL"} /\ to \in RunStates \ {"ADOPTED"}
    \/ from = "VERIFYING" /\ to \in RunStates \ {"ADOPTED", "RUNNING"}
    \/ from = "CANCEL_REQUESTED" /\ to \in {"CANCELLED", "FAILED", "QUARANTINED"}

Target(state, type) ==
    CASE type = "run.adopted" -> "ADOPTED"
      [] type = "run.running" -> "RUNNING"
      [] type = "run.progressed" -> state
      [] type = "run.waiting_approval" -> "WAITING_APPROVAL"
      [] type = "run.verifying" -> "VERIFYING"
      [] type = "run.succeeded" -> "SUCCEEDED"
      [] type = "run.failed" -> "FAILED"
      [] type = "run.refused" -> "REFUSED"
      [] type = "run.cancel_requested" -> "CANCEL_REQUESTED"
      [] type = "run.cancelled" -> "CANCELLED"
      [] type = "run.quarantined" -> "QUARANTINED"
      [] OTHER -> "NONE"

\* An event of a type the reducer does not know, or one that would leave the
\* state machine, blocks.
project_state(state, type) ==
    type # "run.unknown" /\ valid_run_transition(state, Target(state, type))

decode_projection(e, r) ==
    e.schema /\ e.binds /\ project_state(r.state, e.type)

\* The next retained event, when nothing blocks it.
Applicable(e, r) == decode_projection(e, r) /\ e.ver = r.ver + 1

Apply(e, r) == [state |-> Target(r.state, e.type), seq |-> e.seq, ver |-> e.ver]

\* The loop stops at the first sequence that is missing or blocked.
drain_contiguous_events(events, r0) ==
    LET D[n \in 0..MaxSeq] ==
          IF n = 0 THEN r0
          ELSE LET next == {e \in events : e.seq = D[n - 1].seq + 1 /\ Applicable(e, D[n - 1])}
               IN  IF next = {} THEN D[n - 1]
                   ELSE Apply(CHOOSE e \in next : TRUE, D[n - 1])
    IN  D[MaxSeq]

-----------------------------------------------------------------------------
(***************************************************************************)
(* Ingestion.                                                              *)
(***************************************************************************)
Validate(e) == e.seq > 0 /\ e.ver > 0

\* The session is open and its generation the worker's current one; the run
\* is bound to this session for ever.
lock_worker_and_run == session = "ACTIVE"

\* The rows under one of the event's identities.
Collisions(e) == {f \in raw : f.id = e.id \/ f.seq = e.seq}

\* The event is new, or the very event that is retained.
store_raw_event(e) == Collisions(e) \subseteq {e}

ingest_run_event(e) ==
    /\ Validate(e) /\ lock_worker_and_run /\ store_raw_event(e)
    /\ raw' = raw \cup {e}
    /\ run' = drain_contiguous_events(raw', run)
    /\ applications' = applications \cup (run.seq + 1)..run'.seq
    /\ UNCHANGED <<session, binding, observed>>

\* The session closes or expires, or its worker gets a new generation.
EndSession ==
    /\ session = "ACTIVE" /\ session' \in {"CLOSED", "STALE"}
    /\ UNCHANGED <<raw, applications, run, binding, observed>>

-----------------------------------------------------------------------------
(***************************************************************************)
(* The cancellation handler.                                               *)
(***************************************************************************)
ReadBinding ==
    /\ observed < MaxCancels /\ binding = NoBinding
    /\ run.state \notin TerminalStates
    /\ binding' = [state |-> run.state, ver |-> run.ver]
    /\ UNCHANGED <<raw, applications, run, session, observed>>

CommitIsFenced == run.state = binding.state /\ run.ver = binding.ver

\* What the worker answered: cancelling, or any way the run may have ended.
CommitObservation ==
    /\ binding # NoBinding /\ CommitIsFenced
    /\ \E state \in {"CANCEL_REQUESTED"} \cup TerminalStates :
           run' = [run EXCEPT !.state = state, !.ver = binding.ver + 1]
    /\ observed' = observed + 1 /\ binding' = NoBinding
    /\ UNCHANGED <<raw, applications, session>>

\* The commit found the run changed, the call failed, or the process died.
DropBinding ==
    /\ binding # NoBinding
    /\ binding' = NoBinding
    /\ UNCHANGED <<raw, applications, run, session, observed>>

RunEventsNext ==
    \/ \E e \in Wire : ingest_run_event(e)
    \/ EndSession
    \/ ReadBinding \/ CommitObservation \/ DropBinding

RunEventsSpec == RunEventsInit /\ [][RunEventsNext]_runEventVars

-----------------------------------------------------------------------------
\* The type of every variable (raw_run_events, run_event_applications, runs).
RunEventsTypeOK ==
    /\ raw \subseteq {e \in Wire : e.seq \in 1..MaxSeq}
    /\ applications \subseteq 1..MaxSeq
    /\ run \in Run
    /\ session \in {"ACTIVE", "CLOSED", "STALE"}
    /\ binding \in {NoBinding} \cup [state : RunStates, ver : Nat]
    /\ observed \in 0..MaxCancels

\* Whatever the order of delivery, the projected events are exactly the
\* contiguous prefix up to the run's cursor, each was retained, supported and
\* bound to the run, and no two share a sequence, an identity or a version
\* (store_raw_event, drain_contiguous_events, decode_projection).
PrefixIsProjected ==
    /\ applications = 1..run.seq
    /\ \A n \in applications : \E e \in raw : e.seq = n /\ e.schema /\ e.binds
    /\ \A e, f \in raw :
          e # f => e.seq # f.seq /\ e.id # f.id
                   /\ (e.seq <= run.seq /\ f.seq <= run.seq => e.ver # f.ver)

\* Without a cancellation the run's state is what its projected events, taken
\* in sequence, make of ADOPTED (ingest_run_event, project_state).
ProjectionIsReplay ==
    observed = 0 =>
        LET At(n) == CHOOSE e \in raw : e.seq = n
            S[n \in 0..run.seq] ==
                IF n = 0 THEN "ADOPTED" ELSE Target(S[n - 1], At(n).type)
        IN  /\ run.state = S[run.seq]
            /\ \A n \in 1..run.seq : valid_run_transition(S[n - 1], S[n])

\* Delivery leaves nothing behind that could be projected: the event after
\* the cursor is missing or blocked, so the projection depends on which
\* events are retained and not on the order they came in
\* (drain_contiguous_events).
NothingLeftToDrain ==
    observed = 0 => \A e \in raw : e.seq = run.seq + 1 => ~Applicable(e, run)

\* Each version of the run is one projected event or one cancellation
\* observation: neither writer ever overwrites the other
\* (UPDATE_RUN_PROJECTION_SQL and the cancellation's UPDATE runs).
NoUpdateIsLost == run.ver = 1 + run.seq + observed

\* A run that has ended keeps its outcome, and one that is being cancelled
\* never goes back to work, whatever the worker delivers late
\* (valid_run_transition, and the states the cancellation binds).
OutcomeIsFinal ==
    [][/\ run.state \in TerminalStates => run'.state = run.state
       /\ run.state = "CANCEL_REQUESTED" => run'.state \notin Open]_runEventVars

\* The runs row is the replay of what the worker reported, whatever came
\* late, twice or out of order, and beside whichever cancellation: the
\* invariants above hold always, and an outcome is final.
RunIsReplay ==
    /\ [](/\ RunEventsTypeOK
          /\ PrefixIsProjected
          /\ ProjectionIsReplay
          /\ NothingLeftToDrain
          /\ NoUpdateIsLost)
    /\ OutcomeIsFinal
=============================================================================
