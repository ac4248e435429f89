------------------------------ MODULE EventLog ------------------------------
(***************************************************************************)
(* What the observation of a Runmill run promises, whatever crashes,       *)
(* reclaims and stale answers it goes through: the reader follows the      *)
(* run's events in order and without a hole, never past what the run       *)
(* produced; it declares itself complete only at the end of a closed log,  *)
(* and having ended it never reads again.                                  *)
(***************************************************************************)
EXTENDS Naturals

VARIABLES
    produced,   \* events the run has produced
    closed,     \* the run is terminal: nothing more is produced
    read,       \* the events 1..read are retained
    outcome     \* "open", "complete" or "abandoned"

logVars == <<produced, closed, read, outcome>>

LogInit == produced = 1 /\ ~closed /\ read = 0 /\ outcome = "open"

\* The event that closes the log is its last one.
Append ==
    /\ ~closed
    /\ produced' = produced + 1 /\ closed' \in BOOLEAN
    /\ UNCHANGED <<read, outcome>>

Read(n) ==
    /\ outcome = "open"
    /\ read < n /\ n <= produced
    /\ read' = n
    /\ UNCHANGED <<produced, closed, outcome>>

Complete ==
    /\ outcome = "open" /\ closed
    /\ outcome' = "complete" /\ read' = produced
    /\ UNCHANGED <<produced, closed>>

Abandon ==
    /\ outcome = "open" /\ outcome' = "abandoned"
    /\ UNCHANGED <<produced, closed, read>>

LogNext == Append \/ (\E n \in 1..produced : Read(n)) \/ Complete \/ Abandon

LogSpec == LogInit /\ [][LogNext]_logVars
=============================================================================
