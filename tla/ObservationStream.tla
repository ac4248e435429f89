------------------------- MODULE ObservationStream -------------------------
(***************************************************************************)
(* The observation of one authoritative Runmill run: a stream row with a   *)
(* cursor, one OBSERVE_RUNMILL_RUN job at a time born with an immutable    *)
(* checkpoint, and the transaction that retains what the job read, moves   *)
(* the cursor and completes the job together.                              *)
(*                                                                         *)
(* A reactor reads Runmill twice without locks (get-run, then one page of  *)
(* events after the checkpoint's cursor) and commits later.  In between it *)
(* may stall, crash, lose its lease or lose the control session.  Runmill  *)
(* (external) appends events, compacts old ones and may answer from an     *)
(* earlier state.  Sequences and epochs are bounded by constants; the code *)
(* bounds both by 2^53 - 1.                                                *)
(***************************************************************************)
EXTENDS Naturals, FiniteSets

CONSTANTS
    Reactors,
    PageLimit,      \* RUNMILL_OBSERVATION_EVENT_LIMIT
    MaxAttempts,    \* the job's max_attempts
    MaxEpoch,       \* the last observation epoch
    MaxSequence,    \* bound: events of the run
    MaxSession      \* bound: control sessions opened one after another

ASSUME ObservationAssumption ==
    /\ PageLimit \in Nat \ {0} /\ MaxAttempts \in Nat \ {0}
    /\ MaxEpoch \in Nat /\ MaxSequence \in Nat \ {0} /\ MaxSession \in Nat

VARIABLES
    run,        \* Runmill's run (external)
    session,    \* the newest control session of the worker, and whether it lives
    stream,     \* runmill_run_observation_streams
    job,        \* the job of the stream's newest checkpoint
    events,     \* raw_runmill_control_events: retained sequences
    results,    \* runmill_run_observation_results
    facts,      \* runmill_observation_terminal_failure_facts: epochs that died
    escalation, \* the dead letter of the newest job
    view        \* [Reactors -> View]  what a reactor holds in memory

obsVars == <<run, session, stream, job, events, results, facts, escalation, view>>

Sequences == 0..MaxSequence
Epochs == 0..MaxEpoch
Run == [latest : Sequences, compacted : Sequences, terminal : BOOLEAN]
Session == [id : 0..MaxSession, live : BOOLEAN]
Stream == [state : {"NONE", "ACTIVE", "TERMINAL_READY", "ESCALATED"},
           after : Sequences, epoch : Epochs, pinned : BOOLEAN]
JobRow == [status : {"NONE", "PENDING", "RUNNING", "RETRY", "COMPLETED", "DEAD"},
           fence : Nat, attempts : 0..MaxAttempts, leased : BOOLEAN,
           session : 0..MaxSession]
\* A page's events are the contiguous sequences first..next; first > next is
\* an empty page.
Page == [first : 0..(MaxSequence + 1), next : Sequences, more : BOOLEAN,
         gap : BOOLEAN, latest : Sequences, terminal : BOOLEAN]
Result == [epoch : Epochs, after : Sequences, next : Sequences,
           disposition : {"ADVANCED", "TERMINAL_READY", "BLOCKED_GAP"},
           bothTerminal : BOOLEAN]
View == [phase : {"idle", "claimed", "got", "paged"}, epoch : Epochs, fence : Nat,
         after : Sequences,
         got : [latest : Sequences, terminal : BOOLEAN], page : Page]

NoPage == [first |-> 0, next |-> 0, more |-> FALSE, gap |-> FALSE,
           latest |-> 0, terminal |-> FALSE]
Idle == [phase |-> "idle", epoch |-> 0, fence |-> 0, after |-> 0,
         got |-> [latest |-> 0, terminal |-> FALSE], page |-> NoPage]

Init ==
    /\ run = [latest |-> 1, compacted |-> 0, terminal |-> FALSE]
    /\ session = [id |-> 0, live |-> FALSE]
    /\ stream = [state |-> "NONE", after |-> 0, epoch |-> 0, pinned |-> FALSE]
    /\ job = [status |-> "NONE", fence |-> 0, attempts |-> 0, leased |-> FALSE,
              session |-> 0]
    /\ events = {}
    /\ results = {} /\ facts = {}
    /\ escalation = "none"
    /\ view = [r \in Reactors |-> Idle]

-----------------------------------------------------------------------------
(***************************************************************************)
(* The environment: Runmill, and the worker's control sessions.            *)
(***************************************************************************)
\* The last event of a run is the one that makes it terminal.
RunAppends ==
    /\ ~run.terminal /\ run.latest < MaxSequence
    /\ \E t \in BOOLEAN :
           run' = [run EXCEPT !.latest = @ + 1, !.terminal = t]
    /\ UNCHANGED <<session, stream, job, events, results, facts, escalation, view>>

RunCompacts ==
    /\ run.compacted < run.latest
    /\ run' = [run EXCEPT !.compacted = @ + 1]
    /\ UNCHANGED <<session, stream, job, events, results, facts, escalation, view>>

OpenSession ==
    /\ ~session.live /\ session.id < MaxSession
    /\ session' = [id |-> session.id + 1, live |-> TRUE]
    /\ UNCHANGED <<run, stream, job, events, results, facts, escalation, view>>

\* A session is closed, revoked or expires; the last one stays.
EndSession ==
    /\ session.live /\ session.id < MaxSession
    /\ session' = [session EXCEPT !.live = FALSE]
    /\ UNCHANGED <<run, stream, job, events, results, facts, escalation, view>>

-----------------------------------------------------------------------------
(***************************************************************************)
(* The event page contract of the control client.                          *)
(***************************************************************************)
Least(a, b) == IF a < b THEN a ELSE b

\* Runmill's page after a cursor, from a state of the run (external).
PageOf(s, after) ==
    LET gap   == s.compacted > after
        first == IF gap THEN s.compacted + 1 ELSE after + 1
        next  == IF first > s.latest THEN s.latest
                 ELSE Least(first + PageLimit - 1, s.latest)
    IN [first |-> first, next |-> next, more |-> next < s.latest, gap |-> gap,
        latest |-> s.latest, terminal |-> s.terminal]

Empty(page) == page.first > page.next
PageEvents(page) == {n \in Sequences : page.first <= n /\ n <= page.next}

ValidForRequest(page, after) ==
    /\ page.gap => page.first > after + 1 /\ ~Empty(page)
    /\ ~page.gap => Empty(page) \/ page.first = after + 1
    /\ Empty(page) => ~page.gap /\ after = page.latest /\ page.next = page.latest /\ ~page.more
    /\ page.more => Cardinality(PageEvents(page)) = PageLimit /\ page.next < page.latest
    /\ ~page.more => page.next = page.latest

\* The later read may not be older than the earlier one.
DoesNotRegress(got, page) == page.latest >= got.latest

-----------------------------------------------------------------------------
(***************************************************************************)
(* The stream, and the producer that gives it one job at a time.           *)
(***************************************************************************)
\* Installing the same binding again answers with the row that exists.
CreateStream ==
    /\ stream.state = "NONE"
    /\ stream' = [stream EXCEPT !.state = "ACTIVE"]
    /\ UNCHANGED <<run, session, job, events, results, facts, escalation, view>>

HasResult(e) == \E x \in results : x.epoch = e

\* The stream's job died with an owned escalation and retained nothing.
DeadPinned ==
    /\ stream.state = "ACTIVE" /\ stream.pinned
    /\ job.status = "DEAD" /\ escalation = "open"
    /\ ~HasResult(stream.epoch)

RecordFailureFact == facts' = facts \cup {stream.epoch}

EscalateDeadPinned ==
    /\ DeadPinned
    /\ RecordFailureFact
    /\ stream' = [stream EXCEPT !.state = "ESCALATED", !.pinned = FALSE]
    /\ UNCHANGED <<run, session, job, events, results, escalation, view>>

Due == stream.state = "ACTIVE" /\ ~stream.pinned /\ session.live

\* Only this creates jobs, and its idempotency key is the run, the epoch and
\* the cursor; the epoch is new, so the insert never meets an older job.
ScheduleJob ==
    /\ Due
    /\ stream.epoch < MaxEpoch
    /\ stream' = [stream EXCEPT !.epoch = @ + 1, !.pinned = TRUE]
    /\ job' = [status |-> "PENDING", fence |-> 0, attempts |-> 0, leased |-> FALSE,
               session |-> session.id]
    /\ escalation' = "none"
    /\ UNCHANGED <<run, session, events, results, facts, view>>

\* One producer pass: dead work is handed over before anything is scheduled.
Produce == EscalateDeadPinned \/ (~DeadPinned /\ ScheduleJob)

-----------------------------------------------------------------------------
(***************************************************************************)
(* Claims of the observation job.                                          *)
(***************************************************************************)
Claimable == job.status \in {"PENDING", "RETRY"} \/ (job.status = "RUNNING" /\ ~job.leased)

\* The route of the job: the stream still waits for it and the control
\* session of its checkpoint lives.
RouteValid ==
    /\ stream.state = "ACTIVE" /\ stream.pinned
    /\ session.live /\ job.session = session.id

Claim(r) ==
    /\ view[r].phase = "idle"
    /\ Claimable /\ RouteValid
    /\ job.attempts < MaxAttempts
    /\ job' = [job EXCEPT !.status = "RUNNING", !.fence = @ + 1, !.attempts = @ + 1,
                          !.leased = TRUE]
    /\ view' = [view EXCEPT ![r] = [Idle EXCEPT !.phase = "claimed", !.epoch = stream.epoch,
                                                !.fence = job.fence + 1,
                                                !.after = stream.after]]
    /\ UNCHANGED <<run, session, stream, events, results, facts, escalation>>

\* A due job without a valid route, or with a lapsed last attempt, is claimed
\* only to be dead-lettered.
Reject ==
    /\ Claimable
    /\ \/ ~RouteValid
       \/ job.status = "RUNNING" /\ job.attempts = MaxAttempts
    /\ job' = [job EXCEPT !.status = "DEAD", !.fence = @ + 1, !.attempts = MaxAttempts,
                          !.leased = FALSE]
    /\ escalation' = "open"
    /\ UNCHANGED <<run, session, stream, events, results, facts, view>>

LeaseLapses ==
    /\ job.status = "RUNNING" /\ job.leased
    /\ job' = [job EXCEPT !.leased = FALSE]
    /\ UNCHANGED <<run, session, stream, events, results, facts, escalation, view>>

Crash(r) ==
    /\ view[r].phase # "idle"
    /\ view' = [view EXCEPT ![r] = Idle]
    /\ UNCHANGED <<run, session, stream, job, events, results, facts, escalation>>

-----------------------------------------------------------------------------
(***************************************************************************)
(* One observation.                                                        *)
(***************************************************************************)
HoldsClaim(r) ==
    /\ view[r].epoch = stream.epoch
    /\ job.status = "RUNNING" /\ job.leased /\ job.fence = view[r].fence

\* Everything the commit depends on, locked and read again.
ExactAuthority(r) == HoldsClaim(r) /\ RouteValid

\* preflight_authority precedes the reads and locks nothing.
GetRun(r) ==
    /\ view[r].phase = "claimed"
    /\ ExactAuthority(r)
    /\ view' = [view EXCEPT ![r].phase = "got",
                            ![r].got = [latest |-> run.latest, terminal |-> run.terminal]]
    /\ UNCHANGED <<run, session, stream, job, events, results, facts, escalation>>

\* Runmill answers from its present state or, late, from an earlier one.
Answers ==
    {run} \cup {[run EXCEPT !.latest = n, !.terminal = FALSE] :
                    n \in run.compacted..(run.latest - 1)}

\* An answer that breaks the contract of the page, or that is older than the
\* get-run answer, fails the attempt like any other error.
ListRunEvents(r) ==
    /\ view[r].phase = "got"
    /\ \E s \in Answers :
           LET page == PageOf(s, view[r].after)
           IN /\ ValidForRequest(page, view[r].after)
              /\ DoesNotRegress(view[r].got, page)
              /\ view' = [view EXCEPT ![r].phase = "paged", ![r].page = page]
    /\ UNCHANGED <<run, session, stream, job, events, results, facts, escalation>>

\* A snapshot is retained only within its own boundary.
SnapshotValid(page) == PageEvents(page) \subseteq 1..page.latest

\* An event that is already there keeps its first page and is linked again.
NewEvents(page) == PageEvents(page) \ events

\* The two control snapshots and the events of the page.
RecordObservation(r) ==
    /\ SnapshotValid(view[r].page)
    /\ events' = events \cup NewEvents(view[r].page)

ResultOf(r, disposition) ==
    [epoch |-> view[r].epoch, after |-> view[r].after, next |-> view[r].page.next,
     disposition |-> disposition,
     bothTerminal |-> view[r].got.terminal /\ view[r].page.terminal]

\* Fault: a finished run is complete although more pages are waiting.
TerminalSeen(page) == page.terminal

TerminalReady(page) == ~page.more /\ page.next = page.latest /\ page.terminal

\* The stream row must still be the one the lock read: same job, same
\* checkpoint, same cursor and epoch.
CursorAdvance(r) ==
    LET page == view[r].page
        done == TerminalReady(page)
    IN /\ page.next >= stream.after
       /\ results' = results \cup {ResultOf(r, IF done THEN "TERMINAL_READY" ELSE "ADVANCED")}
       /\ stream' = [stream EXCEPT !.after = page.next, !.pinned = FALSE,
                         !.state = IF done THEN "TERMINAL_READY" ELSE @]
       /\ job' = [job EXCEPT !.status = "COMPLETED", !.leased = FALSE]
       /\ UNCHANGED escalation

\* Fault: a compacted page moves the cursor like any other.
GapSkipped(r) == CursorAdvance(r)

\* A compacted page is kept as evidence; the cursor stays before the hole.
GapEscalation(r) ==
    /\ results' = results \cup {ResultOf(r, "BLOCKED_GAP")}
    /\ stream' = [stream EXCEPT !.state = "ESCALATED", !.pinned = FALSE]
    /\ job' = [job EXCEPT !.status = "DEAD", !.leased = FALSE]
    /\ escalation' = "open"

PersistObservations(r) ==
    /\ view[r].phase = "paged"
    /\ ExactAuthority(r)
    /\ RecordObservation(r)
    /\ IF view[r].page.gap THEN GapEscalation(r) ELSE CursorAdvance(r)
    /\ view' = [view EXCEPT ![r] = Idle]
    /\ UNCHANGED <<run, session, facts>>

\* The reactor records a failed attempt under its claim: a retry, or the
\* dead letter and its escalation when the attempts are used up.
FailAttempt(r) ==
    /\ view[r].phase # "idle" /\ HoldsClaim(r)
    /\ job' = [job EXCEPT !.leased = FALSE,
                   !.status = IF job.attempts < MaxAttempts THEN "RETRY" ELSE "DEAD"]
    /\ escalation' = IF job.attempts < MaxAttempts THEN escalation ELSE "open"
    /\ view' = [view EXCEPT ![r] = Idle]
    /\ UNCHANGED <<run, session, stream, events, results, facts>>

ClaimRefused(r) ==
    /\ view[r].phase # "idle" /\ ~HoldsClaim(r)
    /\ view' = [view EXCEPT ![r] = Idle]
    /\ UNCHANGED <<run, session, stream, job, events, results, facts, escalation>>

-----------------------------------------------------------------------------
ReactorStep(r) ==
    Claim(r) \/ GetRun(r) \/ ListRunEvents(r) \/ PersistObservations(r)
    \/ FailAttempt(r) \/ ClaimRefused(r) \/ Crash(r)

RunStep == RunAppends \/ RunCompacts
SessionStep == OpenSession \/ EndSession

Next ==
    \/ RunStep \/ SessionStep
    \/ CreateStream \/ Produce \/ Reject \/ LeaseLapses
    \/ \E r \in Reactors : ReactorStep(r)

Spec == Init /\ [][Next]_obsVars

\* Every reactor keeps polling, finishes what it holds or gives it up; a
\* lease that nobody renews lapses.  A control session is opened again by the
\* worker.  Nothing is assumed of Runmill.
Fairness ==
    /\ WF_obsVars(Produce) /\ WF_obsVars(Reject) /\ WF_obsVars(LeaseLapses)
    /\ WF_obsVars(OpenSession)
    /\ \A r \in Reactors : WF_obsVars(Claim(r)) /\ WF_obsVars(ReactorStep(r) /\ view[r].phase # "idle")

FairSpec == Spec /\ Fairness

-----------------------------------------------------------------------------
\* Every row keeps its domain.
ObsTypeOK ==
    /\ run \in Run /\ session \in Session /\ stream \in Stream
    /\ job \in JobRow /\ events \subseteq Sequences /\ results \subseteq Result
    /\ facts \subseteq Epochs
    /\ escalation \in {"none", "open"} /\ view \in [Reactors -> View]

\* No event is skipped: everything up to the cursor is retained, through
\* crashes, reclaimed jobs, late answers and compaction, and a page beyond a
\* hole is only kept beside a stream that stopped before it.
NothingSkipped ==
    /\ 1..stream.after \subseteq events
    /\ (\E n \in events : n > stream.after) => stream.state = "ESCALATED"

\* The results form one chain: each starts where the previous one ended, one
\* per checkpoint, and the cursor is the end of the chain.
ResultsChain ==
    LET moved == {x \in results : x.disposition # "BLOCKED_GAP"}
    IN /\ \A x, y \in results : x.epoch = y.epoch => x = y
       /\ \A x, y \in moved : x.epoch < y.epoch => x.next <= y.after
       /\ \A x \in results : x.after = 0 \/ \E y \in moved : y.epoch < x.epoch /\ y.next = x.after
       /\ stream.after = 0 \/ \E x \in moved : x.next = stream.after

\* A pinned stream has exactly its own job: live, or dead and owned by an
\* open escalation that the producer will find.
PinnedIsOwned ==
    /\ stream.pinned => /\ stream.state = "ACTIVE"
                        /\ job.status \in {"PENDING", "RUNNING", "RETRY"} \/ DeadPinned
    /\ ~stream.pinned => job.status \in {"NONE", "COMPLETED", "DEAD"}

\* A stream that stopped is explained by exactly one immutable record of its
\* last checkpoint: the retained page with the hole, or the failure fact of a
\* job that retained nothing.
EndIsExplained ==
    LET holes == {x.epoch : x \in {y \in results : y.disposition = "BLOCKED_GAP"}}
    IN /\ facts \cap {x.epoch : x \in results} = {}
       /\ facts \cup holes = IF stream.state = "ESCALATED" THEN {stream.epoch} ELSE {}

\* A stream is TERMINAL_READY only when Runmill's run is over and its whole
\* history up to the end is retained.
CompleteIsTrue ==
    stream.state = "TERMINAL_READY" => run.terminal /\ stream.after = run.latest

\* A step of a reactor moves the cursor only under the job's present claim,
\* forward, and leaves an ended stream alone.
CursorIsFenced ==
    [][/\ stream'.after # stream.after =>
             \E r \in Reactors : HoldsClaim(r) /\ view'[r] = Idle /\ stream'.after > stream.after
       /\ stream.state \in {"TERMINAL_READY", "ESCALATED"} => stream' = stream]_obsVars

\* How far the retained events reach without a hole.
Prefix == CHOOSE n \in Sequences : 1..n \subseteq events /\ n + 1 \notin events

\* The observation implements an ordered, gap-free read of the run's log.
Log == INSTANCE EventLog WITH
    produced <- run.latest, closed <- run.terminal, read <- Prefix,
    outcome <- CASE stream.state = "TERMINAL_READY" -> "complete"
                 [] stream.state = "ESCALATED" -> "abandoned"
                 [] OTHER -> "open"
ImplementsLog == Log!LogSpec

\* What the observation keeps true of its own rows: nothing is skipped, the
\* results are one chain, a pinned stream has its job or an owner, an end is
\* explained, and a complete stream is complete.
ObservationIsSound ==
    /\ ObsTypeOK /\ NothingSkipped /\ ResultsChain
    /\ PinnedIsOwned /\ EndIsExplained /\ CompleteIsTrue
=============================================================================
