----------------------- MODULE TerminalEvidenceProofs -----------------------
(***************************************************************************)
(* The observation of a Runmill run and the retention of its evidence, for *)
(* any number of reactors, verifiers, page limit, attempts, epochs,        *)
(* sequences and sessions: the observation's rows stay sound, its cursor   *)
(* is fenced, it implements the ordered, gap-free read of EventLog, and    *)
(* what is retained is proof of the run's end.                             *)
(*                                                                         *)
(* A reactor reads without locks and commits later, so the invariant of    *)
(* the rows is not inductive alone: what a reactor holds in memory has to  *)
(* be tied to the rows the commit will find.  ViewsFollow does it for the  *)
(* cursor, PagesAreRecent for the page, HistoryIsPast for the results.     *)
(* The steps are stated without the temporal operators, so that the        *)
(* composition with the retention can cite them.                           *)
(***************************************************************************)
EXTENDS TerminalEvidence, TLAPS

\* A checkpoint in memory is not ahead of the stream's; while the stream is
\* pinned to it, its cursor is the stream's.
ViewsFollow ==
    \A r \in Reactors : view[r].phase # "idle" =>
        /\ view[r].epoch <= stream.epoch
        /\ view[r].epoch = stream.epoch /\ stream.pinned => view[r].after = stream.after

\* A page in memory passed the page contract for its cursor, and what it says
\* of the run's end is still so.
PagesAreRecent ==
    \A r \in Reactors : view[r].phase = "paged" =>
        /\ ValidForRequest(view[r].page, view[r].after)
        /\ view[r].page.latest <= run.latest
        /\ view[r].page.terminal => run.terminal /\ view[r].page.latest = run.latest

\* The cursor is within the run and stands before a hole or the end; no
\* result is of a later checkpoint, of the pinned one, or beyond the cursor.
HistoryIsPast ==
    /\ stream.after <= run.latest /\ stream.after + 1 \notin events
    /\ \A x \in results :
           /\ x.epoch <= stream.epoch
           /\ x.epoch = stream.epoch => ~stream.pinned
           /\ x.disposition # "BLOCKED_GAP" => x.next <= stream.after

ObsInv == ObservationIsSound /\ ViewsFollow /\ PagesAreRecent /\ HistoryIsPast

-----------------------------------------------------------------------------
(* Pages.                                                                  *)

\* Whatever state of the run Runmill answers from, the page is well formed.
LEMMA PageType ==
    ASSUME NEW s \in Run, NEW after \in Sequences
    PROVE  PageOf(s, after) \in Page /\ PageOf(s, after).latest = s.latest
           /\ PageOf(s, after).terminal = s.terminal
BY ObservationAssumption DEF PageOf, Page, Run, Sequences, Least

\* A late answer is an earlier state of the run.
LEMMA AnswersAreEarlier ==
    ASSUME run \in Run, NEW s \in Answers
    PROVE  /\ s \in Run /\ s.latest <= run.latest
           /\ s.terminal => run.terminal /\ s.latest = run.latest
<1>1. CASE s = run
  BY <1>1 DEF Run, Sequences
<1>2. ASSUME NEW n \in run.compacted..(run.latest - 1),
             s = [run EXCEPT !.latest = n, !.terminal = FALSE]
      PROVE  s \in Run /\ s.latest <= run.latest /\ ~s.terminal
  <2>1. n \in Sequences /\ n <= run.latest
    BY ObservationAssumption DEF Run, Sequences
  <2> QED BY <1>2, <2>1 DEF Run
<1> QED BY <1>1, <1>2 DEF Answers

\* A page without a gap continues the cursor up to its own end.
LEMMA PageContinues ==
    ASSUME NEW page \in Page, NEW after \in Sequences, ValidForRequest(page, after), ~page.gap
    PROVE  /\ after <= page.next /\ page.next <= page.latest
           /\ \A n \in PageEvents(page) : after < n /\ n <= page.next
           /\ \A n \in Sequences : after < n /\ n <= page.next => n \in PageEvents(page)
BY ObservationAssumption DEF ValidForRequest, Empty, PageEvents, Page, Sequences

\* A page with a gap leaves the next event of the cursor out.
LEMMA PageSkips ==
    ASSUME NEW page \in Page, NEW after \in Sequences, ValidForRequest(page, after), page.gap
    PROVE  \A n \in PageEvents(page) : n > after + 1
BY ObservationAssumption DEF ValidForRequest, Empty, PageEvents, Page, Sequences

-----------------------------------------------------------------------------
(* The domains of the rows, action by action.                              *)
LEMMA TypeStep == ObsTypeOK /\ PagesAreRecent /\ [Next]_obsVars => ObsTypeOK'
<1> SUFFICES ASSUME ObsTypeOK, PagesAreRecent, [Next]_obsVars PROVE ObsTypeOK'
  OBVIOUS
<1> USE ObservationAssumption
<1>0. Idle \in View /\ Idle.phase = "idle"
  BY DEF Idle, View, NoPage, Page, Sequences, Epochs
<1>1. CASE RunStep
  <2>1. run' \in Run
    <3>1. CASE RunAppends
      <4>1. PICK t \in BOOLEAN : run' = [run EXCEPT !.latest = @ + 1, !.terminal = t]
        BY <3>1 DEF RunAppends
      <4>2. run.latest + 1 \in Sequences
        BY <3>1 DEF RunAppends, ObsTypeOK, Run, Sequences
      <4> QED BY <4>1, <4>2 DEF ObsTypeOK, Run
    <3>2. CASE RunCompacts
      <4>1. run.compacted + 1 \in Sequences
        BY <3>2 DEF RunCompacts, ObsTypeOK, Run, Sequences
      <4> QED BY <3>2, <4>1 DEF RunCompacts, ObsTypeOK, Run
    <3> QED BY <1>1, <3>1, <3>2 DEF RunStep
  <2> QED BY <1>1, <2>1 DEF RunStep, RunAppends, RunCompacts, ObsTypeOK
<1>2. CASE SessionStep
  <2>1. CASE OpenSession
    <3>1. session.id + 1 \in 0..MaxSession
      BY <2>1 DEF OpenSession, ObsTypeOK, Session
    <3> QED BY <2>1, <3>1 DEF OpenSession, ObsTypeOK, Session
  <2>2. CASE EndSession
    BY <2>2 DEF EndSession, ObsTypeOK, Session
  <2> QED BY <1>2, <2>1, <2>2 DEF SessionStep
<1>3. CASE CreateStream
  BY <1>3 DEF CreateStream, ObsTypeOK, Stream
<1>4. CASE Produce
  <2>1. CASE EscalateDeadPinned
    BY <2>1 DEF EscalateDeadPinned, RecordFailureFact, ObsTypeOK, Stream, Epochs
  <2>2. CASE ScheduleJob
    <3>1. stream.epoch + 1 \in Epochs
      BY <2>2 DEF ScheduleJob, ObsTypeOK, Stream, Epochs
    <3>2. stream' \in Stream
      BY <2>2, <3>1 DEF ScheduleJob, ObsTypeOK, Stream
    <3>3. job' \in JobRow
      BY <2>2 DEF ScheduleJob, ObsTypeOK, JobRow, Session
    <3> QED BY <2>2, <3>2, <3>3 DEF ScheduleJob, ObsTypeOK
  <2> QED BY <1>4, <2>1, <2>2 DEF Produce
<1>5. CASE Reject
  <2>1. job.fence + 1 \in Nat /\ MaxAttempts \in 0..MaxAttempts
    BY DEF ObsTypeOK, JobRow
  <2>2. job' \in JobRow
    BY <1>5, <2>1 DEF Reject, ObsTypeOK, JobRow
  <2> QED BY <1>5, <2>2 DEF Reject, ObsTypeOK
<1>6. CASE LeaseLapses
  BY <1>6 DEF LeaseLapses, ObsTypeOK, JobRow
<1>7. ASSUME NEW r \in Reactors, ReactorStep(r) PROVE ObsTypeOK'
  <2>0. view \in [Reactors -> View] /\ view[r] \in View
    BY DEF ObsTypeOK
  <2>1. CASE Claim(r)
    <3>1. [Idle EXCEPT !.phase = "claimed", !.epoch = stream.epoch, !.fence = job.fence + 1,
                       !.after = stream.after] \in View
      <4>1. stream.epoch \in Epochs /\ stream.after \in Sequences /\ job.fence + 1 \in Nat
        BY DEF ObsTypeOK, Stream, JobRow
      <4> QED BY <1>0, <4>1 DEF View
    <3>2. job' \in JobRow
      <4>1. job.fence + 1 \in Nat /\ job.attempts + 1 \in 0..MaxAttempts
        BY <2>1 DEF Claim, ObsTypeOK, JobRow
      <4> QED BY <2>1, <4>1 DEF Claim, ObsTypeOK, JobRow
    <3> QED BY <2>0, <2>1, <3>1, <3>2 DEF Claim, ObsTypeOK
  <2>2. CASE GetRun(r)
    <3>1. [view[r] EXCEPT !.phase = "got",
              !.got = [latest |-> run.latest, terminal |-> run.terminal]] \in View
      BY <2>0 DEF View, ObsTypeOK, Run
    <3>2. view' = [view EXCEPT ![r] = [view[r] EXCEPT !.phase = "got",
              !.got = [latest |-> run.latest, terminal |-> run.terminal]]]
      BY <2>0, <2>2 DEF GetRun
    <3> QED BY <2>0, <2>2, <3>1, <3>2 DEF GetRun, ObsTypeOK
  <2>3. CASE ListRunEvents(r)
    <3>1. PICK s \in Answers :
              view' = [view EXCEPT ![r].phase = "paged", ![r].page = PageOf(s, view[r].after)]
      BY <2>3 DEF ListRunEvents
    <3>2. PageOf(s, view[r].after) \in Page
      BY <2>0, AnswersAreEarlier, PageType DEF ObsTypeOK, View
    <3>3. [view[r] EXCEPT !.phase = "paged", !.page = PageOf(s, view[r].after)] \in View
      BY <2>0, <3>2 DEF View
    <3>4. view' = [view EXCEPT ![r] =
                      [view[r] EXCEPT !.phase = "paged", !.page = PageOf(s, view[r].after)]]
      BY <2>0, <3>1
    <3> QED BY <2>0, <2>3, <3>3, <3>4 DEF ListRunEvents, ObsTypeOK
  <2>4. CASE PersistObservations(r)
    <3>1. view' \in [Reactors -> View]
      BY <1>0, <2>0, <2>4 DEF PersistObservations
    <3>2. events' \subseteq Sequences
      BY <2>4 DEF PersistObservations, RecordObservation, NewEvents, PageEvents, ObsTypeOK
    <3>3. \A d \in {"ADVANCED", "TERMINAL_READY", "BLOCKED_GAP"} : ResultOf(r, d) \in Result
      BY <2>0 DEF ResultOf, Result, View, Page
    <3>4. results' \subseteq Result
      BY <2>4, <3>3 DEF PersistObservations, GapEscalation, CursorAdvance, ObsTypeOK
    <3>5. stream' \in Stream /\ job' \in JobRow /\ escalation' \in {"none", "open"}
      <4>1. view[r].page.next \in Sequences
        BY <2>0 DEF View, Page
      <4>2. CASE GapEscalation(r)
        BY <4>2 DEF GapEscalation, ObsTypeOK, Stream, JobRow
      <4>3. CASE CursorAdvance(r)
        BY <4>1, <4>3 DEF CursorAdvance, ObsTypeOK, Stream, JobRow
      <4> QED BY <2>4, <4>2, <4>3 DEF PersistObservations
    <3> QED BY <2>4, <3>1, <3>2, <3>4, <3>5 DEF PersistObservations, ObsTypeOK
  <2>5. CASE FailAttempt(r)
    <3>1. view' \in [Reactors -> View] /\ job' \in JobRow
      BY <1>0, <2>0, <2>5 DEF FailAttempt, ObsTypeOK, JobRow
    <3> QED BY <2>5, <3>1 DEF FailAttempt, ObsTypeOK
  <2>6. CASE ClaimRefused(r) \/ Crash(r)
    <3>1. view' \in [Reactors -> View]
      BY <1>0, <2>0, <2>6 DEF ClaimRefused, Crash
    <3> QED BY <2>6, <3>1 DEF ClaimRefused, Crash, ObsTypeOK
  <2> QED BY <1>7, <2>1, <2>2, <2>3, <2>4, <2>5, <2>6 DEF ReactorStep
<1>8. CASE UNCHANGED obsVars
  BY <1>8 DEF obsVars, ObsTypeOK
<1> QED BY <1>1, <1>2, <1>3, <1>4, <1>5, <1>6, <1>7, <1>8 DEF Next

-----------------------------------------------------------------------------
(* What a reactor holds in memory, while the others commit.                *)

\* A reactor's step other than a commit writes no row of the stream.
LEMMA OnlyCommitsWrite ==
    ASSUME NEW r \in Reactors, ReactorStep(r), ~PersistObservations(r)
    PROVE  UNCHANGED <<run, session, stream, events, results, facts>>
BY DEF ReactorStep, Claim, GetRun, ListRunEvents, FailAttempt, ClaimRefused, Crash

LEMMA ViewsStep == ObsTypeOK /\ ViewsFollow /\ [Next]_obsVars => ViewsFollow'
<1> SUFFICES ASSUME ObsTypeOK, ViewsFollow, [Next]_obsVars PROVE ViewsFollow'
  OBVIOUS
<1>0. /\ view \in [Reactors -> View] /\ Idle.phase = "idle"
      /\ stream.epoch \in Nat /\ \A r \in Reactors : view[r].epoch \in Nat
  BY ObservationAssumption DEF ObsTypeOK, View, Stream, Epochs, Idle
<1>1. CASE UNCHANGED <<stream, view>>
  BY <1>1 DEF ViewsFollow
<1>2. CASE CreateStream
  BY <1>0, <1>2 DEF CreateStream, ViewsFollow, ObsTypeOK, Stream
<1>3. CASE EscalateDeadPinned
  BY <1>0, <1>3 DEF EscalateDeadPinned, ViewsFollow, ObsTypeOK, Stream
<1>4. CASE ScheduleJob
  <2>1. stream'.epoch = stream.epoch + 1 /\ view' = view
    BY <1>4 DEF ScheduleJob, ObsTypeOK, Stream
  <2> QED BY <1>0, <2>1 DEF ViewsFollow
<1>5. ASSUME NEW r \in Reactors, ReactorStep(r) PROVE ViewsFollow'
  <2>1. CASE PersistObservations(r)
    <3>1. stream'.epoch = stream.epoch /\ ~stream'.pinned
      BY <2>1 DEF PersistObservations, GapEscalation, CursorAdvance, ObsTypeOK, Stream
    <3>2. view' = [view EXCEPT ![r] = Idle]
      BY <2>1 DEF PersistObservations
    <3> QED BY <1>0, <3>1, <3>2 DEF ViewsFollow
  <2>2. CASE Claim(r)
    <3>1. /\ stream' = stream /\ \A q \in Reactors \ {r} : view'[q] = view[q]
          /\ view'[r].epoch = stream.epoch /\ view'[r].after = stream.after
      BY <1>0, <2>2 DEF Claim, Idle
    <3> QED BY <1>0, <3>1 DEF ViewsFollow
  <2>3. CASE GetRun(r) \/ ListRunEvents(r)
    <3>1. /\ stream' = stream /\ view[r].phase # "idle"
          /\ \A q \in Reactors \ {r} : view'[q] = view[q]
          /\ view'[r].epoch = view[r].epoch /\ view'[r].after = view[r].after
      BY <1>0, <2>3 DEF GetRun, ListRunEvents, View
    <3> QED BY <1>0, <3>1 DEF ViewsFollow
  <2>4. CASE FailAttempt(r) \/ ClaimRefused(r) \/ Crash(r)
    <3>1. stream' = stream /\ view' = [view EXCEPT ![r] = Idle]
      BY <2>4 DEF FailAttempt, ClaimRefused, Crash
    <3> QED BY <1>0, <3>1 DEF ViewsFollow
  <2> QED BY <1>5, <2>1, <2>2, <2>3, <2>4 DEF ReactorStep
<1> QED BY <1>1, <1>2, <1>3, <1>4, <1>5 DEF Next, RunStep, RunAppends, RunCompacts,
        SessionStep, OpenSession, EndSession, Produce, Reject, LeaseLapses, obsVars

LEMMA PagesStep == ObsTypeOK /\ PagesAreRecent /\ [Next]_obsVars => PagesAreRecent'
<1> SUFFICES ASSUME ObsTypeOK, PagesAreRecent, [Next]_obsVars PROVE PagesAreRecent'
  OBVIOUS
<1>0. /\ view \in [Reactors -> View] /\ Idle.phase = "idle"
      /\ run.latest \in Nat /\ \A r \in Reactors : view[r].page.latest \in Nat
  BY ObservationAssumption DEF ObsTypeOK, View, Page, Run, Sequences, Idle
<1>1. CASE UNCHANGED <<run, view>>
  BY <1>1 DEF PagesAreRecent
<1>2. CASE RunStep
  <2>1. CASE RunAppends
    <3>1. ~run.terminal /\ run'.latest = run.latest + 1 /\ view' = view
      BY <2>1 DEF RunAppends, ObsTypeOK, Run
    <3> QED BY <1>0, <3>1 DEF PagesAreRecent
  <2>2. CASE RunCompacts
    <3>1. run'.latest = run.latest /\ run'.terminal = run.terminal /\ view' = view
      BY <2>2 DEF RunCompacts, ObsTypeOK, Run
    <3> QED BY <3>1 DEF PagesAreRecent
  <2> QED BY <1>2, <2>1, <2>2 DEF RunStep
<1>3. ASSUME NEW r \in Reactors, ReactorStep(r) PROVE PagesAreRecent'
  <2>0. run' = run
    BY <1>3 DEF ReactorStep, Claim, GetRun, ListRunEvents, PersistObservations,
                FailAttempt, ClaimRefused, Crash
  <2>1. CASE ListRunEvents(r)
    <3>1. PICK s \in Answers :
              /\ ValidForRequest(PageOf(s, view[r].after), view[r].after)
              /\ view' = [view EXCEPT ![r].phase = "paged", ![r].page = PageOf(s, view[r].after)]
      BY <2>1 DEF ListRunEvents
    <3>2. /\ PageOf(s, view[r].after).latest <= run.latest
          /\ PageOf(s, view[r].after).terminal =>
                 run.terminal /\ PageOf(s, view[r].after).latest = run.latest
      BY <1>0, AnswersAreEarlier, PageType DEF ObsTypeOK, View
    <3>3. /\ view'[r].page = PageOf(s, view[r].after) /\ view'[r].after = view[r].after
          /\ \A q \in Reactors \ {r} : view'[q] = view[q]
      BY <1>0, <3>1 DEF View
    <3> SUFFICES ASSUME NEW q \in Reactors, view'[q].phase = "paged"
                 PROVE  /\ ValidForRequest(view'[q].page, view'[q].after)
                        /\ view'[q].page.latest <= run.latest
                        /\ view'[q].page.terminal =>
                               run.terminal /\ view'[q].page.latest = run.latest
      BY <2>0 DEF PagesAreRecent, ValidForRequest, Empty, PageEvents
    <3>4. CASE q = r
      BY <3>1, <3>2, <3>3, <3>4
    <3>5. CASE q # r
      BY <3>3, <3>5 DEF PagesAreRecent
    <3> QED BY <3>4, <3>5
  <2>2. CASE ~ListRunEvents(r)
    <3>1. view'[r].phase # "paged" /\ \A q \in Reactors \ {r} : view'[q] = view[q]
      <4>1. CASE Claim(r)
        BY <1>0, <4>1 DEF Claim, Idle
      <4>2. CASE GetRun(r)
        BY <1>0, <4>2 DEF GetRun, View
      <4>3. CASE PersistObservations(r) \/ FailAttempt(r) \/ ClaimRefused(r) \/ Crash(r)
        BY <1>0, <4>3 DEF PersistObservations, FailAttempt, ClaimRefused, Crash
      <4> QED BY <1>3, <2>2, <4>1, <4>2, <4>3 DEF ReactorStep
    <3> QED BY <2>0, <3>1 DEF PagesAreRecent
  <2> QED BY <2>1, <2>2
<1> QED BY <1>1, <1>2, <1>3 DEF Next, CreateStream, SessionStep, OpenSession, EndSession,
        Produce, EscalateDeadPinned, ScheduleJob, Reject, LeaseLapses, obsVars

-----------------------------------------------------------------------------
(* The rows, through a commit and through every other step.                *)

RowsAreSound ==
    /\ NothingSkipped /\ ResultsChain /\ PinnedIsOwned
    /\ EndIsExplained /\ CompleteIsTrue /\ HistoryIsPast

\* What the rows' arithmetic needs of their domains.
LEMMA Typed ==
    ASSUME ObsTypeOK
    PROVE  /\ stream.after \in Nat /\ stream.epoch \in Nat /\ run.latest \in Nat
           /\ events \subseteq Nat
           /\ \A x \in results : x.epoch \in Nat /\ x.after \in Nat /\ x.next \in Nat
BY ObservationAssumption DEF ObsTypeOK, Stream, Run, Result, Sequences, Epochs

\* Whoever passes ExactAuthority with a page commits what the stream waits
\* for: its own cursor, its own checkpoint, and a page of the run as it is.
LEMMA CommitIsCurrent ==
    ASSUME ObsInv, NEW r \in Reactors, view[r].phase = "paged", ExactAuthority(r)
    PROVE  /\ view[r].after = stream.after /\ view[r].epoch = stream.epoch
           /\ stream.state = "ACTIVE" /\ stream.pinned /\ ~HasResult(stream.epoch)
           /\ view[r].page \in Page /\ view[r].page.next \in Nat /\ stream.after \in Sequences
           /\ ValidForRequest(view[r].page, stream.after)
           /\ view[r].page.latest <= run.latest /\ view[r].page.latest \in Nat
           /\ view[r].page.terminal => run.terminal /\ view[r].page.latest = run.latest
<1>1. view[r].phase # "idle" /\ view[r] \in View /\ stream.after \in Sequences
  BY DEF ObsInv, ObservationIsSound, ObsTypeOK, Stream
<1>2. view[r].epoch = stream.epoch /\ stream.state = "ACTIVE" /\ stream.pinned
  BY DEF ExactAuthority, HoldsClaim, RouteValid
<1>3. view[r].after = stream.after
  BY <1>1, <1>2 DEF ObsInv, ViewsFollow
<1>4. ~HasResult(stream.epoch)
  BY <1>2 DEF ObsInv, HistoryIsPast, HasResult
<1>5. view[r].page \in Page /\ view[r].page.next \in Nat /\ view[r].page.latest \in Nat
  BY <1>1, ObservationAssumption DEF View, Page, Sequences
<1> QED BY <1>1, <1>2, <1>3, <1>4, <1>5 DEF ObsInv, PagesAreRecent

\* A page without a gap: the cursor moves to its end.
LEMMA AdvanceStep ==
    ASSUME ObsInv, NEW r \in Reactors, PersistObservations(r), ~view[r].page.gap
    PROVE  RowsAreSound'
<1> DEFINE page == view[r].page
           x0 == ResultOf(r, IF TerminalReady(page) THEN "TERMINAL_READY" ELSE "ADVANCED")
<1>1. /\ view[r].after = stream.after /\ view[r].epoch = stream.epoch
      /\ stream.state = "ACTIVE" /\ stream.pinned /\ ~HasResult(stream.epoch)
      /\ page \in Page /\ page.next \in Nat /\ stream.after \in Sequences
      /\ ValidForRequest(page, stream.after)
      /\ page.latest <= run.latest /\ page.latest \in Nat
      /\ page.terminal => run.terminal /\ page.latest = run.latest
  BY CommitIsCurrent DEF PersistObservations
<1>2. /\ stream.after <= page.next /\ page.next <= page.latest
      /\ \A n \in PageEvents(page) : stream.after < n /\ n <= page.next
      /\ \A n \in Sequences : stream.after < n /\ n <= page.next => n \in PageEvents(page)
  BY <1>1, PageContinues
<1>3. /\ events' = events \cup PageEvents(page) /\ results' = results \cup {x0}
      /\ run' = run /\ facts' = facts /\ escalation' = escalation
  BY DEF PersistObservations, RecordObservation, NewEvents, CursorAdvance
<1>4. /\ stream'.after = page.next /\ stream'.epoch = stream.epoch /\ ~stream'.pinned
      /\ stream'.state = IF TerminalReady(page) THEN "TERMINAL_READY" ELSE "ACTIVE"
      /\ job'.status = "COMPLETED"
  BY <1>1 DEF PersistObservations, CursorAdvance, ObsInv, ObservationIsSound, ObsTypeOK,
              Stream, JobRow
<1>5. /\ x0.epoch = stream.epoch /\ x0.after = stream.after /\ x0.next = page.next
      /\ x0.disposition # "BLOCKED_GAP"
  BY <1>1 DEF ResultOf
<1> HIDE DEF x0
<1>6. /\ stream.after \in Nat /\ stream.epoch \in Nat /\ run.latest \in Nat /\ events \subseteq Nat
      /\ \A x \in results : x.epoch \in Nat /\ x.after \in Nat /\ x.next \in Nat
  BY Typed DEF ObsInv, ObservationIsSound
<1>7. \A x \in results : /\ x.epoch < stream.epoch
                         /\ x.disposition # "BLOCKED_GAP" => x.next <= stream.after
  BY <1>1, <1>6 DEF ObsInv, HistoryIsPast, HasResult
<1>8. NothingSkipped'
  <2>1. \A n \in events : n <= stream.after
    BY <1>1, <1>6 DEF ObsInv, ObservationIsSound, NothingSkipped
  <2>2. \A n \in 1..page.next : n \in events \cup PageEvents(page)
    <3> SUFFICES ASSUME NEW n \in 1..page.next PROVE n \in events \cup PageEvents(page)
      OBVIOUS
    <3>1. CASE n <= stream.after
      BY <1>1, <1>6, <3>1 DEF ObsInv, ObservationIsSound, NothingSkipped
    <3>2. CASE n > stream.after
      <4>1. n \in Sequences
        BY <1>1, ObservationAssumption DEF Page, Sequences
      <4> QED BY <1>1, <1>2, <3>2, <4>1
    <3> QED BY <1>1, <1>6, <3>1, <3>2
  <2>3. \A n \in events' : n <= page.next
    BY <1>1, <1>2, <1>3, <1>6, <2>1
  <2>4. events' \subseteq Nat
    <3>1. PageEvents(page) \subseteq Nat
      BY ObservationAssumption DEF PageEvents, Sequences
    <3> QED BY <1>3, <1>6, <3>1
  <2> QED BY <1>1, <1>3, <1>4, <2>2, <2>3, <2>4 DEF NothingSkipped
<1>9. HistoryIsPast'
  <2>1. page.next + 1 \notin events'
    <3>1. \A n \in events : n <= stream.after
      BY <1>1, <1>6 DEF ObsInv, ObservationIsSound, NothingSkipped
    <3> QED BY <1>1, <1>2, <1>3, <1>6, <3>1
  <2>2. page.next <= run.latest
    BY <1>1, <1>2, <1>6
  <2>3. ASSUME NEW x \in results'
        PROVE  /\ x.epoch <= stream.epoch
               /\ x.disposition # "BLOCKED_GAP" => x.next <= page.next
    <3>1. CASE x = x0
      BY <1>1, <1>5, <1>6, <3>1
    <3>2. CASE x \in results
      <4>1. x.next \in Nat /\ x.epoch \in Nat /\ x.epoch < stream.epoch
        BY <1>6, <1>7, <3>2
      <4>2. x.disposition # "BLOCKED_GAP" => x.next <= stream.after
        BY <1>7, <3>2
      <4> QED BY <1>1, <1>2, <1>6, <4>1, <4>2
    <3> QED BY <1>3, <3>1, <3>2
  <2> QED BY <1>3, <1>4, <2>1, <2>2, <2>3 DEF HistoryIsPast
<1>10. ResultsChain'
  <2> DEFINE moved == {x \in results : x.disposition # "BLOCKED_GAP"}
             movedN == {x \in results' : x.disposition # "BLOCKED_GAP"}
  <2>1. movedN = moved \cup {x0}
    BY <1>3, <1>5
  <2>2. \A x, y \in results' : x.epoch = y.epoch => x = y
    <3>1. \A x, y \in results : x.epoch = y.epoch => x = y
      BY DEF ObsInv, ObservationIsSound, ResultsChain
    <3>2. \A x \in results : x.epoch # x0.epoch
      BY <1>5, <1>6, <1>7
    <3> QED BY <1>3, <3>1, <3>2
  <2>3. \A x, y \in movedN : x.epoch < y.epoch => x.next <= y.after
    <3>1. \A x, y \in moved : x.epoch < y.epoch => x.next <= y.after
      BY DEF ObsInv, ObservationIsSound, ResultsChain
    <3>2. \A x \in moved : x.epoch < x0.epoch /\ ~(x0.epoch < x.epoch) /\ x.next <= x0.after
      BY <1>5, <1>6, <1>7
    <3>3. ~(x0.epoch < x0.epoch)
      BY <1>5, <1>6
    <3> QED BY <2>1, <3>1, <3>2, <3>3
  <2>4. \A x \in results' : x.after = 0 \/ \E y \in movedN : y.epoch < x.epoch /\ y.next = x.after
    <3>1. \A x \in results : x.after = 0 \/ \E y \in moved : y.epoch < x.epoch /\ y.next = x.after
      BY DEF ObsInv, ObservationIsSound, ResultsChain
    <3>2. stream.after = 0 \/ \E y \in moved : y.next = stream.after
      BY DEF ObsInv, ObservationIsSound, ResultsChain
    <3>3. x0.after = 0 \/ \E y \in movedN : y.epoch < x0.epoch /\ y.next = x0.after
      <4>1. \A y \in moved : y \in movedN /\ y.epoch < x0.epoch
        BY <1>5, <1>7, <2>1
      <4> HIDE DEF moved, movedN
      <4> QED BY <1>5, <3>2, <4>1
    <3> QED BY <1>3, <2>1, <3>1, <3>3
  <2>5. x0 \in movedN /\ x0.next = stream'.after
    BY <1>4, <1>5, <2>1
  <2> QED BY <2>2, <2>3, <2>4, <2>5 DEF ResultsChain
<1>11. PinnedIsOwned'
  BY <1>4 DEF PinnedIsOwned
<1>12. EndIsExplained'
  <2>1. facts = {} /\ \A x \in results : x.disposition # "BLOCKED_GAP"
    BY <1>1 DEF ObsInv, ObservationIsSound, EndIsExplained
  <2>2. \A x \in results' : x.disposition # "BLOCKED_GAP"
    BY <1>3, <1>5, <2>1
  <2>3. facts' = {} /\ stream'.state # "ESCALATED"
    BY <1>3, <1>4, <2>1
  <2> QED BY <2>2, <2>3 DEF EndIsExplained
<1>13. CompleteIsTrue'
  BY <1>1, <1>3, <1>4 DEF CompleteIsTrue, TerminalReady
<1> QED BY <1>8, <1>9, <1>10, <1>11, <1>12, <1>13 DEF RowsAreSound

\* A page beyond a gap: kept as evidence, and the stream stops before it.
LEMMA GapStep ==
    ASSUME ObsInv, NEW r \in Reactors, PersistObservations(r), view[r].page.gap
    PROVE  RowsAreSound'
<1> DEFINE page == view[r].page
           x0 == ResultOf(r, "BLOCKED_GAP")
<1>1. /\ view[r].after = stream.after /\ view[r].epoch = stream.epoch
      /\ stream.state = "ACTIVE" /\ stream.pinned /\ ~HasResult(stream.epoch)
      /\ page \in Page /\ stream.after \in Sequences
      /\ ValidForRequest(page, stream.after)
  BY CommitIsCurrent DEF PersistObservations
<1>2. \A n \in PageEvents(page) : n > stream.after + 1
  BY <1>1, PageSkips
<1>3. /\ events' = events \cup PageEvents(page) /\ results' = results \cup {x0}
      /\ run' = run /\ facts' = facts
  BY DEF PersistObservations, RecordObservation, NewEvents, GapEscalation
<1>4. /\ stream'.after = stream.after /\ stream'.epoch = stream.epoch /\ ~stream'.pinned
      /\ stream'.state = "ESCALATED" /\ job'.status = "DEAD"
  BY <1>1 DEF PersistObservations, GapEscalation, ObsInv, ObservationIsSound, ObsTypeOK,
              Stream, JobRow
<1>5. /\ x0.epoch = stream.epoch /\ x0.after = stream.after
      /\ x0.disposition = "BLOCKED_GAP"
  BY <1>1 DEF ResultOf
<1> HIDE DEF x0
<1>6. /\ stream.after \in Nat /\ stream.epoch \in Nat /\ run.latest \in Nat /\ events \subseteq Nat
      /\ \A x \in results : x.epoch \in Nat /\ x.after \in Nat /\ x.next \in Nat
  BY Typed DEF ObsInv, ObservationIsSound
<1>7. \A x \in results : /\ x.epoch < stream.epoch
                         /\ x.disposition # "BLOCKED_GAP" => x.next <= stream.after
  BY <1>1, <1>6 DEF ObsInv, HistoryIsPast, HasResult
<1>8. NothingSkipped'
  BY <1>3, <1>4 DEF NothingSkipped, ObsInv, ObservationIsSound
<1>9. HistoryIsPast'
  <2>1. stream.after + 1 \notin events'
    BY <1>2, <1>3, <1>6 DEF ObsInv, HistoryIsPast
  <2>2. stream.after <= run.latest
    BY DEF ObsInv, HistoryIsPast
  <2>3. \A x \in results' : /\ x.epoch <= stream.epoch
                            /\ x.disposition # "BLOCKED_GAP" => x.next <= stream.after
    <3>1. \A x \in results : x.epoch <= stream.epoch
      BY <1>6, <1>7
    <3>2. x0.epoch <= stream.epoch
      BY <1>5, <1>6
    <3> QED BY <1>3, <1>5, <1>7, <3>1, <3>2
  <2> QED BY <1>3, <1>4, <2>1, <2>2, <2>3 DEF HistoryIsPast
<1>10. ResultsChain'
  <2> DEFINE moved == {x \in results : x.disposition # "BLOCKED_GAP"}
             movedN == {x \in results' : x.disposition # "BLOCKED_GAP"}
  <2>1. movedN = moved
    BY <1>3, <1>5
  <2>2. \A x, y \in results' : x.epoch = y.epoch => x = y
    <3>1. \A x, y \in results : x.epoch = y.epoch => x = y
      BY DEF ObsInv, ObservationIsSound, ResultsChain
    <3>2. \A x \in results : x.epoch # x0.epoch
      BY <1>5, <1>6, <1>7
    <3> QED BY <1>3, <3>1, <3>2
  <2>3. \A x, y \in movedN : x.epoch < y.epoch => x.next <= y.after
    BY <2>1 DEF ObsInv, ObservationIsSound, ResultsChain
  <2>4. stream.after = 0 \/ \E y \in moved : y.next = stream.after
    BY DEF ObsInv, ObservationIsSound, ResultsChain
  <2>5. \A x \in results' : x.after = 0 \/ \E y \in movedN : y.epoch < x.epoch /\ y.next = x.after
    <3>1. \A x \in results : x.after = 0 \/ \E y \in moved : y.epoch < x.epoch /\ y.next = x.after
      BY DEF ObsInv, ObservationIsSound, ResultsChain
    <3>2. \A y \in moved : y.epoch < x0.epoch
      BY <1>5, <1>7
    <3>3. x0.after = 0 \/ \E y \in moved : y.epoch < x0.epoch /\ y.next = x0.after
      <4> HIDE DEF moved
      <4> QED BY <1>5, <2>4, <3>2
    <3> QED BY <1>3, <2>1, <3>1, <3>3
  <2> QED BY <1>4, <2>1, <2>2, <2>3, <2>4, <2>5 DEF ResultsChain
<1>11. PinnedIsOwned'
  BY <1>4 DEF PinnedIsOwned
<1>12. EndIsExplained'
  <2>1. facts = {} /\ \A x \in results : x.disposition # "BLOCKED_GAP"
    BY <1>1 DEF ObsInv, ObservationIsSound, EndIsExplained
  <2>2. {x.epoch : x \in {y \in results' : y.disposition = "BLOCKED_GAP"}} = {stream.epoch}
    BY <1>3, <1>5, <2>1
  <2> QED BY <1>3, <1>4, <2>1, <2>2 DEF EndIsExplained
<1>13. CompleteIsTrue'
  BY <1>4 DEF CompleteIsTrue
<1> QED BY <1>8, <1>9, <1>10, <1>11, <1>12, <1>13 DEF RowsAreSound

\* A step that writes neither the run's end, the stream, the events, the
\* results nor the facts keeps the rows sound, if a pinned stream keeps its
\* job or its owner.
LEMMA QuietStep ==
    ASSUME RowsAreSound, UNCHANGED <<stream, events, results, facts>>,
           run'.latest = run.latest, run'.terminal = run.terminal, PinnedIsOwned'
    PROVE  RowsAreSound'
BY DEF RowsAreSound, NothingSkipped, ResultsChain, EndIsExplained, CompleteIsTrue, HistoryIsPast

LEMMA RowsStep == ObsInv /\ [Next]_obsVars => RowsAreSound'
<1> SUFFICES ASSUME ObsInv, [Next]_obsVars PROVE RowsAreSound'
  OBVIOUS
<1>0. RowsAreSound /\ ObsTypeOK
  BY DEF ObsInv, ObservationIsSound, RowsAreSound
<1>1. CASE RunStep
  <2>0. PinnedIsOwned'
    BY <1>0, <1>1 DEF RunStep, RunAppends, RunCompacts, RowsAreSound, PinnedIsOwned,
                      DeadPinned, HasResult
  <2>1. CASE RunAppends
    <3>1. /\ ~run.terminal /\ run'.latest = run.latest + 1
          /\ UNCHANGED <<stream, events, results, facts>>
      BY <1>0, <2>1 DEF RunAppends, ObsTypeOK, Run
    <3>2. HistoryIsPast'
      BY <1>0, <3>1, Typed DEF RowsAreSound, HistoryIsPast
    <3>3. CompleteIsTrue'
      BY <1>0, <3>1 DEF RowsAreSound, CompleteIsTrue
    <3> QED BY <1>0, <2>0, <3>1, <3>2, <3>3 DEF RowsAreSound, NothingSkipped, ResultsChain,
                                                EndIsExplained
  <2>2. CASE RunCompacts
    <3>1. /\ run'.latest = run.latest /\ run'.terminal = run.terminal
          /\ UNCHANGED <<stream, events, results, facts>>
      BY <1>0, <2>2 DEF RunCompacts, ObsTypeOK, Run
    <3> QED BY <1>0, <2>0, <3>1, QuietStep
  <2> QED BY <1>1, <2>1, <2>2 DEF RunStep
<1>2. CASE SessionStep \/ UNCHANGED obsVars
  <2>1. UNCHANGED <<run, stream, job, events, results, facts, escalation>>
    BY <1>2 DEF SessionStep, OpenSession, EndSession, obsVars
  <2>2. PinnedIsOwned'
    BY <1>0, <2>1 DEF RowsAreSound, PinnedIsOwned, DeadPinned, HasResult
  <2> QED BY <1>0, <2>1, <2>2, QuietStep
<1>3. CASE CreateStream
  <2>1. /\ stream.state = "NONE" /\ stream'.state = "ACTIVE" /\ stream'.after = stream.after
        /\ stream'.epoch = stream.epoch /\ stream'.pinned = stream.pinned
        /\ UNCHANGED <<run, job, events, results, facts, escalation>>
    BY <1>0, <1>3 DEF CreateStream, ObsTypeOK, Stream
  <2> QED BY <1>0, <2>1 DEF RowsAreSound, NothingSkipped, ResultsChain, PinnedIsOwned,
                            EndIsExplained, CompleteIsTrue, HistoryIsPast, DeadPinned
<1>4. CASE EscalateDeadPinned
  <2>1. /\ stream.state = "ACTIVE" /\ stream'.state = "ESCALATED" /\ stream'.after = stream.after
        /\ stream'.epoch = stream.epoch /\ ~stream'.pinned
        /\ facts' = facts \cup {stream.epoch} /\ job.status = "DEAD" /\ ~HasResult(stream.epoch)
        /\ UNCHANGED <<run, job, events, results, escalation>>
    BY <1>0, <1>4 DEF EscalateDeadPinned, DeadPinned, RecordFailureFact, ObsTypeOK, Stream
  <2>2. EndIsExplained'
    <3>1. facts = {} /\ \A x \in results : x.disposition # "BLOCKED_GAP"
      BY <1>0, <2>1 DEF RowsAreSound, EndIsExplained
    <3>2. facts' = {stream.epoch} /\ \A x \in results : x.epoch # stream.epoch
      BY <2>1, <3>1 DEF HasResult
    <3> QED BY <2>1, <3>1, <3>2 DEF EndIsExplained
  <2> QED BY <1>0, <2>1, <2>2 DEF RowsAreSound, NothingSkipped, ResultsChain, PinnedIsOwned,
                            CompleteIsTrue, HistoryIsPast
<1>5. CASE ScheduleJob
  <2>1. /\ stream.state = "ACTIVE" /\ stream'.state = "ACTIVE" /\ stream'.after = stream.after
        /\ stream'.epoch = stream.epoch + 1 /\ stream'.pinned /\ job'.status = "PENDING"
        /\ UNCHANGED <<run, events, results, facts>>
    BY <1>0, <1>5 DEF ScheduleJob, Due, ObsTypeOK, Stream
  <2>2. HistoryIsPast'
    <3>1. \A x \in results : x.epoch <= stream.epoch + 1 /\ x.epoch # stream.epoch + 1
      BY <1>0, Typed DEF RowsAreSound, HistoryIsPast
    <3> QED BY <1>0, <2>1, <3>1 DEF RowsAreSound, HistoryIsPast
  <2> QED BY <1>0, <2>1, <2>2 DEF RowsAreSound, NothingSkipped, ResultsChain, PinnedIsOwned,
                            EndIsExplained, CompleteIsTrue
<1>6. CASE Reject \/ LeaseLapses
  <2>1. UNCHANGED <<run, stream, events, results, facts>>
    BY <1>6 DEF Reject, LeaseLapses
  <2>2. PinnedIsOwned'
    <3>1. CASE Reject
      <4>1. job'.status = "DEAD" /\ escalation' = "open" /\ stream.pinned
        BY <1>0, <3>1 DEF Reject, Claimable, RowsAreSound, PinnedIsOwned, ObsTypeOK, JobRow
      <4> QED BY <1>0, <2>1, <4>1 DEF RowsAreSound, PinnedIsOwned, DeadPinned, HasResult,
                                      HistoryIsPast
    <3>2. CASE LeaseLapses
      <4>1. job'.status = job.status /\ escalation' = escalation
        BY <1>0, <3>2 DEF LeaseLapses, ObsTypeOK, JobRow
      <4> QED BY <1>0, <2>1, <4>1 DEF RowsAreSound, PinnedIsOwned, DeadPinned, HasResult
    <3> QED BY <1>6, <3>1, <3>2
  <2> QED BY <1>0, <2>1, <2>2, QuietStep
<1>7. ASSUME NEW r \in Reactors, ReactorStep(r) PROVE RowsAreSound'
  <2>1. CASE PersistObservations(r)
    BY <2>1, AdvanceStep, GapStep
  <2>2. CASE ~PersistObservations(r)
    <3>1. UNCHANGED <<run, session, stream, events, results, facts>>
      BY <1>7, <2>2, OnlyCommitsWrite
    <3>2. PinnedIsOwned'
      <4>1. CASE Claim(r)
        <5>1. stream.pinned /\ job'.status = "RUNNING"
          BY <1>0, <4>1 DEF Claim, RouteValid, ObsTypeOK, JobRow
        <5> QED BY <1>0, <3>1, <5>1 DEF RowsAreSound, PinnedIsOwned
      <4>2. CASE FailAttempt(r)
        <5>1. job.status = "RUNNING"
          BY <4>2 DEF FailAttempt, HoldsClaim
        <5>2. stream.pinned /\ stream.state = "ACTIVE"
          BY <1>0, <5>1 DEF RowsAreSound, PinnedIsOwned
        <5>3. job'.status = "RETRY" \/ (job'.status = "DEAD" /\ escalation' = "open")
          <6>1. job'.status = IF job.attempts < MaxAttempts THEN "RETRY" ELSE "DEAD"
            BY <1>0, <4>2 DEF FailAttempt, ObsTypeOK, JobRow
          <6>2. escalation' = IF job.attempts < MaxAttempts THEN escalation ELSE "open"
            BY <4>2 DEF FailAttempt
          <6>3. job.attempts \in Nat /\ MaxAttempts \in Nat
            BY <1>0, ObservationAssumption DEF ObsTypeOK, JobRow
          <6> QED BY <6>1, <6>2, <6>3
        <5> QED BY <1>0, <3>1, <5>2, <5>3 DEF RowsAreSound, PinnedIsOwned, DeadPinned,
                                              HasResult, HistoryIsPast
      <4>3. CASE GetRun(r) \/ ListRunEvents(r) \/ ClaimRefused(r) \/ Crash(r)
        <5>1. UNCHANGED <<job, escalation>>
          BY <4>3 DEF GetRun, ListRunEvents, ClaimRefused, Crash
        <5> QED BY <1>0, <3>1, <5>1 DEF RowsAreSound, PinnedIsOwned, DeadPinned, HasResult
      <4> QED BY <1>7, <2>2, <4>1, <4>2, <4>3 DEF ReactorStep
    <3> QED BY <1>0, <3>1, <3>2, QuietStep
  <2> QED BY <2>1, <2>2
<1> QED BY <1>1, <1>2, <1>3, <1>4, <1>5, <1>6, <1>7 DEF Next, Produce

-----------------------------------------------------------------------------
LEMMA ObsInit == Init => ObsInv
<1> SUFFICES ASSUME Init PROVE ObsInv
  OBVIOUS
<1> USE ObservationAssumption
<1>1. ObsTypeOK
  <2>1. Idle \in View
    BY DEF Idle, View, NoPage, Page, Sequences, Epochs
  <2>2. run \in Run /\ session \in Session /\ stream \in Stream /\ job \in JobRow
    BY DEF Init, Run, Session, Stream, JobRow, Sequences, Epochs
  <2> QED BY <2>1, <2>2 DEF Init, ObsTypeOK
<1>2. view = [r \in Reactors |-> Idle] /\ Idle.phase = "idle"
  BY DEF Init, Idle
<1>3. ViewsFollow /\ PagesAreRecent
  BY <1>2 DEF ViewsFollow, PagesAreRecent
<1>4. /\ run.latest = 1 /\ stream.state = "NONE" /\ stream.after = 0 /\ ~stream.pinned
      /\ job.status = "NONE" /\ events = {} /\ results = {} /\ facts = {}
  BY DEF Init
<1>5. NothingSkipped /\ ResultsChain /\ HistoryIsPast
  BY <1>4 DEF NothingSkipped, ResultsChain, HistoryIsPast
<1>6. PinnedIsOwned /\ EndIsExplained /\ CompleteIsTrue
  BY <1>4 DEF PinnedIsOwned, EndIsExplained, CompleteIsTrue
<1> QED BY <1>1, <1>3, <1>5, <1>6 DEF ObsInv, ObservationIsSound

LEMMA ObsStep == ObsInv /\ [Next]_obsVars => ObsInv'
BY TypeStep, ViewsStep, PagesStep, RowsStep DEF ObsInv, ObservationIsSound, RowsAreSound

\* The inductive invariant of the observation.
THEOREM ObservationInvariant == Spec => []ObsInv
BY ObsInit, ObsStep, PTL DEF Spec

\* Whatever crashes, reclaimed jobs, late answers and compaction a reactor
\* meets, nothing before the cursor is missing, the results are one chain, a
\* pinned stream has its job or an owner, an end is explained by one record,
\* and a complete stream is complete.
THEOREM RowsStaySound == Spec => []ObservationIsSound
<1>1. ObsInv => ObservationIsSound
  BY DEF ObsInv
<1> QED BY <1>1, ObservationInvariant, PTL

\* One step of the cursor's fence; CursorIsFenced is its always.
CursorStep ==
    /\ stream'.after # stream.after =>
          \E r \in Reactors : HoldsClaim(r) /\ view'[r] = Idle /\ stream'.after > stream.after
    /\ stream.state \in {"TERMINAL_READY", "ESCALATED"} => stream' = stream

LEMMA FencedStep == ObsInv /\ Next => CursorStep
<1> SUFFICES ASSUME ObsInv, Next PROVE CursorStep
  OBVIOUS
<1>0. ObsTypeOK /\ stream \in Stream /\ view \in [Reactors -> View]
  BY DEF ObsInv, ObservationIsSound, ObsTypeOK
<1>1. CASE stream' = stream
  BY <1>1 DEF CursorStep
<1>2. CASE CreateStream \/ Produce
  BY <1>0, <1>2 DEF CreateStream, Produce, EscalateDeadPinned, DeadPinned, ScheduleJob, Due,
                    Stream, CursorStep
<1>3. ASSUME NEW r \in Reactors, PersistObservations(r) PROVE CursorStep
  <2>1. stream.state = "ACTIVE" /\ HoldsClaim(r) /\ view'[r] = Idle
    BY <1>0, <1>3 DEF PersistObservations, ExactAuthority, RouteValid
  <2>2. CASE GapEscalation(r)
    BY <1>0, <2>1, <2>2 DEF GapEscalation, Stream, CursorStep
  <2>3. CASE CursorAdvance(r)
    <3>1. stream'.after = view[r].page.next /\ view[r].page.next >= stream.after
      BY <1>0, <2>3 DEF CursorAdvance, Stream
    <3>2. view[r].page.next \in Nat /\ stream.after \in Nat
      BY <1>0, ObservationAssumption DEF View, Page, Stream, Sequences
    <3> QED BY <2>1, <3>1, <3>2 DEF CursorStep
  <2> QED BY <1>3, <2>2, <2>3 DEF PersistObservations
<1>4. ASSUME NEW r \in Reactors, ReactorStep(r), ~PersistObservations(r) PROVE CursorStep
  BY <1>1, <1>4, OnlyCommitsWrite
<1> QED BY <1>1, <1>2, <1>3, <1>4 DEF Next, RunStep, RunAppends, RunCompacts, SessionStep,
        OpenSession, EndSession, Reject, LeaseLapses

\* The cursor of the stream moves forward, under the present claim only, and
\* an ended stream is never written again.
THEOREM CursorMovesUnderClaim == Spec => CursorIsFenced
<1>1. ObsInv /\ [Next]_obsVars => [CursorStep]_obsVars
  BY FencedStep
<1>2. Spec => [][CursorStep]_obsVars
  BY <1>1, ObservationInvariant, PTL DEF Spec
<1> QED BY <1>2 DEF CursorIsFenced, CursorStep

-----------------------------------------------------------------------------
(* The refinement of EventLog.                                             *)

\* The retained events reach exactly as far as the cursor.
LEMMA PrefixIsCursor == ObsInv => Prefix = stream.after
<1> SUFFICES ASSUME ObsInv PROVE Prefix = stream.after
  OBVIOUS
<1> DEFINE P(n) == 1..n \subseteq events /\ n + 1 \notin events
<1>1. stream.after \in Sequences /\ stream.after \in Nat
  BY ObservationAssumption DEF ObsInv, ObservationIsSound, ObsTypeOK, Stream, Sequences
<1>2. P(stream.after)
  BY DEF ObsInv, ObservationIsSound, NothingSkipped, HistoryIsPast
<1>3. ASSUME NEW n \in Sequences, P(n) PROVE n = stream.after
  <2>1. n \in Nat
    BY ObservationAssumption DEF Sequences
  <2>2. CASE n < stream.after
    <3>1. n + 1 \in 1..stream.after
      BY <1>1, <2>1, <2>2
    <3> QED BY <1>2, <1>3, <3>1
  <2>3. CASE n > stream.after
    <3>1. stream.after + 1 \in 1..n
      BY <1>1, <2>1, <2>3
    <3> QED BY <1>2, <1>3, <3>1
  <2> QED BY <1>1, <2>1, <2>2, <2>3
<1> HIDE DEF P
<1>4. (CHOOSE n \in Sequences : P(n)) = stream.after
  BY <1>1, <1>2, <1>3
<1> QED BY <1>4 DEF Prefix, P


LEMMA LogInitially == Init => Log!LogInit
<1> SUFFICES ASSUME Init PROVE Log!LogInit
  OBVIOUS
<1>1. Prefix = 0
  BY ObsInit, PrefixIsCursor DEF Init
<1> QED BY <1>1 DEF Init, Log!LogInit

\* Every step of the observation is a step of the log's reader, or none.
LEMMA LogStep == ObsInv /\ ObsInv' /\ [Next]_obsVars => [Log!LogNext]_(Log!logVars)
<1> SUFFICES ASSUME ObsInv, ObsInv', [Next]_obsVars PROVE [Log!LogNext]_(Log!logVars)
  OBVIOUS
<1>0. /\ Prefix = stream.after /\ Prefix' = stream'.after
      /\ ObsTypeOK /\ stream \in Stream /\ run \in Run
  <2>1. (ObsInv => Prefix = stream.after)'
    BY PrefixIsCursor, PTL
  <2> QED BY <2>1, PrefixIsCursor DEF ObsInv, ObservationIsSound, ObsTypeOK
<1>1. CASE /\ run'.latest = run.latest /\ run'.terminal = run.terminal
           /\ stream'.after = stream.after
           /\ stream'.state = stream.state
  BY <1>0, <1>1 DEF Log!logVars
<1>2. CASE RunAppends
  <2>1. /\ ~run.terminal /\ run'.latest = run.latest + 1 /\ run'.terminal \in BOOLEAN
        /\ stream' = stream
    BY <1>0, <1>2 DEF RunAppends, Run
  <2> QED BY <1>0, <2>1 DEF Log!LogNext, Log!Append
<1>3. CASE EscalateDeadPinned
  <2>1. /\ stream.state = "ACTIVE" /\ stream'.state = "ESCALATED"
        /\ stream'.after = stream.after /\ run' = run
    BY <1>0, <1>3 DEF EscalateDeadPinned, DeadPinned, Stream
  <2> QED BY <1>0, <2>1 DEF Log!LogNext, Log!Abandon
<1>4. ASSUME NEW r \in Reactors, PersistObservations(r)
      PROVE  [Log!LogNext]_(Log!logVars)
  <2>0. /\ stream.state = "ACTIVE" /\ run' = run
        /\ view[r].page.next \in Nat /\ view[r].page.latest <= run.latest
        /\ view[r].page.terminal => run.terminal /\ view[r].page.latest = run.latest
    BY <1>4, CommitIsCurrent DEF PersistObservations
  <2>1. CASE GapEscalation(r)
    <3>1. stream'.state = "ESCALATED" /\ stream'.after = stream.after
      BY <1>0, <2>1 DEF GapEscalation, Stream
    <3> QED BY <1>0, <2>0, <3>1 DEF Log!LogNext, Log!Abandon
  <2>2. CASE CursorAdvance(r)
    <3>1. /\ stream'.after = view[r].page.next /\ stream'.after >= stream.after
          /\ stream'.state = IF TerminalReady(view[r].page) THEN "TERMINAL_READY" ELSE "ACTIVE"
      BY <1>0, <2>0, <2>2 DEF CursorAdvance, Stream
    <3>2. CASE TerminalReady(view[r].page)
      <4>1. run.terminal /\ stream'.after = run.latest /\ stream'.state = "TERMINAL_READY"
        BY <2>0, <3>1, <3>2 DEF TerminalReady
      <4> QED BY <1>0, <2>0, <4>1 DEF Log!LogNext, Log!Complete
    <3>3. CASE ~TerminalReady(view[r].page) /\ stream'.after # stream.after
      <4>1. stream'.after \in 1..run.latest /\ stream.after < stream'.after
        <5>1. stream'.after <= run'.latest /\ stream.after \in Nat /\ stream'.after \in Nat
          BY <1>0, <2>0, <3>1, Typed DEF ObsInv, HistoryIsPast
        <5> QED BY <1>0, <2>0, <3>1, <3>3, <5>1, Typed
      <4>2. stream'.state = stream.state
        BY <2>0, <3>1, <3>3
      <4>3. Log!Read(stream'.after)
        BY <1>0, <2>0, <4>1, <4>2 DEF Log!Read
      <4> QED BY <4>1, <4>3 DEF Log!LogNext
    <3>4. CASE ~TerminalReady(view[r].page) /\ stream'.after = stream.after
      BY <1>1, <2>0, <3>1, <3>4
    <3> QED BY <3>2, <3>3, <3>4
  <2> QED BY <1>4, <2>1, <2>2 DEF PersistObservations
<1>5. CASE RunCompacts \/ CreateStream \/ ScheduleJob
  <2>1. CASE RunCompacts
    BY <1>0, <1>1, <2>1 DEF RunCompacts, Run
  <2>2. CASE CreateStream
    <3>1. /\ stream.state = "NONE" /\ stream'.state = "ACTIVE"
          /\ stream'.after = stream.after /\ run' = run
      BY <1>0, <2>2 DEF CreateStream, Stream
    <3> QED BY <1>0, <3>1 DEF Log!logVars
  <2>3. CASE ScheduleJob
    BY <1>0, <1>1, <2>3 DEF ScheduleJob, Due, Stream
  <2> QED BY <1>5, <2>1, <2>2, <2>3
<1>6. CASE UNCHANGED <<run, stream>>
  BY <1>1, <1>6
<1>7. ASSUME NEW r \in Reactors, ReactorStep(r) PROVE [Log!LogNext]_(Log!logVars)
  BY <1>4, <1>6, <1>7, OnlyCommitsWrite
<1> QED BY <1>2, <1>3, <1>4, <1>5, <1>6, <1>7 DEF Next, RunStep, SessionStep, OpenSession,
        EndSession, Produce, Reject, LeaseLapses, obsVars

\* The observation implements the ordered, gap-free read of the run's log.
THEOREM ReadsTheLog == Spec => ImplementsLog
BY LogInitially, LogStep, ObservationInvariant, PTL DEF Spec, ImplementsLog, Log!LogSpec

-----------------------------------------------------------------------------
(***************************************************************************)
(* The retention.  The composition implements the observation it extends,  *)
(* so everything proved of the observation holds of it too.  The           *)
(* retention's invariant needs two facts about what is read long before it *)
(* is committed: a read in memory is Runmill's present evidence            *)
(* (HandsFollow), and that evidence is of the end of the run               *)
(* (EvidenceIsOfTheEnd).                                                   *)
(***************************************************************************)
HandsFollow ==
    \A r \in Reactors : hand[r].phase = "read" =>
        hand[r].read = evidence /\ evidence # NoEvidence

EvidenceIsOfTheEnd ==
    evidence # NoEvidence => run.terminal /\ evidence.seq = run.latest + 1

TermInv == ObsInv /\ RetentionIsSound /\ HandsFollow /\ EvidenceIsOfTheEnd

-----------------------------------------------------------------------------
(* The composition and the observation.                                    *)

\* A step of the composition is a step of the observation or leaves every row
\* of it alone.
LEMMA TermStepObserves == [TermNext]_allVars => [Next]_obsVars
<1> SUFFICES ASSUME [TermNext]_allVars, ~Next PROVE UNCHANGED obsVars
  OBVIOUS
<1>1. CASE Surroundings
  BY <1>1 DEF Surroundings, WorkCloses, PauseDispatch, SignerEnds, IssueEvidence
<1>2. CASE ProduceRetention \/ RecoverExhausted \/ RetentionLapses
  BY <1>2 DEF ProduceRetention, RecoverExhausted, RetentionLapses
<1>3. ASSUME NEW r \in Reactors, RetentionStep(r) PROVE UNCHANGED obsVars
  BY <1>3 DEF RetentionStep, ClaimRetention, ReadTerminalEvidence, Retain, RetentionFails,
              RetentionRefused, HandCrashes
<1>4. CASE UNCHANGED allVars
  BY <1>4 DEF allVars
<1> QED BY <1>1, <1>2, <1>3, <1>4 DEF TermNext

\* The retention adds nothing to the observation's behaviour.
THEOREM CompositionObserves == TermSpec => Spec
<1>1. TermInit => Init
  BY DEF TermInit
<1> QED BY <1>1, TermStepObserves, PTL DEF TermSpec, Spec

\* The rows of the observation stay sound beside the retention.
THEOREM ObservedRowsStaySound == TermSpec => []ObservationIsSound
BY CompositionObserves, RowsStaySound

\* The composition still reads the run's log in order and without a hole.
THEOREM CompositionReadsTheLog == TermSpec => ImplementsLog
BY CompositionObserves, ReadsTheLog

\* What the observation may do to the rows a bundle speaks of.
LEMMA EndIsFinal ==
    ASSUME ObsInv, Next
    PROVE  /\ run.terminal => run'.terminal /\ run'.latest = run.latest
           /\ stream.state = "TERMINAL_READY" => stream' = stream
           /\ events \subseteq events'
<1>1. run.terminal => run'.terminal /\ run'.latest = run.latest
  BY DEF Next, RunStep, RunAppends, RunCompacts, SessionStep, OpenSession, EndSession,
         CreateStream, Produce, EscalateDeadPinned, ScheduleJob, Reject, LeaseLapses,
         ReactorStep, Claim, GetRun, ListRunEvents, PersistObservations, FailAttempt,
         ClaimRefused, Crash, ObsInv, ObservationIsSound, ObsTypeOK, Run
<1>2. stream.state = "TERMINAL_READY" => stream' = stream
  BY FencedStep DEF CursorStep
<1>3. events \subseteq events'
  <2>1. ASSUME NEW r \in Reactors, ReactorStep(r) PROVE events \subseteq events'
    BY <2>1, OnlyCommitsWrite DEF PersistObservations, RecordObservation
  <2> QED BY <2>1 DEF Next, RunStep, RunAppends, RunCompacts, SessionStep, OpenSession,
          EndSession, CreateStream, Produce, EscalateDeadPinned, ScheduleJob, Reject, LeaseLapses
<1> QED BY <1>1, <1>2, <1>3

-----------------------------------------------------------------------------
(* The retention.                                                          *)
LEMMA TermTypeStep ==
    ASSUME TermInv, [TermNext]_allVars, ObsTypeOK'
    PROVE  TermTypeOK'
<1> USE ObservationAssumption, VerifiersAssumption
<1>0. /\ TermTypeOK /\ hand \in [Reactors -> Hand] /\ retention \in Retention
      /\ NoEvidence \in Evidence /\ EmptyHand \in Hand
  BY DEF TermInv, RetentionIsSound, TermTypeOK, NoEvidence, Evidence, EmptyHand, Hand, None
<1>1. CASE UNCHANGED termVars
  BY <1>0, <1>1 DEF termVars, TermTypeOK
<1>2. CASE Surroundings
  <2>1. CASE WorkCloses \/ PauseDispatch \/ SignerEnds
    BY <1>0, <2>1 DEF WorkCloses, PauseDispatch, SignerEnds, TermTypeOK
  <2>2. CASE IssueEvidence
    <3>1. run.latest + 1 \in Nat
      BY <1>0 DEF TermTypeOK, ObsTypeOK, Run, Sequences
    <3>2. evidence' \in Evidence /\ artifact' \in {"absent", "different", "bound"}
      BY <2>2, <3>1 DEF IssueEvidence, Evidence
    <3> QED BY <1>0, <2>2, <3>2 DEF IssueEvidence, TermTypeOK
  <2> QED BY <1>2, <2>1, <2>2 DEF Surroundings
<1>3. CASE ProduceRetention
  <2>1. TerminalEventSequence \in Nat
    <3>1. (CHOOSE x \in TerminalResults : TRUE) \in TerminalResults
      BY <1>3 DEF ProduceRetention, OwesBundle
    <3>2. \A x \in TerminalResults : x.next \in Nat
      BY <1>0 DEF TerminalResults, TermTypeOK, ObsTypeOK, Result, Sequences
    <3> QED BY <3>1, <3>2 DEF TerminalEventSequence
  <2>2. retention' \in Retention
    BY <1>0, <1>3, <2>1 DEF ProduceRetention, Retention, TermTypeOK, ObsTypeOK, Session
  <2> QED BY <1>0, <1>3, <2>2 DEF ProduceRetention, TermTypeOK
<1>4. CASE RecoverExhausted
  <2>1. retention' \in Retention
    <3>1. retention.fence + 1 \in Nat
      BY <1>0 DEF Retention
    <3> QED BY <1>0, <1>4, <3>1 DEF RecoverExhausted, Retention
  <2> QED BY <1>0, <1>4, <2>1 DEF RecoverExhausted, TermTypeOK
<1>5. CASE RetentionLapses
  <2>1. retention' \in Retention
    BY <1>0, <1>5 DEF RetentionLapses, Retention
  <2> QED BY <1>0, <1>5, <2>1 DEF RetentionLapses, TermTypeOK
<1>6. ASSUME NEW r \in Reactors, RetentionStep(r) PROVE TermTypeOK'
  <2>1. CASE ClaimRetention(r)
    <3>1. retention.fence + 1 \in Nat /\ retention.attempts + 1 \in 0..MaxAttempts
      BY <1>0, <2>1 DEF ClaimRetention, Retention
    <3>2. retention' \in Retention
      BY <1>0, <2>1, <3>1 DEF ClaimRetention, Retention
    <3>3. [EmptyHand EXCEPT !.phase = "claimed", !.fence = retention.fence + 1] \in Hand
      BY <1>0, <3>1 DEF Hand
    <3>4. hand' \in [Reactors -> Hand]
      BY <1>0, <2>1, <3>3 DEF ClaimRetention
    <3> QED BY <1>0, <2>1, <3>2, <3>4 DEF ClaimRetention, TermTypeOK
  <2>2. CASE ReadTerminalEvidence(r)
    <3>1. [hand[r] EXCEPT !.phase = "read", !.read = evidence] \in Hand
      BY <1>0 DEF Hand, TermTypeOK
    <3>2. hand' = [hand EXCEPT ![r] = [hand[r] EXCEPT !.phase = "read", !.read = evidence]]
      BY <1>0, <2>2 DEF ReadTerminalEvidence
    <3>3. hand' \in [Reactors -> Hand]
      BY <1>0, <3>1, <3>2
    <3> QED BY <1>0, <2>2, <3>3 DEF ReadTerminalEvidence, TermTypeOK
  <2>3. CASE Retain(r)
    <3>1. hand' \in [Reactors -> Hand] /\ hand[r].read \in Evidence /\ hand[r].read.final \in BOOLEAN
      BY <1>0, <2>3 DEF Retain, Hand, Evidence
    <3>2. retention' \in Retention
      BY <1>0, <2>3 DEF Retain, Retention
    <3>3. ingested' \in Reactors \cup {None} /\ verification' \in BOOLEAN
      BY <1>0, <2>3, <3>1 DEF Retain, HandOver, TermTypeOK
    <3>4. artifact' \in {"absent", "different", "bound"}
      BY <1>0, <2>3 DEF Retain, HandOver, BindManifest, TermTypeOK
    <3> QED BY <1>0, <2>3, <3>1, <3>2, <3>3, <3>4 DEF Retain, TermTypeOK
  <2>4. CASE RetentionFails(r)
    <3>1. hand' \in [Reactors -> Hand] /\ retention' \in Retention
      BY <1>0, <2>4 DEF RetentionFails, Retention
    <3> QED BY <1>0, <2>4, <3>1 DEF RetentionFails, TermTypeOK
  <2>5. CASE RetentionRefused(r) \/ HandCrashes(r)
    <3>1. hand' \in [Reactors -> Hand]
      BY <1>0, <2>5 DEF RetentionRefused, HandCrashes
    <3> QED BY <1>0, <2>5, <3>1 DEF RetentionRefused, HandCrashes, TermTypeOK
  <2> QED BY <1>6, <2>1, <2>2, <2>3, <2>4, <2>5 DEF RetentionStep
<1> QED BY <1>1, <1>2, <1>3, <1>4, <1>5, <1>6 DEF TermNext, allVars

\* What is read under a claim stays what Runmill answers.
LEMMA ReadsStep ==
    ASSUME TermInv, [TermNext]_allVars
    PROVE  HandsFollow' /\ EvidenceIsOfTheEnd'
<1>0. /\ HandsFollow /\ EvidenceIsOfTheEnd /\ ObsInv /\ hand \in [Reactors -> Hand]
      /\ run \in Run /\ EmptyHand.phase = "idle"
  BY DEF TermInv, RetentionIsSound, TermTypeOK, ObsTypeOK, EmptyHand
<1>1. CASE Next /\ UNCHANGED termVars
  BY <1>0, <1>1, EndIsFinal DEF termVars, HandsFollow, EvidenceIsOfTheEnd
<1>2. CASE UNCHANGED <<run, evidence, hand>>
  BY <1>0, <1>2 DEF HandsFollow, EvidenceIsOfTheEnd
<1>3. CASE IssueEvidence
  <2>1. /\ evidence = NoEvidence /\ run.terminal /\ evidence'.seq = run.latest + 1
        /\ run' = run /\ hand' = hand
    BY <1>3 DEF IssueEvidence, obsVars
  <2> QED BY <1>0, <2>1 DEF HandsFollow, EvidenceIsOfTheEnd
<1>4. ASSUME NEW r \in Reactors, RetentionStep(r) PROVE HandsFollow' /\ EvidenceIsOfTheEnd'
  <2>1. UNCHANGED <<run, evidence>>
    BY <1>4 DEF RetentionStep, ClaimRetention, ReadTerminalEvidence, Retain, RetentionFails,
                RetentionRefused, HandCrashes, obsVars
  <2>2. CASE ReadTerminalEvidence(r)
    <3>1. /\ evidence # NoEvidence /\ hand'[r].read = evidence
          /\ \A q \in Reactors \ {r} : hand'[q] = hand[q]
      BY <1>0, <2>2 DEF ReadTerminalEvidence, Hand
    <3> QED BY <1>0, <2>1, <3>1 DEF HandsFollow, EvidenceIsOfTheEnd
  <2>3. CASE ~ReadTerminalEvidence(r)
    <3>1. hand'[r].phase # "read" /\ \A q \in Reactors \ {r} : hand'[q] = hand[q]
      <4>1. CASE ClaimRetention(r)
        BY <1>0, <4>1 DEF ClaimRetention, EmptyHand
      <4>2. CASE Retain(r) \/ RetentionFails(r) \/ RetentionRefused(r) \/ HandCrashes(r)
        BY <1>0, <4>2 DEF Retain, RetentionFails, RetentionRefused, HandCrashes
      <4> QED BY <1>4, <2>3, <4>1, <4>2 DEF RetentionStep
    <3> QED BY <1>0, <2>1, <3>1 DEF HandsFollow, EvidenceIsOfTheEnd
  <2> QED BY <2>2, <2>3
<1> QED BY <1>1, <1>2, <1>3, <1>4 DEF TermNext, Surroundings, WorkCloses, PauseDispatch,
        SignerEnds, ProduceRetention, RecoverExhausted, RetentionLapses, allVars, termVars,
        obsVars

BundleIsSound == BundleIsProof /\ BundleWithItsJob /\ EvidenceIsOwned /\ DeadRetentionIsOwned

\* The commit of a retention.
LEMMA RetainStep ==
    ASSUME TermInv, NEW r \in Reactors, Retain(r)
    PROVE  BundleIsSound'
<1> DEFINE e == hand[r].read
<1>0. /\ TermTypeOK /\ BundleIsProof /\ BundleWithItsJob /\ EvidenceIsOwned
      /\ ObservationIsSound /\ hand \in [Reactors -> Hand]
  BY DEF TermInv, RetentionIsSound, TermTypeOK, ObsInv
<1>1. /\ e = evidence /\ e # NoEvidence /\ run.terminal /\ e.seq = run.latest + 1
  BY DEF Retain, TermInv, HandsFollow, EvidenceIsOfTheEnd
<1>2. retention.status = "RUNNING" /\ stream.state = "TERMINAL_READY"
  BY DEF Retain, ExactRetentionAuthority, HoldsRetention, RetentionRoute
<1>3. bundle = NoEvidence /\ ~bundle.final /\ ingested = None /\ ~verification
  <2>1. bundle = NoEvidence
    BY <1>0, <1>2 DEF BundleWithItsJob
  <2>2. ~bundle.final
    BY <2>1 DEF NoEvidence
  <2>3. ingested = None
    BY <1>0, <2>2 DEF EvidenceIsOwned
  <2> QED BY <1>0, <2>1, <2>2, <2>3, VerifiersAssumption DEF EvidenceIsOwned, None, TermTypeOK
<1>4. e.inWindow /\ e.flaw = None
  <2>1. e.flaw \in {None, "shape", "signature"}
    BY <1>0 DEF Hand, Evidence
  <2> QED BY <2>1 DEF Retain, Retainable, ParsesAsBundle, TrustedSigner, SigningWindow
<1>5. /\ bundle' = e /\ UNCHANGED <<run, stream, events, evidence, owner>>
      /\ retention'.status = "COMPLETED"
  BY <1>0 DEF Retain, obsVars, TermTypeOK, Retention
<1>6. BundleIsProof'
  <2>1. 1..run.latest \subseteq events
    BY <1>0, <1>2 DEF ObservationIsSound, CompleteIsTrue, NothingSkipped
  <2> QED BY <1>1, <1>2, <1>4, <1>5, <2>1 DEF BundleIsProof
<1>7. BundleWithItsJob' /\ DeadRetentionIsOwned'
  BY <1>1, <1>5 DEF BundleWithItsJob, DeadRetentionIsOwned, NoEvidence
<1>8. EvidenceIsOwned'
  <2>1. CASE e.final
    <3>1. ingested' = r /\ (verification' <=> r \in Verifiers) /\ artifact' = "bound"
      BY <1>3, <2>1 DEF Retain, HandOver, BindManifest
    <3> QED BY <1>5, <2>1, <3>1 DEF EvidenceIsOwned
  <2>2. CASE ~e.final
    <3>1. ingested' = None /\ ~verification'
      BY <1>3, <2>2 DEF Retain, HandOver
    <3> QED BY <3>1, VerifiersAssumption DEF EvidenceIsOwned, None
  <2> QED BY <2>1, <2>2
<1> QED BY <1>6, <1>7, <1>8 DEF BundleIsSound

LEMMA BundleStep ==
    ASSUME TermInv, [TermNext]_allVars
    PROVE  BundleIsSound'
<1>0. /\ TermTypeOK /\ BundleIsProof /\ BundleWithItsJob /\ EvidenceIsOwned
      /\ DeadRetentionIsOwned /\ ObsInv /\ retention \in Retention
  BY DEF TermInv, RetentionIsSound, TermTypeOK
<1>1. CASE Next /\ UNCHANGED termVars
  <2>1. /\ run.terminal => run'.terminal /\ run'.latest = run.latest
        /\ stream.state = "TERMINAL_READY" => stream' = stream
        /\ events \subseteq events'
    BY <1>0, <1>1, EndIsFinal
  <2>2. BundleIsProof'
    BY <1>0, <1>1, <2>1 DEF BundleIsProof, termVars
  <2> QED BY <1>0, <1>1, <2>2 DEF BundleIsSound, BundleWithItsJob, EvidenceIsOwned,
                                  DeadRetentionIsOwned, termVars
<1>2. CASE IssueEvidence
  <2>1. bundle = NoEvidence /\ ingested = None
    <3>1. bundle = NoEvidence
      BY <1>0, <1>2 DEF IssueEvidence, BundleIsProof
    <3> QED BY <1>0, <3>1 DEF EvidenceIsOwned, NoEvidence
  <2> QED BY <1>0, <1>2, <2>1 DEF IssueEvidence, BundleIsSound, BundleIsProof, BundleWithItsJob,
                                  EvidenceIsOwned, DeadRetentionIsOwned, None
<1>3. CASE /\ UNCHANGED <<run, stream, events, evidence, bundle, ingested, artifact, verification>>
           /\ retention.status # "COMPLETED" /\ retention'.status # "COMPLETED"
           /\ retention'.status = "DEAD" => owner' = "open"
  BY <1>0, <1>3 DEF BundleIsSound, BundleIsProof, BundleWithItsJob, EvidenceIsOwned,
                    DeadRetentionIsOwned
<1>4. CASE UNCHANGED <<run, stream, events, evidence, bundle, ingested, artifact, verification,
                       retention, owner>>
  BY <1>0, <1>4 DEF BundleIsSound, BundleIsProof, BundleWithItsJob, EvidenceIsOwned,
                    DeadRetentionIsOwned
<1>5. CASE ProduceRetention \/ RecoverExhausted \/ RetentionLapses
  BY <1>0, <1>3, <1>5 DEF ProduceRetention, RecoverExhausted, RetentionLapses, Retention, obsVars
<1>6. ASSUME NEW r \in Reactors, RetentionStep(r) PROVE BundleIsSound'
  <2>1. CASE Retain(r)
    BY <2>1, RetainStep
  <2>2. CASE ClaimRetention(r)
    BY <1>0, <1>3, <2>2 DEF ClaimRetention, RetentionDue, Retention, obsVars
  <2>3. CASE RetentionFails(r)
    <3>1. retention.status = "RUNNING"
      BY <2>3 DEF RetentionFails, HoldsRetention
    <3>2. /\ retention'.status = IF retention.attempts < MaxAttempts THEN "RETRY" ELSE "DEAD"
          /\ owner' = IF retention.attempts < MaxAttempts THEN owner ELSE "open"
      BY <1>0, <2>3 DEF RetentionFails, Retention
    <3> QED BY <1>3, <2>3, <3>1, <3>2 DEF RetentionFails, obsVars
  <2>4. CASE ReadTerminalEvidence(r) \/ RetentionRefused(r) \/ HandCrashes(r)
    BY <1>4, <2>4 DEF ReadTerminalEvidence, RetentionRefused, HandCrashes, obsVars
  <2> QED BY <1>6, <2>1, <2>2, <2>3, <2>4 DEF RetentionStep
<1> QED BY <1>1, <1>2, <1>4, <1>5, <1>6 DEF TermNext, Surroundings, WorkCloses, PauseDispatch,
        SignerEnds, allVars, termVars, obsVars

-----------------------------------------------------------------------------
LEMMA TermInitially == TermInit => TermInv
<1> SUFFICES ASSUME TermInit PROVE TermInv
  OBVIOUS
<1>1. ObsInv /\ ObsTypeOK
  BY ObsInit DEF TermInit, ObsInv, ObservationIsSound
<1>2. TermTypeOK
  <2>1. NoEvidence \in Evidence /\ EmptyHand \in Hand /\ retention \in Retention
    BY ObservationAssumption DEF TermInit, NoEvidence, Evidence, EmptyHand, Hand, None, Retention
  <2> QED BY <1>1, <2>1 DEF TermInit, TermTypeOK
<1>3. BundleIsProof /\ BundleWithItsJob /\ EvidenceIsOwned /\ DeadRetentionIsOwned
  BY VerifiersAssumption DEF TermInit, BundleIsProof, BundleWithItsJob, EvidenceIsOwned,
                             DeadRetentionIsOwned, None
<1>4. HandsFollow /\ EvidenceIsOfTheEnd
  BY DEF TermInit, HandsFollow, EvidenceIsOfTheEnd, EmptyHand
<1> QED BY <1>1, <1>2, <1>3, <1>4 DEF TermInv, RetentionIsSound

LEMMA TermStep == TermInv /\ [TermNext]_allVars => TermInv'
<1> SUFFICES ASSUME TermInv, [TermNext]_allVars PROVE TermInv'
  OBVIOUS
<1>1. ObsInv' /\ ObsTypeOK'
  BY ObsStep, TermStepObserves DEF TermInv, ObsInv, ObservationIsSound
<1> QED BY <1>1, TermTypeStep, ReadsStep, BundleStep DEF TermInv, RetentionIsSound, BundleIsSound

\* The inductive invariant of the composition.
THEOREM RetentionInvariant == TermSpec => []TermInv
BY TermInitially, TermStep, PTL DEF TermSpec

\* A retained bundle is Runmill's own evidence of a completely observed run,
\* comes with the completion of its job, and what was ingested with it has an
\* owner; a retention that died has one too.
THEOREM RetentionStaysSound == TermSpec => []RetentionIsSound
<1>1. TermInv => RetentionIsSound
  BY DEF TermInv
<1> QED BY <1>1, RetentionInvariant, PTL

\* The bundle is written once, under the present claim and a signer that was
\* not revoked, whatever the reclaimed and crashed retentions still hold.
THEOREM BundleIsWrittenOnce == TermSpec => BundleIsFinal
<1> DEFINE Final == bundle' # bundle =>
               /\ bundle = NoEvidence /\ signer # "revoked"
               /\ \E r \in Reactors : HoldsRetention(r) /\ hand'[r] = EmptyHand
<1>1. TermInv /\ [TermNext]_allVars => [Final]_allVars
  <2> SUFFICES ASSUME TermInv, TermNext PROVE Final
    OBVIOUS
  <2>0. BundleWithItsJob /\ hand \in [Reactors -> Hand]
    BY DEF TermInv, RetentionIsSound, TermTypeOK
  <2>1. ASSUME NEW r \in Reactors, Retain(r) PROVE Final
    <3>1. HoldsRetention(r) /\ hand'[r] = EmptyHand /\ signer # "revoked"
      BY <2>0, <2>1 DEF Retain, ExactRetentionAuthority, Retainable, TrustedSigner
    <3>2. bundle = NoEvidence
      BY <2>0, <3>1 DEF HoldsRetention, BundleWithItsJob
    <3> QED BY <3>1, <3>2
  <2>2. ASSUME NEW r \in Reactors, RetentionStep(r), ~Retain(r) PROVE bundle' = bundle
    BY <2>2 DEF RetentionStep, ClaimRetention, ReadTerminalEvidence, RetentionFails,
                RetentionRefused, HandCrashes
  <2> QED BY <2>1, <2>2 DEF TermNext, Surroundings, WorkCloses, PauseDispatch, SignerEnds,
          IssueEvidence, ProduceRetention, RecoverExhausted, RetentionLapses, termVars
<1>2. TermSpec => [][Final]_allVars
  BY <1>1, RetentionInvariant, PTL DEF TermSpec
<1> QED BY <1>2 DEF BundleIsFinal
=============================================================================
