--------------------------- MODULE ShutdownProofs ---------------------------
(* Theorems about Shutdown, for any number of connections and any capacity *)
(* of the signals' channel.                                                *)
EXTENDS Shutdown, SequenceTheorems, TLAPS

(***************************************************************************)
(* The inductive invariant, in parts.                                      *)
(***************************************************************************)

\* A connection that has been accepted and not reported keeps main busy, so
\* that there is at most one.
OneReport ==
  \A c \in Connections :
     conn[c] = "accepted" =>
       /\ main = "reporting"
       /\ \A d \in Connections : conn[d] = "accepted" => d = c

\* The tracker is stopped by main alone, when it has left its accept loop.
StoppedByMain ==
  /\ deadline # "none" => main \in {"waiting", "exited"}
  /\ finished => deadline # "none"

\* done is closed before the listener is.
DoneFirst ==
  /\ signaller = "closing listener" => done
  /\ ~listening => done

\* This side closes connections at the deadline only.
OpenUntilDeadline == open # Connections => deadline = "passed"

IInv ==
  /\ TypeOK /\ OneReport /\ StoppedByMain /\ DoneFirst /\ OpenUntilDeadline
  /\ TrackerAccurate /\ NothingLeftBehind /\ ResponsesFinished /\ CleanExit

-----------------------------------------------------------------------------

LEMMA InitRight == Init => IInv
<1> SUFFICES ASSUME Init PROVE IInv
  OBVIOUS
<1>1. signals \in Seq(Signals) /\ Len(signals) <= SignalCap
  <2>1. signals \in Seq(Signals) /\ Len(signals) = 0
    BY EmptySeq DEF Init
  <2> QED BY <2>1, ShutdownAssumption
<1> QED
  BY <1>1
  DEF Init, IInv, TypeOK, OneReport, StoppedByMain, DoneFirst, OpenUntilDeadline,
      TrackerAccurate, NothingLeftBehind, ResponsesFinished, CleanExit, Unreported, Ended

\* A channel stays within its capacity after a send and after a receive.
LEMMA SendReceive ==
  ASSUME NEW S, NEW ch \in Seq(S), NEW s \in S, NEW cap \in Nat, Len(ch) <= cap
  PROVE /\ Len(ch) < cap => Append(ch, s) \in Seq(S) /\ Len(Append(ch, s)) <= cap
        /\ ch # << >> => Tail(ch) \in Seq(S) /\ Len(Tail(ch)) <= cap
<1>1. /\ Append(ch, s) \in Seq(S) /\ Len(Append(ch, s)) = Len(ch) + 1
      /\ ch # << >> => Tail(ch) \in Seq(S) /\ Len(Tail(ch)) = Len(ch) - 1
      /\ Len(ch) \in Nat
  BY AppendProperties, HeadTailProperties, LenProperties
<1>2. \A n \in Nat : n <= cap => n - 1 <= cap /\ (n < cap => n + 1 <= cap)
  OBVIOUS
<1> QED BY <1>1, <1>2

\* Signals and what takes them leave connections and the tracker alone.
LEMMA SignalsRight ==
  ASSUME IInv,
         (\E s \in Signals : Signal(s)) \/ TakeSignal \/ CloseDone \/ CloseListener
  PROVE IInv'
<1> USE DEF IInv, TypeOK
<1>0. /\ UNCHANGED <<main, http, sockets, tracker>>
      /\ main \notin Ended
  BY DEF Signal, TakeSignal, CloseDone, CloseListener, Running
<1>1. /\ signals' \in Seq(Signals) /\ Len(signals') <= SignalCap
      /\ signaller' \in {"waiting", "closing done", "closing listener"}
      /\ closed' \in BOOLEAN /\ done' \in BOOLEAN /\ listening' \in BOOLEAN
  <2>1. ASSUME NEW s \in Signals, Signal(s)
        PROVE signals' \in Seq(Signals) /\ Len(signals') <= SignalCap
    <3>1. signals' = Append(signals, s) /\ Len(signals) < SignalCap
      BY <2>1 DEF Signal
    <3> QED BY <3>1, SendReceive, ShutdownAssumption
  <2>2. ASSUME TakeSignal
        PROVE signals' \in Seq(Signals) /\ Len(signals') <= SignalCap
    <3>1. signals # << >> /\ signals' = Tail(signals)
      BY <2>2 DEF TakeSignal
    <3>2. "TERM" \in Signals
      BY DEF Signals
    <3> QED BY <3>1, <3>2, SendReceive, ShutdownAssumption
  <2> QED
    BY <2>1, <2>2 DEF Signal, TakeSignal, CloseDone, CloseListener, signalling
<1>2. TypeOK'
  BY <1>0, <1>1 DEF http, sockets, tracker
<1>3. DoneFirst'
  BY DEF DoneFirst, Signal, TakeSignal, CloseDone, CloseListener
<1>4. CleanExit'
  BY <1>0 DEF CleanExit, Ended
<1>5. (OneReport /\ StoppedByMain /\ OpenUntilDeadline)'
  BY <1>0 DEF OneReport, StoppedByMain, OpenUntilDeadline, http, sockets, tracker
<1>6. (TrackerAccurate /\ NothingLeftBehind /\ ResponsesFinished)'
  BY <1>0 DEF TrackerAccurate, NothingLeftBehind, ResponsesFinished, http, sockets, tracker
<1> QED BY <1>2, <1>3, <1>4, <1>5, <1>6

\* The accept loop and what follows it.
LEMMA MainRight ==
  ASSUME IInv,
         \/ \E c \in Connections : Accept(c) \/ ReportOpened(c)
         \/ AcceptFails \/ ServeReturned \/ StopTracker \/ Exit
  PROVE IInv'
<1> USE DEF IInv, TypeOK, Become, Ended, Unreported, signalling, http, sockets, tracker
<1>1. ASSUME NEW c \in Connections, Accept(c) PROVE IInv'
  BY <1>1 DEF Accept, OneReport, StoppedByMain, DoneFirst, OpenUntilDeadline,
      TrackerAccurate, NothingLeftBehind, ResponsesFinished, CleanExit
<1>2. ASSUME NEW c \in Connections, ReportOpened(c) PROVE IInv'
  <2>1. ~finished /\ deadline = "none"
    BY <1>2 DEF ReportOpened, Selecting, StoppedByMain
  <2>2. \A d \in Connections \ {c} : conn[d] # "accepted" /\ conn'[d] = conn[d]
    BY <1>2 DEF ReportOpened, OneReport
  <2>3. conn'[c] = "idle" /\ connections' = connections \cup {c}
    BY <1>2 DEF ReportOpened
  <2>4. TypeOK'
    BY <1>2 DEF ReportOpened
  <2>5. TrackerAccurate'
    BY <1>2, <2>2, <2>3 DEF ReportOpened, TrackerAccurate
  <2>6. OneReport'
    BY <2>2, <2>3 DEF OneReport
  <2> QED
    BY <1>2, <2>1, <2>4, <2>5, <2>6 DEF ReportOpened, StoppedByMain, DoneFirst,
        OpenUntilDeadline, NothingLeftBehind, ResponsesFinished, CleanExit
<1>3. ASSUME AcceptFails PROVE IInv'
  BY <1>3 DEF AcceptFails, OneReport, StoppedByMain, DoneFirst, OpenUntilDeadline,
      TrackerAccurate, NothingLeftBehind, ResponsesFinished, CleanExit
<1>4. ASSUME ServeReturned PROVE IInv'
  BY <1>4 DEF ServeReturned, OneReport, StoppedByMain, DoneFirst, OpenUntilDeadline,
      TrackerAccurate, NothingLeftBehind, ResponsesFinished, CleanExit
<1>5. ASSUME StopTracker PROVE IInv'
  BY <1>5 DEF StopTracker, Selecting, OneReport, StoppedByMain, DoneFirst,
      OpenUntilDeadline, TrackerAccurate, NothingLeftBehind, ResponsesFinished, CleanExit
<1>6. ASSUME Exit PROVE IInv'
  BY <1>6 DEF Exit, OneReport, StoppedByMain, DoneFirst, OpenUntilDeadline,
      TrackerAccurate, NothingLeftBehind, ResponsesFinished, CleanExit
<1> QED BY <1>1, <1>2, <1>3, <1>4, <1>5, <1>6

\* The tracker's own steps: when it finishes its map is empty, and main has
\* left the accept loop.
LEMMA TrackerRight == ASSUME IInv, DeadlinePasses \/ FinishTracking PROVE IInv'
<1> USE DEF IInv, TypeOK, Ended, Unreported, signalling, http, sockets, tracker
<1>1. ASSUME DeadlinePasses PROVE IInv'
  BY <1>1 DEF DeadlinePasses, OneReport, StoppedByMain, DoneFirst, OpenUntilDeadline,
      TrackerAccurate, NothingLeftBehind, ResponsesFinished, CleanExit
<1>2. ASSUME FinishTracking PROVE IInv'
  <2>1. deadline # "none" /\ connections = {}
    BY <1>2 DEF FinishTracking, Selecting
  <2>2. main \in {"waiting", "exited"}
    BY <2>1 DEF StoppedByMain
  <2>3. ASSUME NEW c \in Connections PROVE conn[c] \in {"none", "closed"}
    BY <2>1, <2>2 DEF TrackerAccurate, OneReport
  <2>4. NothingLeftBehind'
    BY <1>2, <2>2, <2>3 DEF FinishTracking, NothingLeftBehind
  <2> QED
    BY <1>2, <2>1, <2>2, <2>4 DEF FinishTracking, OneReport, StoppedByMain, DoneFirst,
        OpenUntilDeadline, TrackerAccurate, ResponsesFinished, CleanExit
<1> QED BY <1>1, <1>2

\* What net/http does with a connection.
LEMMA ConnectionsRight ==
  ASSUME IInv, NEW c \in Connections,
         \/ Request(c) \/ StartHandler(c) \/ ReceiveBody(c) \/ BodyEndsEarly(c)
         \/ FinishResponse(c) \/ CutResponse(c) \/ EndOfRequests(c) \/ ReportClosed(c)
  PROVE IInv'
<1> USE DEF IInv, TypeOK, Become, Ended, Unreported, signalling, http, sockets, tracker
<1>1. CASE Request(c)
  BY <1>1 DEF Request, OneReport, StoppedByMain, DoneFirst, OpenUntilDeadline,
      TrackerAccurate, NothingLeftBehind, ResponsesFinished, CleanExit
<1>3. CASE FinishResponse(c)
  BY <1>3 DEF FinishResponse, OneReport, StoppedByMain, DoneFirst, OpenUntilDeadline,
      TrackerAccurate, NothingLeftBehind, ResponsesFinished, CleanExit
<1>4. CASE CutResponse(c)
  <2>1. deadline = "passed"
    BY <1>4 DEF CutResponse, OpenUntilDeadline
  <2> QED
    BY <1>4, <2>1 DEF CutResponse, OneReport, StoppedByMain, DoneFirst, OpenUntilDeadline,
        TrackerAccurate, NothingLeftBehind, ResponsesFinished, CleanExit
<1>5. CASE ReportClosed(c)
  BY <1>5 DEF ReportClosed, OneReport, StoppedByMain, DoneFirst, OpenUntilDeadline,
      TrackerAccurate, NothingLeftBehind, ResponsesFinished, CleanExit
<1>6. CASE StartHandler(c)
  BY <1>6 DEF StartHandler, OneReport, StoppedByMain, DoneFirst, OpenUntilDeadline,
      TrackerAccurate, NothingLeftBehind, ResponsesFinished, CleanExit
<1>7. CASE ReceiveBody(c)
  BY <1>7 DEF ReceiveBody, OneReport, StoppedByMain, DoneFirst, OpenUntilDeadline,
      TrackerAccurate, NothingLeftBehind, ResponsesFinished, CleanExit
<1>8. CASE BodyEndsEarly(c)
  BY <1>8 DEF BodyEndsEarly, OneReport, StoppedByMain, DoneFirst, OpenUntilDeadline,
      TrackerAccurate, NothingLeftBehind, ResponsesFinished, CleanExit
<1>9. CASE EndOfRequests(c)
  BY <1>9 DEF EndOfRequests, OneReport, StoppedByMain, DoneFirst, OpenUntilDeadline,
      TrackerAccurate, NothingLeftBehind, ResponsesFinished, CleanExit
<1> QED BY <1>1, <1>3, <1>4, <1>5, <1>6, <1>7, <1>8, <1>9

LEMMA StepRight == IInv /\ [Next]_vars => IInv'
<1> SUFFICES ASSUME IInv, [Next]_vars PROVE IInv'
  OBVIOUS
<1>1. CASE UNCHANGED vars
  BY <1>1 DEF vars, signalling, http, sockets, tracker, IInv, TypeOK, OneReport,
      StoppedByMain, DoneFirst, OpenUntilDeadline, TrackerAccurate, NothingLeftBehind,
      ResponsesFinished, CleanExit
<1>2. CASE Next
  BY <1>2, SignalsRight, MainRight, TrackerRight, ConnectionsRight DEF Next
<1> QED BY <1>1, <1>2

LEMMA AlwaysRight == Spec => []IInv
<1> QED
  BY InitRight, StepRight, PTL DEF Spec

-----------------------------------------------------------------------------

\* The types of Shutdown hold, and no step panics, for any connections.
THEOREM ShutdownTypeCorrect == Spec => []TypeOK
<1>1. IInv => TypeOK
  BY DEF IInv
<1> QED BY <1>1, AlwaysRight, PTL

\* The tracker always knows exactly the connections that are being served.
THEOREM TrackerIsAccurate == Spec => []TrackerAccurate
<1>1. IInv => TrackerAccurate
  BY DEF IInv
<1> QED BY <1>1, AlwaysRight, PTL

\* The process is let go only when no handler runs any more, and nobody waits
\* for the tracker when it has finished.
THEOREM NothingIsLeftBehind == Spec => []NothingLeftBehind
<1>1. IInv => NothingLeftBehind
  BY DEF IInv
<1> QED BY <1>1, AlwaysRight, PTL

\* No response is cut before the deadline.
THEOREM ResponsesAreFinished == Spec => []ResponsesFinished
<1>1. IInv => ResponsesFinished
  BY DEF IInv
<1> QED BY <1>1, AlwaysRight, PTL

\* A shutdown that was asked for never ends as a failure.
THEOREM ExitIsClean == Spec => []CleanExit
<1>1. IInv => CleanExit
  BY DEF IInv
<1> QED BY <1>1, AlwaysRight, PTL
=============================================================================
