------------------------------ MODULE Shutdown ------------------------------
(***************************************************************************)
(* How a Verm process ends: waitForSignals and the end of main in verm.go, *)
(* http_server.go, and the goroutine of connection_tracker.go.             *)
(*                                                                         *)
(* The tracker is told of connections over unbuffered channels: opened is  *)
(* sent on by the accept loop, which runs in main's own goroutine, and     *)
(* closed by the goroutine that serves the connection, so each of them     *)
(* waits until the tracker is at its select.                               *)
(*                                                                         *)
(* What net/http does with a connection is modelled as far as the tracker  *)
(* depends on it: it reads requests one at a time, runs the handler in the *)
(* connection's goroutine, and reports the connection closed only after    *)
(* the handler has returned.  Not modelled: server.Closed, which           *)
(* vermServer's Shutdown sets in a copy of the server that nobody reads.   *)
(***************************************************************************)
EXTENDS Naturals, Sequences

CONSTANTS
  Connections,    \* connections clients may make, each of them once
  SignalCap       \* capacity of the channel signals are notified on

ASSUME ShutdownAssumption == SignalCap \in Nat

Signals == {"TERM", "USR1"}   \* SIGINT is as SIGTERM, SIGUSR2 as SIGUSR1

VARIABLES
  main,           \* where main's goroutine is
  signals,        \* the channel waitForSignals reads
  signaller,      \* where waitForSignals is
  closed,         \* its local variable: a shutdown was asked for
  done,           \* whether the channel done is closed
  listening,      \* whether the listener is open
  conn,           \* connection -> what net/http does with it
  requested,      \* connections with a request that has not been read yet
  readable,       \* connections whose read side is open
  open,           \* connections this side has not closed
  connections,    \* the tracker's map
  deadline,       \* "none", "running" or "passed"
  finished,       \* whether track has returned
  cut             \* connections closed by the tracker in mid-response

signalling == <<signals, signaller, closed, done, listening>>
http == <<conn, requested, cut>>
sockets == <<readable, open>>
tracker == <<connections, deadline, finished>>
vars == <<main, signalling, http, sockets, tracker>>

Ended == {"exited", "failed"}
Running == main \notin Ended
InHandler(c) == conn[c] \in {"receiving", "responding"}
Unreported == {"none", "accepted", "closed"}

\* The loop condition of track, tested after every case of its select.
Selecting == ~finished /\ (deadline = "none" \/ connections # {})

Init ==
  /\ main = "accepting"
  /\ signals = << >> /\ signaller = "waiting"
  /\ closed = FALSE /\ done = FALSE /\ listening = TRUE
  /\ conn = [c \in Connections |-> "none"]
  /\ requested = {}
  /\ readable = Connections /\ open = Connections
  /\ connections = {} /\ deadline = "none" /\ finished = FALSE
  /\ cut = {}

Become(c, state) == conn' = [conn EXCEPT ![c] = state]

-----------------------------------------------------------------------------
(* Signals *)

\* signal.Notify drops a signal for which the channel has no room.
Signal(s) ==
  /\ Running /\ Len(signals) < SignalCap
  /\ signals' = Append(signals, s)
  /\ UNCHANGED <<main, signaller, closed, done, listening, http, sockets, tracker>>

\* Mutant: a second signal closes the channel again, which panics.
TakeEverySignal ==
  /\ Running /\ signaller = "waiting" /\ signals # << >>
  /\ signals' = Tail(signals)
  /\ \/ /\ Head(signals) = "TERM" /\ ~closed
        /\ closed' = TRUE
        /\ signaller' = "closing done"
        /\ UNCHANGED main
     \/ /\ Head(signals) = "TERM" /\ closed
        /\ main' = "panicked"
        /\ UNCHANGED <<closed, signaller>>
     \/ /\ Head(signals) # "TERM"
        /\ UNCHANGED <<main, closed, signaller>>
  /\ UNCHANGED <<done, listening, http, sockets, tracker>>

\* Only the first SIGTERM starts the shutdown.
TakeSignal ==
  /\ Running /\ signaller = "waiting" /\ signals # << >>
  /\ signals' = Tail(signals)
  /\ IF Head(signals) = "TERM" /\ ~closed
     THEN closed' = TRUE /\ signaller' = "closing done"
     ELSE UNCHANGED <<closed, signaller>>
  /\ UNCHANGED <<main, done, listening, http, sockets, tracker>>

\* Mutant: the listener is closed before done is.
CloseListenerFirst ==
  /\ Running /\ signaller = "closing done"
  /\ IF listening
     THEN listening' = FALSE /\ UNCHANGED <<done, signaller>>
     ELSE done' = TRUE /\ signaller' = "closing listener" /\ UNCHANGED listening
  /\ UNCHANGED <<main, signals, closed, http, sockets, tracker>>

CloseDone ==
  /\ Running /\ signaller = "closing done"
  /\ done' = TRUE
  /\ signaller' = "closing listener"
  /\ UNCHANGED <<main, signals, closed, listening, http, sockets, tracker>>

\* server.Shutdown
CloseListener ==
  /\ Running /\ signaller = "closing listener"
  /\ listening' = FALSE
  /\ signaller' = "waiting"
  /\ UNCHANGED <<main, signals, closed, done, http, sockets, tracker>>

-----------------------------------------------------------------------------
(* main: the accept loop of Serve, and what follows it *)

Accept(c) ==
  /\ main = "accepting" /\ listening /\ conn[c] = "none"
  /\ main' = "reporting"
  /\ Become(c, "accepted")
  /\ UNCHANGED <<signalling, requested, cut, sockets, tracker>>

\* The ConnState callback sends the new connection to the tracker before its
\* goroutine is started.
ReportOpened(c) ==
  /\ main = "reporting" /\ conn[c] = "accepted" /\ Selecting
  /\ connections' = connections \cup {c}
  /\ Become(c, "idle")
  /\ main' = "accepting"
  /\ UNCHANGED <<signalling, requested, cut, sockets, deadline, finished>>

\* Accept returns an error for good: the listener was closed, or broke.
AcceptFails ==
  /\ main = "accepting"
  /\ main' = "returned"
  /\ UNCHANGED <<signalling, http, sockets, tracker>>

\* After Serve: an error that no signal explains ends the process at once.
ServeReturned ==
  /\ main = "returned"
  /\ main' = IF done THEN "stopping" ELSE "failed"
  /\ UNCHANGED <<signalling, http, sockets, tracker>>

\* Mutant: Close in place of CloseRead.
StopTrackerClosing ==
  /\ main = "stopping" /\ Selecting
  /\ main' = "waiting"
  /\ deadline' = "running"
  /\ open' = open \ connections
  /\ UNCHANGED <<signalling, http, readable, connections, finished>>

\* Tracker.Shutdown hands the tracker a timer, and the tracker closes the read
\* side of every connection.
StopTracker ==
  /\ main = "stopping" /\ Selecting
  /\ main' = "waiting"
  /\ deadline' = "running"
  /\ readable' = readable \ connections
  /\ UNCHANGED <<signalling, http, open, connections, finished>>

Exit ==
  /\ main = "waiting" /\ finished
  /\ main' = "exited"
  /\ UNCHANGED <<signalling, http, sockets, tracker>>

-----------------------------------------------------------------------------
(* The tracker *)

\* Mutant: the connections are forgotten once they have been closed.
DeadlinePassesForgetting ==
  /\ Running /\ Selecting /\ deadline = "running"
  /\ deadline' = "passed"
  /\ open' = open \ connections
  /\ connections' = {}
  /\ UNCHANGED <<main, signalling, http, readable, finished>>

\* Mutant: the deadline passes and nothing is closed.
DeadlinePassesIdly ==
  /\ Running /\ Selecting /\ deadline = "running"
  /\ deadline' = "passed"
  /\ UNCHANGED <<main, signalling, http, sockets, connections, finished>>

DeadlinePasses ==
  /\ Running /\ Selecting /\ deadline = "running"
  /\ deadline' = "passed"
  /\ open' = open \ connections
  /\ UNCHANGED <<main, signalling, http, readable, connections, finished>>

\* The loop ends and finished is closed.
FinishTracking ==
  /\ Running /\ ~finished /\ ~Selecting
  /\ finished' = TRUE
  /\ UNCHANGED <<main, signalling, http, sockets, connections, deadline>>

-----------------------------------------------------------------------------
(* Connections: clients, and the goroutines of net/http *)

\* A client sends a request, or the start of one.
Request(c) ==
  /\ Running /\ conn[c] \notin {"none", "closing", "closed"}
  /\ c \notin requested /\ c \in readable
  /\ requested' = requested \cup {c}
  /\ UNCHANGED <<main, signalling, conn, cut, sockets, tracker>>

\* What arrived before CloseRead can still be read.
StartHandler(c) ==
  /\ Running /\ conn[c] = "idle" /\ c \in requested /\ c \in open
  /\ requested' = requested \ {c}
  /\ Become(c, "receiving")
  /\ UNCHANGED <<main, signalling, cut, sockets, tracker>>

\* The handler has the whole body, or there is none.
ReceiveBody(c) ==
  /\ Running /\ conn[c] = "receiving" /\ c \in open
  /\ Become(c, "responding")
  /\ UNCHANGED <<main, signalling, requested, cut, sockets, tracker>>

\* The body ends early: the client left, or either side was closed.  The
\* handler removes its tempfile and returns an error.
BodyEndsEarly(c) ==
  /\ Running /\ conn[c] = "receiving"
  /\ Become(c, "closing")
  /\ UNCHANGED <<main, signalling, requested, cut, sockets, tracker>>

\* The response is written, and the connection kept or not.
FinishResponse(c) ==
  /\ Running /\ conn[c] = "responding" /\ c \in open
  /\ Become(c, "idle") \/ Become(c, "closing")
  /\ UNCHANGED <<main, signalling, requested, cut, sockets, tracker>>

\* Writing fails on a connection that the tracker has closed.
CutResponse(c) ==
  /\ Running /\ conn[c] = "responding" /\ c \notin open
  /\ Become(c, "closing")
  /\ cut' = cut \cup {c}
  /\ UNCHANGED <<main, signalling, requested, sockets, tracker>>

\* There is no further request: the read side or the whole connection was
\* closed by the tracker, or the client is done.
EndOfRequests(c) ==
  /\ Running /\ conn[c] = "idle"
  /\ c \notin requested \/ c \notin open
  /\ Become(c, "closing")
  /\ UNCHANGED <<main, signalling, requested, cut, sockets, tracker>>

\* Mutant: a connection that is closed stays in the map.
ReportClosedKeeping(c) ==
  /\ Running /\ conn[c] = "closing" /\ Selecting
  /\ Become(c, "closed")
  /\ UNCHANGED <<main, signalling, requested, cut, sockets, tracker>>

\* The ConnState callback sends the closed connection to the tracker.
ReportClosed(c) ==
  /\ Running /\ conn[c] = "closing" /\ Selecting
  /\ connections' = connections \ {c}
  /\ Become(c, "closed")
  /\ UNCHANGED <<main, signalling, requested, cut, sockets, deadline, finished>>

-----------------------------------------------------------------------------

SignallerStep == TakeSignal \/ CloseDone \/ CloseListener

MainStep ==
  \/ \E c \in Connections : ReportOpened(c)
  \/ ~listening /\ AcceptFails
  \/ ServeReturned \/ StopTracker \/ Exit

\* What a connection's goroutine does in the end whatever its client does:
\* nothing more is to be had from a socket whose side is closed.
ConnectionStep(c) ==
  \/ c \notin readable /\ (BodyEndsEarly(c) \/ EndOfRequests(c) \/ StartHandler(c))
  \/ c \notin open /\ (BodyEndsEarly(c) \/ EndOfRequests(c))
  \/ CutResponse(c) \/ ReportClosed(c)

Next ==
  \/ \E s \in Signals : Signal(s)
  \/ TakeSignal \/ CloseDone \/ CloseListener
  \/ AcceptFails \/ ServeReturned \/ StopTracker \/ Exit
  \/ DeadlinePasses \/ FinishTracking
  \/ \E c \in Connections :
        \/ Accept(c) \/ ReportOpened(c)
        \/ Request(c) \/ StartHandler(c) \/ ReceiveBody(c) \/ BodyEndsEarly(c)
        \/ FinishResponse(c) \/ CutResponse(c) \/ EndOfRequests(c) \/ ReportClosed(c)

Spec == Init /\ [][Next]_vars

\* Goroutines run and the timer fires; nothing is assumed of clients.
FairSpec ==
  /\ Spec
  /\ WF_vars(SignallerStep) /\ WF_vars(MainStep)
  /\ WF_vars(DeadlinePasses) /\ WF_vars(FinishTracking)
  /\ \A c \in Connections : WF_vars(ConnectionStep(c))

-----------------------------------------------------------------------------
(* Properties *)

\* Every variable keeps to its type; no step panics, and no signal blocks.
TypeOK ==
  /\ main \in {"accepting", "reporting", "returned", "stopping", "waiting"} \cup Ended
  /\ signals \in Seq(Signals) /\ Len(signals) <= SignalCap
  /\ signaller \in {"waiting", "closing done", "closing listener"}
  /\ closed \in BOOLEAN /\ done \in BOOLEAN /\ listening \in BOOLEAN
  /\ conn \in [Connections -> Unreported \cup
                 {"idle", "receiving", "responding", "closing"}]
  /\ requested \subseteq Connections /\ cut \subseteq Connections
  /\ readable \subseteq Connections /\ open \subseteq Connections
  /\ connections \subseteq Connections
  /\ deadline \in {"none", "running", "passed"}
  /\ finished \in BOOLEAN

\* The tracker's map holds the connections that net/http serves, all of them
\* and no others, so that a shutdown waits for what it should wait for.
TrackerAccurate == connections = {c \in Connections : conn[c] \notin Unreported}

\* When main has been let go by the tracker no handler is running, not even
\* one whose connection the deadline has closed, and nobody is left to wait
\* for the tracker: an upload cut off by a shutdown has removed its tempfile
\* before the process exits (test_cleans_tempfiles_on_shutdown).
NothingLeftBehind ==
  finished => main # "reporting" /\ \A c \in Connections : conn[c] \in {"none", "closed"}

\* A response that has been started is finished, however slow its client is,
\* unless the deadline passes (test_serves_complete_file_if_shutdown_initiated).
ResponsesFinished == cut # {} => deadline = "passed"

\* A shutdown that was asked for is never taken for a failure of the listener.
CleanExit == main = "failed" => listening

\* A SIGTERM that got into the channel ends the process, whatever clients do
\* with their connections and whatever other signals arrive.
TermEndsProcess == (\E i \in DOMAIN signals : signals[i] = "TERM") ~> ~Running
=============================================================================
