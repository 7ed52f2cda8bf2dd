--------------------------- MODULE ReadForwarding ---------------------------
(***************************************************************************)
(* A GET for a file that may not be here: openFile for the two variants,   *)
(* then forwardRead, which asks every target at once, passes on the first  *)
(* good response, and says that the file is not found only when all of     *)
(* them have said so or failed.                                            *)
(*                                                                         *)
(* Three kinds of goroutines take part: the request's handler, one that    *)
(* aggregates (ReplicationTargets.forwardRequest), and a getter for each   *)
(* target (ReplicationTarget.forwardRequest).  Both of their channels are  *)
(* unbuffered, so that a send and its receive are one step.  Files appear, *)
(* here and at the targets, at any time; none is ever removed.             *)
(*                                                                         *)
(* A target is asked with forward=0 and so answers from its own disk.  The *)
(* file's bytes are left out; how much of a body is copied is not told     *)
(* apart.                                                                  *)
(***************************************************************************)
EXTENDS Naturals, FiniteSets

CONSTANTS
  Targets,        \* the replication targets
  Unusable        \* sets of targets that http.NewRequest takes no address of

ASSUME ForwardingAssumption ==
  IsFiniteSet(Targets) /\ Unusable \subseteq SUBSET Targets

Variants == {"plain", "gz"}

VARIABLES
  here,           \* variants of the file on this node
  has,            \* targets that have the file
  unusable,       \* the targets whose address cannot be parsed
  atStart,        \* history: what here and has were when the request came
  handler,        \* where the request's handler is
  aggregator,     \* where the aggregating goroutine is
  left,           \* responses it has still to receive
  success,        \* its local variable: a response has been passed on
  winner,         \* targets whose response it has passed on or is passing on
  getter,         \* target -> where its goroutine is
  body,           \* target -> the body of its response
  failed,         \* targets that did not answer 200 or 404
  crashed         \* whether the process has panicked

disks == <<here, has, unusable, atStart>>
aggregation == <<aggregator, left, success, winner>>
getting == <<getter, body, failed>>
vars == <<disks, handler, aggregation, getting, crashed>>

Answered == {"found here", "forwarded", "not found"}

\* Getters that have sent all they will ever send on responses.
Sent == {"ended", "panicking"}

Init ==
  /\ here \in SUBSET Variants
  /\ has \in SUBSET Targets
  /\ unusable \in Unusable
  /\ atStart = [here |-> here, has |-> has]
  /\ handler = "opening"
  /\ aggregator = "off" /\ left = 0 /\ success = FALSE /\ winner = {}
  /\ getter = [t \in Targets |-> "off"]
  /\ body = [t \in Targets |-> "none"]
  /\ failed = {}
  /\ crashed = FALSE

-----------------------------------------------------------------------------
(* The disks *)

StoreHere(v) ==
  /\ ~crashed /\ v \notin here
  /\ here' = here \cup {v}
  /\ UNCHANGED <<has, unusable, atStart, handler, aggregation, getting, crashed>>

StoreThere(t) ==
  /\ ~crashed /\ t \notin has
  /\ has' = has \cup {t}
  /\ UNCHANGED <<here, unusable, atStart, handler, aggregation, getting, crashed>>

-----------------------------------------------------------------------------
(* The handler *)

OpenPlain ==
  /\ ~crashed /\ handler = "opening"
  /\ handler' = IF "plain" \in here THEN "found here" ELSE "opening gz"
  /\ UNCHANGED <<disks, aggregation, getting, crashed>>

OpenGz ==
  /\ ~crashed /\ handler = "opening gz" /\ "gz" \in here
  /\ handler' = "found here"
  /\ UNCHANGED <<disks, aggregation, getting, crashed>>

\* shouldForwardRead: the request says forward=0, or does not look like one
\* for a file.
DoNotForward ==
  /\ ~crashed /\ handler = "opening gz" /\ "gz" \notin here
  /\ handler' = "not found"
  /\ UNCHANGED <<disks, aggregation, getting, crashed>>

\* Mutant: the loop runs once too often.
ForwardOneTooMany ==
  /\ ~crashed /\ handler = "opening gz" /\ "gz" \notin here
  /\ handler' = "waiting"
  /\ aggregator' = "receiving" /\ left' = Cardinality(Targets) + 1
  /\ getter' = [t \in Targets |-> "starting"]
  /\ UNCHANGED <<disks, success, winner, body, failed, crashed>>

\* forwardRead starts the aggregating goroutine, which starts the getters.
Forward ==
  /\ ~crashed /\ handler = "opening gz" /\ "gz" \notin here
  /\ handler' = "waiting"
  /\ aggregator' = "receiving" /\ left' = Cardinality(Targets)
  /\ getter' = [t \in Targets |-> "starting"]
  /\ UNCHANGED <<disks, success, winner, body, failed, crashed>>

\* The body has been copied to the client, or one of the two has failed.
CopyBody(t) ==
  /\ ~crashed /\ handler = "copying" /\ t \in winner
  /\ handler' = "forwarded"
  /\ body' = [body EXCEPT ![t] = "closed"]
  /\ UNCHANGED <<disks, aggregation, getter, failed, crashed>>

-----------------------------------------------------------------------------
(* The aggregating goroutine *)

\* Getter t sends on responses and this goroutine receives.
Receive(t) ==
  /\ aggregator = "receiving" /\ left > 0
  /\ left' = left - 1
  /\ getter' = [getter EXCEPT ![t] = IF @ = "unset" THEN "panicking" ELSE "ended"]

\* Mutant: one failure is taken for the answer of all.
ReceiveNilGivingUp(t) ==
  /\ ~crashed /\ getter[t] \in {"bad", "unset"}
  /\ Receive(t)
  /\ handler' = IF handler = "waiting" THEN "not found" ELSE handler
  /\ UNCHANGED <<disks, aggregator, success, winner, body, failed, crashed>>

ReceiveNil(t) ==
  /\ ~crashed /\ getter[t] \in {"bad", "unset"}
  /\ Receive(t)
  /\ UNCHANGED <<disks, handler, aggregator, success, winner, body, failed, crashed>>

\* The first good response is to be passed on.
ReceiveFirst(t) ==
  /\ ~crashed /\ getter[t] = "good" /\ ~success
  /\ aggregator = "receiving" /\ left > 0
  /\ left' = left - 1
  /\ getter' = [getter EXCEPT ![t] = "ended"]
  /\ success' = TRUE
  /\ winner' = winner \cup {t}
  /\ aggregator' = "passing"
  /\ UNCHANGED <<disks, handler, body, failed, crashed>>

\* Mutant: the responses that come too late are not closed.
ReceiveLaterOpen(t) ==
  /\ ~crashed /\ getter[t] = "good" /\ success
  /\ Receive(t)
  /\ UNCHANGED <<disks, handler, aggregator, success, winner, body, failed, crashed>>

\* The responses that come after it are closed.
ReceiveLater(t) ==
  /\ ~crashed /\ getter[t] = "good" /\ success
  /\ Receive(t)
  /\ body' = [body EXCEPT ![t] = "closed"]
  /\ UNCHANGED <<disks, handler, aggregator, success, winner, failed, crashed>>

\* Mutant: the goroutine ends once it has passed a response on.
PassOnAndEnd ==
  /\ ~crashed /\ aggregator = "passing" /\ handler = "waiting"
  /\ aggregator' = "ended"
  /\ handler' = "copying"
  /\ UNCHANGED <<disks, left, success, winner, getting, crashed>>

PassOn ==
  /\ ~crashed /\ aggregator = "passing" /\ handler = "waiting"
  /\ aggregator' = "receiving"
  /\ handler' = "copying"
  /\ UNCHANGED <<disks, left, success, winner, getting, crashed>>

\* Mutant: nothing is sent if there was no success.
GiveUpSilently ==
  /\ ~crashed /\ aggregator = "receiving" /\ left = 0 /\ ~success
  /\ aggregator' = "ended"
  /\ UNCHANGED <<disks, handler, left, success, winner, getting, crashed>>

\* No target had the file: nil is sent, and both channels are closed.
GiveUp ==
  /\ ~crashed /\ aggregator = "receiving" /\ left = 0 /\ ~success
  /\ handler = "waiting"
  /\ aggregator' = "ended"
  /\ handler' = "not found"
  /\ UNCHANGED <<disks, left, success, winner, getting, crashed>>

CloseChannels ==
  /\ ~crashed /\ aggregator = "receiving" /\ left = 0 /\ success
  /\ aggregator' = "ended"
  /\ UNCHANGED <<disks, handler, left, success, winner, getting, crashed>>

-----------------------------------------------------------------------------
(* The getters *)

SetUpRequest(t) ==
  /\ ~crashed /\ getter[t] = "starting" /\ t \notin unusable
  /\ getter' = [getter EXCEPT ![t] = "requesting"]
  /\ UNCHANGED <<disks, handler, aggregation, body, failed, crashed>>

\* http.NewRequest returns an error and no request; nil is sent, ...
SetUpFails(t) ==
  /\ ~crashed /\ getter[t] = "starting" /\ t \in unusable
  /\ getter' = [getter EXCEPT ![t] = "unset"]
  /\ failed' = failed \cup {t}
  /\ UNCHANGED <<disks, handler, aggregation, body, crashed>>

\* ... and the request is used all the same, which ends the process.
UseNoRequest(t) ==
  /\ ~crashed /\ getter[t] = "panicking"
  /\ crashed' = TRUE
  /\ UNCHANGED <<disks, handler, aggregation, getting>>

\* The target answers from its own disk, 200 or 404.
TargetAnswers(t) ==
  /\ ~crashed /\ getter[t] = "requesting"
  /\ getter' = [getter EXCEPT ![t] = IF t \in has THEN "good" ELSE "bad"]
  /\ body' = [body EXCEPT ![t] = IF t \in has THEN "open" ELSE "closed"]
  /\ UNCHANGED <<disks, handler, aggregation, failed, crashed>>

\* The connection fails, proxyClient's timeout passes, or the target answers
\* with another status.
RequestFails(t) ==
  /\ ~crashed /\ getter[t] = "requesting"
  /\ getter' = [getter EXCEPT ![t] = "bad"]
  /\ failed' = failed \cup {t}
  /\ \/ UNCHANGED body
     \/ body' = [body EXCEPT ![t] = "closed"]
  /\ UNCHANGED <<disks, handler, aggregation, crashed>>

-----------------------------------------------------------------------------

HandlerStep == OpenPlain \/ OpenGz \/ DoNotForward \/ Forward
                 \/ \E t \in Targets : CopyBody(t)

AggregatorStep ==
  \/ PassOn \/ GiveUp \/ CloseChannels
  \/ \E t \in Targets : ReceiveNil(t) \/ ReceiveFirst(t) \/ ReceiveLater(t)

GetterStep(t) == SetUpRequest(t) \/ SetUpFails(t) \/ UseNoRequest(t)

RequestEnds(t) == TargetAnswers(t) \/ RequestFails(t)

Next ==
  \/ \E v \in Variants : StoreHere(v)
  \/ OpenPlain \/ OpenGz \/ DoNotForward \/ Forward
  \/ PassOn \/ GiveUp \/ CloseChannels
  \/ \E t \in Targets :
        \/ StoreThere(t) \/ CopyBody(t)
        \/ ReceiveNil(t) \/ ReceiveFirst(t) \/ ReceiveLater(t)
        \/ SetUpRequest(t) \/ SetUpFails(t) \/ UseNoRequest(t)
        \/ TargetAnswers(t) \/ RequestFails(t)

Spec == Init /\ [][Next]_vars

\* Goroutines run, and a request has its timeout.
FairSpec ==
  /\ Spec
  /\ WF_vars(HandlerStep) /\ WF_vars(AggregatorStep)
  /\ \A t \in Targets : WF_vars(GetterStep(t)) /\ WF_vars(RequestEnds(t))

-----------------------------------------------------------------------------
(* Properties *)

\* Every variable keeps to its type, and the count of responses to its bound.
TypeOK ==
  /\ here \subseteq Variants /\ has \subseteq Targets /\ unusable \in Unusable
  /\ atStart.here \subseteq here /\ atStart.has \subseteq has
  /\ handler \in {"opening", "opening gz", "waiting", "copying"} \cup Answered
  /\ aggregator \in {"off", "receiving", "passing", "ended"}
  /\ left \in 0..Cardinality(Targets)
  /\ success \in BOOLEAN /\ winner \subseteq Targets
  /\ getter \in [Targets -> {"off", "starting", "unset", "requesting", "good", "bad"} \cup Sent]
  /\ body \in [Targets -> {"none", "open", "closed"}]
  /\ failed \subseteq Targets
  /\ crashed \in BOOLEAN

\* A file that was here when it was asked for is never answered 404; nor, when
\* the request is forwarded, one that a target had, unless that target failed.
\* One target's answer never stands for another's, and the first good one is
\* never lost.
NotFoundIsTrue ==
  handler = "not found" =>
    atStart.here = {} /\ (aggregator # "off" => atStart.has \subseteq failed)

\* Every open body has exactly one goroutine that will read or close it, and
\* the body that is being copied to the client is not closed under it.
OneOwnerPerBody ==
  /\ \A t \in Targets :
        body[t] = "open" <=>
          \/ getter[t] = "good"
          \/ t \in winner /\ (aggregator = "passing" \/ handler = "copying")
  /\ \A t, u \in winner : t = u

\* When the aggregating goroutine closes responses, every getter has sent
\* what it had to send: none panics, and none waits for ever.
NoSendOnClosedChannel ==
  aggregator = "ended" => \A t \in Targets : getter[t] \in Sent

\* Every request is answered, and nothing is left of it: no goroutine and no
\* open body, however the targets fail; unless the process has crashed.
EverythingReleased ==
  <>(\/ crashed
     \/ /\ handler \in Answered
        /\ aggregator \in {"off", "ended"}
        /\ \A t \in Targets : getter[t] \in {"off", "ended"} /\ body[t] # "open")
=============================================================================
