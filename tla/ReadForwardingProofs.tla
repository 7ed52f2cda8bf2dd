------------------------ MODULE ReadForwardingProofs ------------------------
(* Theorems about ReadForwarding, for any finite number of targets. *)
EXTENDS ReadForwarding, FiniteSetTheorems, TLAPS

(***************************************************************************)
(* The inductive invariant, in parts.                                      *)
(***************************************************************************)

\* Getters whose one send on responses is still to come.
Unsent == {t \in Targets : getter[t] \notin Sent}

\* Where the handler and the aggregator are goes together.
Places ==
  /\ aggregator = "off" => /\ handler \in {"opening", "opening gz", "found here", "not found"}
                           /\ ~success /\ \A t \in Targets : getter[t] = "off"
  /\ aggregator = "receiving" => handler = (IF success THEN handler ELSE "waiting")
  /\ aggregator = "receiving" /\ success => handler \in {"copying", "forwarded"}
  /\ aggregator = "passing" => handler = "waiting" /\ success
  /\ aggregator = "ended" => handler \in (IF success THEN {"copying", "forwarded"}
                                                     ELSE {"not found"})
  /\ aggregator # "off" => \A t \in Targets : getter[t] # "off"

\* The aggregator has as many responses to receive as there are getters that
\* have not sent theirs.
Counted ==
  /\ aggregator \in {"receiving", "passing"} => left = Cardinality(Unsent)
  /\ aggregator = "ended" => Unsent = {}

\* A response has been passed on or not, and is nobody else's any more.
Passed ==
  /\ winner # {} <=> success
  /\ \A t \in winner : getter[t] \in Sent

\* What is known of the file's being here, before the request is forwarded
\* and after.
LookedHere ==
  /\ handler = "opening gz" => "plain" \notin atStart.here
  /\ handler \in {"waiting", "not found"} => atStart.here = {}

\* A target that had the file at the start has failed or is yet to be heard,
\* unless a response has been passed on.
LookedThere ==
  \A t \in atStart.has :
     \/ success \/ t \in failed
     \/ getter[t] \in {"off", "starting", "requesting", "good"}

IInv ==
  /\ TypeOK /\ Places /\ Counted /\ Passed /\ LookedHere /\ LookedThere
  /\ OneOwnerPerBody

-----------------------------------------------------------------------------

LEMMA CountsAreNaturals ==
  /\ Cardinality(Targets) \in 0..Cardinality(Targets) /\ 0 \in 0..Cardinality(Targets)
  /\ Cardinality(Targets) \in Nat
  /\ \A S \in SUBSET Targets : /\ IsFiniteSet(S) /\ Cardinality(S) \in Nat
                               /\ Cardinality(S) = 0 <=> S = {}
<1>1. IsFiniteSet(Targets)
  BY ForwardingAssumption
<1>2. \A S \in SUBSET Targets : IsFiniteSet(S)
  BY <1>1, FS_Subset
<1>3. \A S \in SUBSET Targets : Cardinality(S) \in Nat
  BY <1>2, FS_CardinalityType
<1>4. \A S \in SUBSET Targets : Cardinality(S) = 0 <=> S = {}
  BY <1>2, FS_EmptySet
<1>5. /\ Cardinality(Targets) \in Nat
      /\ Cardinality(Targets) \in 0..Cardinality(Targets) /\ 0 \in 0..Cardinality(Targets)
  BY <1>3
<1> QED BY <1>2, <1>3, <1>4, <1>5

LEMMA InitRight == Init => IInv
<1> SUFFICES ASSUME Init PROVE IInv
  OBVIOUS
<1>1. left \in 0..Cardinality(Targets)
  BY CountsAreNaturals DEF Init
<1>2. TypeOK
  BY <1>1 DEF Init, TypeOK, Variants
<1> QED
  BY <1>2
  DEF Init, IInv, Places, Counted, Passed, LookedHere, LookedThere, OneOwnerPerBody

\* A step of a getter that sends nothing leaves the count alone.
LEMMA UnsentKept ==
  ASSUME TypeOK, NEW t \in Targets, getter[t] \notin Sent, NEW place, place \notin Sent,
         getter' = [getter EXCEPT ![t] = place]
  PROVE Unsent' = Unsent
  BY DEF Unsent, TypeOK

\* The getter that sends is one less to be received from.
LEMMA OneReceived ==
  ASSUME TypeOK, NEW t \in Targets, getter[t] \notin Sent, NEW place \in Sent,
         getter' = [getter EXCEPT ![t] = place]
  PROVE /\ Unsent' = Unsent \ {t}
        /\ Cardinality(Unsent') = Cardinality(Unsent) - 1
<1>1. Unsent' = Unsent \ {t} /\ t \in Unsent
  BY DEF Unsent, TypeOK
<1>2. IsFiniteSet(Unsent)
  BY CountsAreNaturals DEF Unsent
<1> QED BY <1>1, <1>2, FS_RemoveElement

-----------------------------------------------------------------------------

\* Files only ever appear, and nobody looks at them meanwhile.
LEMMA DisksRight ==
  ASSUME IInv, (\E v \in Variants : StoreHere(v)) \/ (\E t \in Targets : StoreThere(t))
  PROVE IInv'
<1>1. /\ UNCHANGED <<unusable, atStart, handler, aggregation, getting, crashed>>
      /\ here \subseteq here' /\ here' \subseteq Variants
      /\ has \subseteq has' /\ has' \subseteq Targets
  BY DEF StoreHere, StoreThere, IInv, TypeOK
<1>2. Unsent' = Unsent
  BY <1>1 DEF Unsent, getting
<1> QED
  BY <1>1, <1>2
  DEF IInv, TypeOK, Places, Counted, Passed, LookedHere, LookedThere,
      OneOwnerPerBody, aggregation, getting

\* The handler, which starts the other goroutines once it has looked here.
LEMMA HandlerRight == ASSUME IInv, HandlerStep PROVE IInv'
<1> USE DEF IInv, Answered
<1>1. CASE OpenPlain
  BY <1>1
  DEF OpenPlain, TypeOK, Places, Counted, Passed, LookedHere, LookedThere, OneOwnerPerBody,
      Unsent, disks, aggregation, getting
<1>2. CASE OpenGz
  BY <1>2
  DEF OpenGz, TypeOK, Places, Counted, Passed, LookedHere, LookedThere, OneOwnerPerBody,
      Unsent, disks, aggregation, getting
<1>3. CASE DoNotForward
  <2>1. atStart.here = {}
    BY <1>3 DEF DoNotForward, TypeOK, LookedHere, Variants
  <2> QED
    BY <1>3, <2>1
    DEF DoNotForward, TypeOK, Places, Counted, Passed, LookedHere, LookedThere,
        OneOwnerPerBody, Unsent, disks, aggregation, getting
<1>4. CASE Forward
  <2>1. atStart.here = {}
    BY <1>4 DEF Forward, TypeOK, LookedHere, Variants
  <2>2. aggregator = "off" /\ \A t \in Targets : getter[t] = "off"
    BY <1>4 DEF Forward, TypeOK, Places
  <2>3. Unsent' = Targets
    BY <1>4 DEF Forward, Unsent, Sent
  <2>4. TypeOK'
    <3>1. left' \in 0..Cardinality(Targets)
      BY <1>4, CountsAreNaturals DEF Forward
    <3> QED BY <1>4, <3>1 DEF Forward, TypeOK, disks
  <2>5. OneOwnerPerBody' /\ LookedThere'
    BY <1>4, <2>2 DEF Forward, OneOwnerPerBody, LookedThere, TypeOK, disks
  <2> QED
    BY <1>4, <2>1, <2>2, <2>3, <2>4, <2>5
    DEF Forward, Places, Counted, Passed, LookedHere, Sent, disks
<1>5. ASSUME NEW t \in Targets, CopyBody(t) PROVE IInv'
  <2>1. \A u \in winner : u = t
    BY <1>5 DEF CopyBody, OneOwnerPerBody
  <2>2. getter[t] # "good"
    BY <1>5 DEF CopyBody, Passed, Sent
  <2>3. aggregator \in {"receiving", "ended"} /\ success
    BY <1>5 DEF CopyBody, Places, TypeOK
  <2>4. OneOwnerPerBody'
    BY <1>5, <2>1, <2>2, <2>3 DEF CopyBody, OneOwnerPerBody, TypeOK, aggregation
  <2> QED
    BY <1>5, <2>3, <2>4
    DEF CopyBody, TypeOK, Places, Counted, Passed, LookedHere, LookedThere, Unsent, disks,
        aggregation
<1> QED BY <1>1, <1>2, <1>3, <1>4, <1>5 DEF HandlerStep

-----------------------------------------------------------------------------

\* What all receives have in common.
LEMMA ReceiveRight ==
  ASSUME IInv, NEW t \in Targets, getter[t] \in {"bad", "unset", "good"},
         aggregator = "receiving", left > 0, left' = left - 1,
         aggregator' \in {"receiving", "passing"},
         getter' = [getter EXCEPT ![t] = IF @ = "unset" THEN "panicking" ELSE "ended"]
  PROVE Counted' /\ left' \in 0..Cardinality(Targets)
<1>1. Cardinality(Unsent') = Cardinality(Unsent) - 1
  BY OneReceived DEF IInv, Sent
<1>2. left = Cardinality(Unsent) /\ left \in 0..Cardinality(Targets)
  BY DEF IInv, Counted, TypeOK
<1>3. left' \in 0..Cardinality(Targets)
  BY <1>2, CountsAreNaturals
<1> QED BY <1>1, <1>2, <1>3 DEF Counted

\* The aggregating goroutine.
LEMMA AggregatorRight == ASSUME IInv, AggregatorStep PROVE IInv'
<1> USE DEF IInv, Answered, Sent
<1>1. ASSUME NEW t \in Targets, ReceiveNil(t) PROVE IInv'
  <2>1. Counted' /\ left' \in 0..Cardinality(Targets)
    BY <1>1, ReceiveRight DEF ReceiveNil, Receive
  <2>2. getter' \in [Targets -> {"off", "starting", "unset", "requesting", "good", "bad"} \cup Sent]
        /\ getter'[t] \in Sent /\ \A u \in Targets \ {t} : getter'[u] = getter[u]
    BY <1>1 DEF ReceiveNil, Receive, TypeOK
  <2>3. getter[t] \in {"bad", "unset"}
    BY <1>1 DEF ReceiveNil
  <2>4. OneOwnerPerBody'
    BY <1>1, <2>2, <2>3 DEF ReceiveNil, OneOwnerPerBody
  <2>5. LookedThere'
    BY <1>1, <2>2, <2>3 DEF ReceiveNil, LookedThere, TypeOK, disks
  <2> QED
    BY <1>1, <2>1, <2>2, <2>4, <2>5
    DEF ReceiveNil, Receive, TypeOK, Places, Passed, LookedHere, disks
<1>2. ASSUME NEW t \in Targets, ReceiveFirst(t) PROVE IInv'
  <2>1. Counted' /\ left' \in 0..Cardinality(Targets)
    BY <1>2, ReceiveRight DEF ReceiveFirst, TypeOK
  <2>2. getter' \in [Targets -> {"off", "starting", "unset", "requesting", "good", "bad"} \cup Sent]
        /\ getter'[t] = "ended" /\ \A u \in Targets \ {t} : getter'[u] = getter[u]
    BY <1>2 DEF ReceiveFirst, TypeOK
  <2>3. getter[t] = "good" /\ winner = {} /\ winner' = {t}
    BY <1>2 DEF ReceiveFirst, Passed
  <2>4. OneOwnerPerBody'
    BY <1>2, <2>2, <2>3 DEF ReceiveFirst, OneOwnerPerBody
  <2> QED
    BY <1>2, <2>1, <2>2, <2>3, <2>4
    DEF ReceiveFirst, TypeOK, Places, Passed, LookedHere, LookedThere, disks
<1>3. ASSUME NEW t \in Targets, ReceiveLater(t) PROVE IInv'
  <2>1. Counted' /\ left' \in 0..Cardinality(Targets)
    BY <1>3, ReceiveRight DEF ReceiveLater, Receive
  <2>2. getter' \in [Targets -> {"off", "starting", "unset", "requesting", "good", "bad"} \cup Sent]
        /\ getter'[t] = "ended" /\ \A u \in Targets \ {t} : getter'[u] = getter[u]
    BY <1>3 DEF ReceiveLater, Receive, TypeOK
  <2>3. /\ body' \in [Targets -> {"none", "open", "closed"}] /\ body'[t] = "closed"
        /\ \A u \in Targets \ {t} : body'[u] = body[u]
    BY <1>3 DEF ReceiveLater, TypeOK
  <2>4. t \notin winner
    BY <1>3 DEF ReceiveLater, Passed
  <2>5. OneOwnerPerBody'
    BY <1>3, <2>2, <2>3, <2>4 DEF ReceiveLater, OneOwnerPerBody
  <2> QED
    BY <1>3, <2>1, <2>2, <2>3, <2>5
    DEF ReceiveLater, Receive, TypeOK, Places, Passed, LookedHere, LookedThere, disks
<1>4. CASE PassOn
  BY <1>4
  DEF PassOn, TypeOK, Places, Counted, Passed, LookedHere, LookedThere, OneOwnerPerBody,
      Unsent, disks, getting
<1>5. CASE GiveUp
  <2>1. Unsent = {}
    BY <1>5, CountsAreNaturals DEF GiveUp, Counted, Unsent
  <2> QED
    BY <1>5, <2>1
    DEF GiveUp, TypeOK, Places, Counted, Passed, LookedHere, LookedThere, OneOwnerPerBody,
        Unsent, disks, getting
<1>6. CASE CloseChannels
  <2>1. Unsent = {}
    BY <1>6, CountsAreNaturals DEF CloseChannels, Counted, Unsent
  <2> QED
    BY <1>6, <2>1
    DEF CloseChannels, TypeOK, Places, Counted, Passed, LookedHere, LookedThere,
        OneOwnerPerBody, Unsent, disks, getting
<1> QED BY <1>1, <1>2, <1>3, <1>4, <1>5, <1>6 DEF AggregatorStep

-----------------------------------------------------------------------------

\* A getter, up to its send.
LEMMA GetterRight ==
  ASSUME IInv, NEW t \in Targets, GetterStep(t) \/ RequestEnds(t)
  PROVE IInv'
<1> USE DEF IInv, Answered, Sent
<1>1. CASE UseNoRequest(t)
  BY <1>1
  DEF UseNoRequest, TypeOK, Places, Counted, Passed, LookedHere, LookedThere,
      OneOwnerPerBody, Unsent, disks, aggregation, getting
<1>2. CASE ~UseNoRequest(t)
  <2>1. PICK place \in {"unset", "requesting", "good", "bad"} :
          /\ getter[t] \in {"starting", "requesting"}
          /\ getter' = [getter EXCEPT ![t] = place]
          /\ UNCHANGED <<disks, handler, aggregation, crashed>>
          /\ failed \subseteq failed' /\ failed' \subseteq Targets
          /\ place \in {"unset", "bad"} => t \in failed' \/ t \notin has
          /\ place \in {"unset", "requesting"} => body' = body
          /\ place \in {"good", "bad"} =>
               /\ getter[t] = "requesting"
               /\ \/ place = "bad" /\ body' = body
                  \/ body' = [body EXCEPT ![t] = IF place = "good" THEN "open" ELSE "closed"]
    BY <1>2
    DEF GetterStep, RequestEnds, SetUpRequest, SetUpFails, TargetAnswers, RequestFails, TypeOK
  <2>2. Unsent' = Unsent
    BY <2>1, UnsentKept
  <2>3. /\ getter'[t] = place /\ \A u \in Targets \ {t} : getter'[u] = getter[u]
        /\ getter' \in [Targets -> {"off", "starting", "unset", "requesting", "good", "bad"} \cup Sent]
    BY <2>1 DEF TypeOK
  <2>4. /\ body' \in [Targets -> {"none", "open", "closed"}]
        /\ \A u \in Targets \ {t} : body'[u] = body[u]
    BY <2>1 DEF TypeOK
  <2>5. t \notin winner /\ body[t] # "open"
    BY <2>1 DEF Passed, OneOwnerPerBody
  <2>6. body'[t] = "open" <=> place = "good"
    BY <2>1, <2>5 DEF TypeOK
  <2>7. OneOwnerPerBody'
    BY <2>1, <2>3, <2>4, <2>5, <2>6 DEF OneOwnerPerBody, aggregation
  <2>8. LookedThere'
    <3>1. /\ atStart' = atStart /\ atStart.has \subseteq has /\ has \subseteq Targets
          /\ success' = success
      BY <2>1 DEF TypeOK, disks, aggregation
    <3>2. t \in atStart.has =>
            t \in failed' \/ getter'[t] \in {"off", "starting", "requesting", "good"}
      BY <2>1, <2>3, <3>1
    <3>3. \A u \in atStart.has \ {t} :
            \/ success \/ u \in failed'
            \/ getter'[u] \in {"off", "starting", "requesting", "good"}
      BY <2>1, <2>3, <3>1 DEF LookedThere
    <3> QED BY <3>1, <3>2, <3>3 DEF LookedThere
  <2>9. TypeOK'
    BY <2>1, <2>3, <2>4 DEF TypeOK, disks, aggregation
  <2>10. Places' /\ Passed'
    BY <2>1, <2>3, <2>5 DEF Places, Passed, TypeOK, aggregation
  <2> QED
    BY <2>1, <2>2, <2>7, <2>8, <2>9, <2>10 DEF Counted, LookedHere, disks, aggregation
<1> QED BY <1>1, <1>2

-----------------------------------------------------------------------------

LEMMA StepRight == IInv /\ [Next]_vars => IInv'
<1> SUFFICES ASSUME IInv, [Next]_vars PROVE IInv'
  OBVIOUS
<1>1. CASE UNCHANGED vars
  BY <1>1
  DEF vars, disks, aggregation, getting, IInv, TypeOK, Places, Counted, Passed, LookedHere,
      LookedThere, OneOwnerPerBody, Unsent
<1>2. CASE Next
  BY <1>2, DisksRight, HandlerRight, AggregatorRight, GetterRight
  DEF Next, HandlerStep, AggregatorStep, GetterStep, RequestEnds
<1> QED BY <1>1, <1>2

LEMMA AlwaysRight == Spec => []IInv
<1> QED
  BY InitRight, StepRight, PTL DEF Spec

\* The types of ReadForwarding hold for any targets, and left is never more
\* than their number.
THEOREM ForwardingTypeCorrect == Spec => []TypeOK
<1>1. IInv => TypeOK
  BY DEF IInv
<1> QED BY <1>1, AlwaysRight, PTL

\* The channels are closed only after every getter has sent, for any number of
\* them.
THEOREM ChannelsClosedLast == Spec => []NoSendOnClosedChannel
<1>1. IInv => NoSendOnClosedChannel
  BY DEF IInv, Counted, Unsent, NoSendOnClosedChannel
<1> QED BY <1>1, AlwaysRight, PTL

\* Every open body is one goroutine's to close, for any number of targets.
THEOREM BodiesHaveOneOwner == Spec => []OneOwnerPerBody
<1>1. IInv => OneOwnerPerBody
  BY DEF IInv
<1> QED BY <1>1, AlwaysRight, PTL

\* A 404 is true of this node, and of all targets that did not fail.
THEOREM NotFoundIsAlwaysTrue == Spec => []NotFoundIsTrue
<1>1. IInv => NotFoundIsTrue
  <2> SUFFICES ASSUME IInv, handler = "not found"
               PROVE /\ atStart.here = {}
                     /\ aggregator # "off" => atStart.has \subseteq failed
    BY DEF NotFoundIsTrue
  <2>1. atStart.here = {}
    BY DEF IInv, LookedHere
  <2>2. ASSUME aggregator # "off" PROVE atStart.has \subseteq failed
    <3>1. aggregator = "ended" /\ ~success
      BY <2>2 DEF IInv, Places, TypeOK
    <3>2. \A t \in Targets : getter[t] \in Sent
      BY <3>1 DEF IInv, Counted, Unsent
    <3> QED BY <3>1, <3>2 DEF IInv, LookedThere, TypeOK, Sent
  <2> QED BY <2>1, <2>2
<1> QED BY <1>1, AlwaysRight, PTL
=============================================================================
