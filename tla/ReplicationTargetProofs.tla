----------------------- MODULE ReplicationTargetProofs -----------------------
(***************************************************************************)
(* Theorems about ReplicationTarget, for any locations, files, workers,    *)
(* queue capacities, list sizes, number of senders and disturbances.       *)
(***************************************************************************)
EXTENDS ReplicationTarget, SequenceTheorems, FiniteSetTheorems, TLAPS

-----------------------------------------------------------------------------
(* Ranges of the sequences that channels, lists and replies are *)

\* Sending to a channel adds the one location to what is in it.
LEMMA RangeAppend ==
  ASSUME NEW S, NEW q \in Seq(S), NEW e \in S
  PROVE  /\ Append(q, e) \in Seq(S)
         /\ Range(Append(q, e)) = Range(q) \cup {e}
  <1>1. /\ Append(q, e) \in Seq(S)
        /\ Len(Append(q, e)) = Len(q) + 1 /\ Len(q) \in Nat
        /\ \A i \in 1..Len(q) : Append(q, e)[i] = q[i]
        /\ Append(q, e)[Len(q) + 1] = e
    OBVIOUS
  <1>2. DOMAIN q = 1..Len(q) /\ DOMAIN Append(q, e) = 1..(Len(q) + 1)
    BY <1>1, LenProperties
  <1>3. 1..(Len(q) + 1) = (1..Len(q)) \cup {Len(q) + 1}
    BY <1>1
  <1>4. ASSUME NEW x \in Range(Append(q, e)) PROVE x \in Range(q) \cup {e}
    BY <1>1, <1>2, <1>3, <1>4 DEF Range
  <1>5. ASSUME NEW x \in Range(q) \cup {e} PROVE x \in Range(Append(q, e))
    <2>1. PICK i \in 1..(Len(q) + 1) : Append(q, e)[i] = x
      BY <1>1, <1>2, <1>3, <1>5 DEF Range
    <2> QED
      BY <2>1, <1>2 DEF Range
  <1> QED
    BY <1>1, <1>4, <1>5

\* Receiving from a channel takes its first location, and no other.
LEMMA RangeTail ==
  ASSUME NEW S, NEW q \in Seq(S), q # << >>
  PROVE  /\ Head(q) \in S /\ Tail(q) \in Seq(S)
         /\ Range(q) = {Head(q)} \cup Range(Tail(q))
  <1>1. /\ Head(q) \in S /\ Tail(q) \in Seq(S)
        /\ Len(Tail(q)) = Len(q) - 1 /\ Len(q) \in Nat \ {0}
        /\ \A i \in 1..Len(Tail(q)) : Tail(q)[i] = q[i + 1]
        /\ Head(q) = q[1]
    BY HeadTailProperties, EmptySeq
  <1>2. DOMAIN q = 1..Len(q) /\ DOMAIN Tail(q) = 1..(Len(q) - 1)
    BY <1>1, LenProperties
  <1>3. ASSUME NEW x \in Range(q) PROVE x \in {Head(q)} \cup Range(Tail(q))
    <2>1. PICK i \in 1..Len(q) : q[i] = x
      BY <1>2, <1>3 DEF Range
    <2>2. CASE i = 1
      BY <2>1, <2>2, <1>1
    <2>3. CASE i # 1
      <3>1. i - 1 \in 1..(Len(q) - 1) /\ Tail(q)[i - 1] = q[i]
        BY <2>1, <2>3, <1>1
      <3> QED
        BY <3>1, <2>1, <1>2 DEF Range
    <2> QED
      BY <2>2, <2>3
  <1>4. ASSUME NEW x \in {Head(q)} \cup Range(Tail(q)) PROVE x \in Range(q)
    <2>1. CASE x = Head(q)
      BY <2>1, <1>1, <1>2 DEF Range
    <2>2. CASE x \in Range(Tail(q))
      <3>1. PICK i \in 1..(Len(q) - 1) : Tail(q)[i] = x
        BY <2>2, <1>2 DEF Range
      <3>2. i + 1 \in 1..Len(q) /\ q[i + 1] = x
        BY <3>1, <1>1
      <3> QED
        BY <3>2, <1>2 DEF Range
    <2> QED
      BY <1>4, <2>1, <2>2
  <1> QED
    BY <1>1, <1>3, <1>4

\* An empty channel holds nothing.
LEMMA RangeEmpty == Range(<< >>) = {}
  BY DEF Range

\* What is in a sequence is at one of its indices.
LEMMA RangeIndex ==
  ASSUME NEW S, NEW q \in Seq(S)
  PROVE  Range(q) = {q[i] : i \in 1..Len(q)} /\ Range(q) \subseteq S
  BY LenProperties, ElementOfSeq DEF Range

-----------------------------------------------------------------------------
(* Type correctness *)

LEMMA InitTypeOK == Init => TypeOK
  <1> SUFFICES ASSUME Init PROVE TypeOK
    OBVIOUS
  <1> USE ConstantsAssumption DEF Init
  <1>1. << >> \in Seq(Locations)
    OBVIOUS
  <1>2. unfinishedJobs \in 0..(CounterModulus - 1)
    OBVIOUS
  <1> QED
    BY <1>1, <1>2 DEF TypeOK

LEMMA StepTypeOK ==
  ASSUME TypeOK, [Next]_vars
  PROVE  TypeOK'
  <1> USE ConstantsAssumption DEF TypeOK, disks, queues, scan, senders, workers
  <1>0. \A f \in Files : f[1] \in Locations
    BY DEF Variants
  <1>1. ASSUME NEW f \in Files, NEW kind \in {"post", "put"}, Store(f, kind)
        PROVE  TypeOK'
    BY <1>1 DEF Store
  <1>2. ASSUME NEW f \in Files, EnqueueNewFile(f) PROVE TypeOK'
    <2>1. Append(newFiles, f[1]) \in Seq(Locations)
      BY <1>0, RangeAppend
    <2> QED
      BY <1>2, <2>1 DEF EnqueueNewFile
  <1>3. ASSUME NEW f \in Files, CountNewFile(f) PROVE TypeOK'
    <2>1. (unfinishedJobs + 1) % CounterModulus \in 0..(CounterModulus - 1)
      OBVIOUS
    <2> QED
      BY <1>3, <2>1 DEF CountNewFile
  <1>4. ASSUME NEW f \in Files, EnqueueReplicatedFile(f) PROVE TypeOK'
    <2>1. Append(locations[Permanent], f[1]) \in Seq(Locations)
      BY <1>0, RangeAppend DEF Senders
    <2>2. locations' \in [Senders -> Seq(Locations)]
      BY <1>4, <2>1 DEF EnqueueReplicatedFile
    <2>3. handler' \in [Files -> {"idle", "post", "counting", "put"}]
      BY <1>4 DEF EnqueueReplicatedFile
    <2> QED
      BY <1>4, <2>2, <2>3 DEF EnqueueReplicatedFile
  <1>5. ASSUME NEW f \in Files, StoreAtTarget(f) PROVE TypeOK'
    BY <1>5 DEF StoreAtTarget
  <1>6. ASSUME NEW w \in Replicators, TakeNewFile(w) PROVE TypeOK'
    <2>1. Head(newFiles) \in Locations /\ Tail(newFiles) \in Seq(Locations)
      BY <1>6, RangeTail DEF TakeNewFile
    <2> QED
      BY <1>6, <2>1 DEF TakeNewFile
  <1>7. ASSUME NEW w \in Replicators, TakeMissingFile(w) PROVE TypeOK'
    <2>1. Head(missingFiles) \in Locations /\ Tail(missingFiles) \in Seq(Locations)
      BY <1>7, RangeTail DEF TakeMissingFile
    <2> QED
      BY <1>7, <2>1 DEF TakeMissingFile
  <1>8. ASSUME NEW w \in Replicators, OpenFile(w) PROVE TypeOK'
    BY <1>8 DEF OpenFile
  <1>9. ASSUME NEW w \in Replicators, FinishJob(w) PROVE TypeOK'
    <2>1. (unfinishedJobs + (CounterModulus - 1)) % CounterModulus
             \in 0..(CounterModulus - 1)
      OBVIOUS
    <2> QED
      BY <1>9, <2>1 DEF FinishJob
  <1>10. ASSUME NEW w \in Replicators, PutSucceeds(w) PROVE TypeOK'
    <2>1. <<job[w], put[w]>> \in Locations \X Variants
      BY <1>10 DEF PutSucceeds
    <2> QED
      BY <1>10, <2>1 DEF PutSucceeds
  <1>11. ASSUME NEW w \in Replicators, PutFails(w) PROVE TypeOK'
    <2>1. <<job[w], put[w]>> \in Locations \X Variants
      BY <1>11 DEF PutFails
    <2>2. remote' \subseteq Locations \X Variants
      BY <1>11, <2>1 DEF PutFails
    <2>3. put' \in [Replicators -> Variants \cup {"opening", "done"}]
      BY <1>11 DEF PutFails
    <2> QED
      BY <1>11, <2>2, <2>3 DEF PutFails
  <1>12. CASE StartResync
    BY <1>12 DEF StartResync, Senders
  <1>13. CASE EnumerateFile
    <2>1. PICK f \in unseen :
             /\ unseen' = unseen \ {f}
             /\ locations' = [locations EXCEPT ![scanning] = Append(@, f[1])]
      BY <1>13 DEF EnumerateFile
    <2>2. scanning \in Senders
      BY <1>13 DEF EnumerateFile, Senders
    <2>3. Append(locations[scanning], f[1]) \in Seq(Locations)
      BY <1>0, <2>2, RangeAppend
    <2>4. locations' \in [Senders -> Seq(Locations)]
      BY <2>1, <2>2, <2>3
    <2> QED
      BY <1>13, <2>1, <2>4 DEF EnumerateFile
  <1>14. CASE CloseLocations
    BY <1>14 DEF CloseLocations
  <1>15. ASSUME NEW s \in Senders, ReceiveLocation(s) PROVE TypeOK'
    <2>1. /\ Tail(locations[s]) \in Seq(Locations)
          /\ Append(batch[s], Head(locations[s])) \in Seq(Locations)
      BY <1>15, RangeTail, RangeAppend DEF ReceiveLocation
    <2> QED
      BY <1>15, <2>1 DEF ReceiveLocation
  <1>16. ASSUME NEW s \in Senders, SendFileList(s) PROVE TypeOK'
    BY <1>16 DEF SendFileList
  <1>17. ASSUME NEW s \in Senders, ReturnFromSendFileLists(s) PROVE TypeOK'
    BY <1>17 DEF ReturnFromSendFileLists
  <1>18. ASSUME NEW s \in Senders, ListMissingFile(s) PROVE TypeOK'
    <2>1. Len(batch[s]) \in Nat /\ checked[s] + 1 \in 1..Len(batch[s])
      BY <1>18, LenProperties DEF ListMissingFile
    <2>2. batch[s][checked[s] + 1] \in Locations
      BY <2>1, ElementOfSeq
    <2>3. Append(reply[s], batch[s][checked[s] + 1]) \in Seq(Locations)
      BY <2>2, RangeAppend
    <2> QED
      BY <1>18, <2>3 DEF ListMissingFile
  <1>19. ASSUME NEW s \in Senders, FileListFails(s) PROVE TypeOK'
    BY <1>19 DEF FileListFails
  <1>20. ASSUME NEW s \in Senders, ReceiveReply(s) PROVE TypeOK'
    <2>1. \A n \in 0..Len(reply[s]) : SubSeq(reply[s], 1, n) \in Seq(Locations)
      BY LenProperties, ElementOfSeq, SubSeqProperties
    <2>2. reply' \in [Senders -> Seq(Locations)]
      BY <1>20, <2>1 DEF ReceiveReply
    <2>3. /\ phase' \in [Senders -> {"off", "collect", "listing", "queueing", "counting"}]
          /\ batch' \in [Senders -> Seq(Locations)]
          /\ checked' \in [Senders -> Nat]
      BY <1>20 DEF ReceiveReply
    <2> QED
      BY <1>20, <2>2, <2>3 DEF ReceiveReply
  <1>21. ASSUME NEW s \in Senders, EnqueueMissingFile(s) PROVE TypeOK'
    <2>1. /\ Tail(reply[s]) \in Seq(Locations)
          /\ Append(missingFiles, Head(reply[s])) \in Seq(Locations)
      BY <1>21, RangeTail, RangeAppend DEF EnqueueMissingFile
    <2> QED
      BY <1>21, <2>1 DEF EnqueueMissingFile
  <1>22. ASSUME NEW s \in Senders, CountMissingFile(s) PROVE TypeOK'
    <2>1. (unfinishedJobs + 1) % CounterModulus \in 0..(CounterModulus - 1)
      OBVIOUS
    <2> QED
      BY <1>22, <2>1 DEF CountMissingFile
  <1>23. ASSUME NEW s \in Senders, ReplyQueued(s) PROVE TypeOK'
    BY <1>23 DEF ReplyQueued
  <1>24. CASE RequestResync
    BY <1>24 DEF RequestResync
  <1>25. CASE Restart
    <2>1. << >> \in Seq(Locations) /\ 0 \in 0..(CounterModulus - 1)
      OBVIOUS
    <2> QED
      BY <1>25, <2>1 DEF Restart
  <1>26. CASE UNCHANGED vars
    BY <1>26 DEF vars
  <1> QED
    BY <1>1, <1>2, <1>3, <1>4, <1>5, <1>6, <1>7, <1>8, <1>9, <1>10, <1>11,
       <1>12, <1>13, <1>14, <1>15, <1>16, <1>17, <1>18, <1>19, <1>20, <1>21,
       <1>22, <1>23, <1>24, <1>25, <1>26
    DEF Next, HandlerStep, WorkerStep, ResyncStep, SenderStep

\* Every reachable state is well typed: in particular unfinishedJobs stays a
\* 64-bit word, whichever of its increments and decrements come first.
THEOREM TypeCorrect == Spec => []TypeOK
  <1> QED
    BY InitTypeOK, StepTypeOK, PTL DEF Spec

-----------------------------------------------------------------------------
(* Answers from the target *)

\* A location that is stored on a disk stays stored as the disk grows.
LEMMA StoredStays ==
  ASSUME NEW D, NEW E, D \subseteq E, NEW l, StoredAt(D, l)
  PROVE  StoredAt(E, l)
  BY DEF StoredAt

\* Nothing deletes a stored file, on either disk.
LEMMA DisksGrow ==
  ASSUME [Next]_vars
  PROVE  local \subseteq local' /\ remote \subseteq remote'
  BY DEF Next, vars, disks, Store, HandlerStep, EnqueueNewFile, CountNewFile,
    EnqueueReplicatedFile, StoreAtTarget, WorkerStep, TakeNewFile,
    TakeMissingFile, OpenFile, FinishJob, PutSucceeds, PutFails, ResyncStep,
    StartResync, EnumerateFile, CloseLocations, SenderStep, ReceiveLocation,
    SendFileList, ReturnFromSendFileLists, ListMissingFile, FileListFails,
    ReceiveReply, EnqueueMissingFile, CountMissingFile, ReplyQueued,
    RequestResync, Restart

LEMMA InitAnswersSound == Init => AnswersSound
  BY DEF Init, AnswersSound

LEMMA StepAnswersSound ==
  ASSUME TypeOK, AnswersSound, [Next]_vars
  PROVE  AnswersSound'
  <1> DEFINE JobsSound == \A w \in Replicators :
                            put[w] = "done" => StoredAt(remote, job[w])
             Listed(s) == IF phase[s] = "listing"
                          THEN /\ checked[s] \in 0..Len(batch[s])
                               /\ \A i \in 1..checked[s] :
                                     \/ batch[s][i] \in Range(reply[s])
                                     \/ StoredAt(remote, batch[s][i])
                               /\ Range(reply[s]) \subseteq Range(batch[s])
                          ELSE /\ checked[s] = 0
                               /\ phase[s] \in {"off", "collect"} => reply[s] = << >>
  <1>1. JobsSound /\ \A s \in Senders : Listed(s)
    BY DEF AnswersSound
  <1>2. SUFFICES JobsSound' /\ \A s \in Senders : Listed(s)'
    BY DEF AnswersSound
  <1>3. \A l : StoredAt(remote, l) => StoredAt(remote', l)
    BY DisksGrow, StoredStays
  \* Steps that touch neither the workers nor the senders.
  <1>4. ASSUME UNCHANGED <<senders, workers>>
        PROVE  JobsSound' /\ \A s \in Senders : Listed(s)'
    BY <1>1, <1>3, <1>4 DEF senders, workers, StoredAt
  \* A step of one worker.
  <1>5. ASSUME NEW w \in Replicators, UNCHANGED senders,
               \A v \in Replicators \ {w} : put'[v] = put[v] /\ job'[v] = job[v],
               put'[w] = "done" => StoredAt(remote', job'[w])
        PROVE  JobsSound' /\ \A s \in Senders : Listed(s)'
    BY <1>1, <1>3, <1>5 DEF senders, StoredAt
  \* A step of one sender.
  <1>6. ASSUME NEW s \in Senders, UNCHANGED workers,
               \A t \in Senders \ {s} :
                  /\ phase'[t] = phase[t] /\ batch'[t] = batch[t]
                  /\ checked'[t] = checked[t] /\ reply'[t] = reply[t],
               Listed(s)'
        PROVE  JobsSound' /\ \A t \in Senders : Listed(t)'
    <2>1. JobsSound'
      BY <1>1, <1>3, <1>6 DEF workers, StoredAt
    <2>2. ASSUME NEW t \in Senders \ {s} PROVE Listed(t)'
      BY <1>1, <1>3, <1>6, <2>2 DEF StoredAt
    <2> QED
      BY <1>6, <2>1, <2>2
  <1> HIDE DEF JobsSound
  <1>7. ASSUME NEW f \in Files,
               \/ Store(f, "post") \/ Store(f, "put") \/ HandlerStep(f)
               \/ StoreAtTarget(f)
        PROVE  UNCHANGED <<senders, workers>>
    BY <1>7 DEF Store, HandlerStep, EnqueueNewFile, CountNewFile,
      EnqueueReplicatedFile, StoreAtTarget
  <1>8. ASSUME NEW w \in Replicators,
               WorkerStep(w) \/ PutSucceeds(w) \/ PutFails(w)
        PROVE  JobsSound' /\ \A s \in Senders : Listed(s)'
    <2>1. /\ UNCHANGED senders
          /\ \A v \in Replicators \ {w} : put'[v] = put[v] /\ job'[v] = job[v]
      BY <1>8 DEF WorkerStep, TakeNewFile, TakeMissingFile, OpenFile, FinishJob,
        PutSucceeds, PutFails, TypeOK, workers
    <2>2. TakeNewFile(w) \/ TakeMissingFile(w) => put[w] # "done"
      <3>1. None \notin Locations
        BY ConstantsAssumption
      <3>2. put[w] = "done" => StoredAt(remote, job[w])
        BY <1>1 DEF JobsSound
      <3>3. StoredAt(remote, job[w]) => job[w] \in Locations
        BY DEF StoredAt, TypeOK, Variants
      <3> QED
        BY <3>1, <3>2, <3>3 DEF TakeNewFile, TakeMissingFile
    <2>3. put'[w] = "done" => StoredAt(remote', job'[w])
      <3>1. CASE TakeNewFile(w) \/ TakeMissingFile(w)
        BY <3>1, <2>2 DEF TakeNewFile, TakeMissingFile
      <3>2. CASE OpenFile(w) \/ FinishJob(w) \/ PutFails(w)
        BY <3>2 DEF OpenFile, FinishJob, PutFails, TypeOK, Variants
      <3>3. CASE PutSucceeds(w)
        BY <3>3 DEF PutSucceeds, TypeOK, StoredAt
      <3> QED
        BY <1>8, <3>1, <3>2, <3>3 DEF WorkerStep
    <2> QED
      BY <1>5, <2>1, <2>3
  <1>9. CASE StartResync
    <2>1. PICK s \in ResyncSlots :
             phase[s] = "off" /\ phase' = [phase EXCEPT ![s] = "collect"]
      BY <1>9 DEF StartResync
    <2>2. s \in Senders
      BY DEF Senders
    <2>3. /\ UNCHANGED <<workers, batch, checked, reply>>
          /\ \A t \in Senders \ {s} : phase'[t] = phase[t]
          /\ phase'[s] = "collect"
      BY <1>9, <2>1, <2>2 DEF StartResync, TypeOK
    <2>4. Listed(s)'
      BY <1>1, <2>1, <2>2, <2>3
    <2> QED
      BY <1>6, <2>2, <2>3, <2>4
  <1>10. CASE EnumerateFile \/ CloseLocations
    <2>1. UNCHANGED <<senders, workers>>
      BY <1>10 DEF EnumerateFile, CloseLocations
    <2> QED
      BY <1>4, <2>1
  <1>11. ASSUME NEW s \in Senders,
                SenderStep(s) \/ FileListFails(s) \/ ReceiveReply(s)
         PROVE  JobsSound' /\ \A t \in Senders : Listed(t)'
    <2> USE <1>11
    <2>1. /\ UNCHANGED workers
          /\ \A t \in Senders \ {s} :
                /\ phase'[t] = phase[t] /\ batch'[t] = batch[t]
                /\ checked'[t] = checked[t] /\ reply'[t] = reply[t]
      BY DEF SenderStep, ReceiveLocation, SendFileList,
        ReturnFromSendFileLists, ListMissingFile, FileListFails, ReceiveReply,
        EnqueueMissingFile, CountMissingFile, ReplyQueued, TypeOK
    <2>2. Listed(s)
      BY <1>1
    <2>3. Len(batch[s]) \in Nat
      BY LenProperties DEF TypeOK
    <2>4. ASSUME ListMissingFile(s) PROVE Listed(s)'
      <3> DEFINE line == batch[s][checked[s] + 1]
      <3>1. /\ phase'[s] = "listing" /\ batch'[s] = batch[s]
            /\ checked'[s] = checked[s] + 1 /\ checked'[s] \in 0..Len(batch[s])
            /\ reply'[s] = IF StoredAt(remote, line)
                           THEN reply[s] ELSE Append(reply[s], line)
        BY <2>2, <2>3, <2>4 DEF ListMissingFile, TypeOK
      <3>2. line \in Locations
        BY <2>3, <3>1, ElementOfSeq DEF TypeOK
      <3>3. Range(reply'[s]) = IF StoredAt(remote, line)
                              THEN Range(reply[s]) ELSE Range(reply[s]) \cup {line}
        <4>1. reply[s] \in Seq(Locations)
          BY DEF TypeOK
        <4>2. Range(Append(reply[s], line)) = Range(reply[s]) \cup {line}
          BY <3>2, <4>1, RangeAppend
        <4> QED
          BY <3>1, <4>2
      <3>4. ASSUME NEW i \in 1..checked'[s]
            PROVE  batch[s][i] \in Range(reply'[s]) \/ StoredAt(remote', batch[s][i])
        <4>1. CASE i \in 1..checked[s]
          BY <4>1, <1>3, <2>2, <2>4, <3>3 DEF ListMissingFile
        <4>2. CASE i = checked[s] + 1
          BY <4>2, <1>3, <3>3
        <4> QED
          BY <4>1, <4>2, <3>1 DEF TypeOK
      <3>5. line \in Range(batch[s])
        BY <2>3, <3>1, RangeIndex DEF TypeOK
      <3>6. Range(reply'[s]) \subseteq Range(batch'[s])
        BY <2>2, <2>4, <3>1, <3>3, <3>5 DEF ListMissingFile
      <3> QED
        BY <3>1, <3>4, <3>6
    <2>5. ASSUME \/ ReceiveLocation(s) \/ ReturnFromSendFileLists(s)
                 \/ EnqueueMissingFile(s) \/ CountMissingFile(s) \/ ReplyQueued(s)
          PROVE  Listed(s)'
      <3>1. /\ phase'[s] # "listing" /\ phase[s] # "listing"
            /\ checked'[s] = checked[s]
            /\ phase'[s] \in {"off", "collect"} => reply[s] = << >> /\ reply'[s] = reply[s]
        BY <2>2, <2>5 DEF ReceiveLocation, ReturnFromSendFileLists,
          EnqueueMissingFile, CountMissingFile, ReplyQueued, TypeOK
      <3> QED
        BY <2>2, <3>1
    <2>6. ASSUME SendFileList(s) \/ FileListFails(s) \/ ReceiveReply(s)
          PROVE  Listed(s)'
      <3>1. /\ checked'[s] = 0
            /\ phase'[s] = "listing" => batch'[s] = batch[s] /\ reply'[s] = << >>
            /\ phase'[s] \in {"listing", "queueing"}
        BY <2>2, <2>6 DEF SendFileList, FileListFails, ReceiveReply, TypeOK
      <3> QED
        BY <2>3, <3>1, RangeEmpty
    <2>7. Listed(s)'
      BY <2>4, <2>5, <2>6 DEF SenderStep
    <2> QED
      BY <1>6, <2>1, <2>7
  <1>12. CASE RequestResync \/ UNCHANGED vars
    <2>1. UNCHANGED <<senders, workers>>
      BY <1>12 DEF RequestResync, vars
    <2> QED
      BY <1>4, <2>1
  <1>13. CASE Restart
    BY <1>13 DEF Restart, JobsSound
  <1> QED
    BY <1>4, <1>7, <1>8, <1>9, <1>10, <1>11, <1>12, <1>13 DEF Next, ResyncStep

\* What this node concludes from the target's answers holds on the target's
\* disk, whatever requests fail, are retried, or race with other uploads.
THEOREM AnswersAreSound == Spec => []AnswersSound
  <1> QED
    BY InitAnswersSound, StepAnswersSound, TypeCorrect, PTL DEF Spec

-----------------------------------------------------------------------------
(* Where a location goes: what each step does to the set of those queued *)

\* Steps that leave channels, lists, replies and jobs alone.
LEMMA QueuedUnchanged ==
  ASSUME UNCHANGED <<newFiles, missingFiles, locations, batch, reply, job>>
  PROVE  \A l : Queued(l)' <=> Queued(l)
  BY DEF Queued

\* enqueueNewFile adds the location, or leaves the queues alone.
LEMMA QueuedByEnqueueNewFile ==
  ASSUME TypeOK, NEW f \in Files, EnqueueNewFile(f)
  PROVE  \/ \A l : Queued(l)' <=> Queued(l) \/ l = f[1]
         \/ needToResync' /\ \A l : Queued(l)' <=> Queued(l)
  <1>1. f[1] \in Locations /\ newFiles \in Seq(Locations)
    BY ConstantsAssumption DEF TypeOK, Variants
  <1>2. Range(Append(newFiles, f[1])) = Range(newFiles) \cup {f[1]}
    BY <1>1, RangeAppend
  <1>3. UNCHANGED <<missingFiles, locations, batch, reply, job>>
    BY DEF EnqueueNewFile, senders, workers
  <1>4. CASE newFiles' = Append(newFiles, f[1])
    BY <1>2, <1>3, <1>4 DEF Queued
  <1>5. CASE needToResync' /\ UNCHANGED newFiles
    BY <1>3, <1>5, QueuedUnchanged
  <1> QED
    BY <1>4, <1>5 DEF EnqueueNewFile

\* enqueueReplicatedFile adds the location, or leaves the queues alone.
LEMMA QueuedByEnqueueReplicatedFile ==
  ASSUME TypeOK, NEW f \in Files, EnqueueReplicatedFile(f)
  PROVE  \/ \A l : Queued(l)' <=> Queued(l) \/ l = f[1]
         \/ needToResync' /\ \A l : Queued(l)' <=> Queued(l)
  <1>1. /\ f[1] \in Locations /\ Permanent \in Senders
        /\ locations[Permanent] \in Seq(Locations)
    BY ConstantsAssumption DEF TypeOK, Variants, Senders
  <1>2. Range(Append(locations[Permanent], f[1]))
          = Range(locations[Permanent]) \cup {f[1]}
    BY <1>1, RangeAppend
  <1>3. UNCHANGED <<newFiles, missingFiles, batch, reply, job>>
    BY DEF EnqueueReplicatedFile, senders, workers, queues
  <1>4. CASE locations' = [locations EXCEPT ![Permanent] = Append(@, f[1])]
    <2>1. /\ Range(locations'[Permanent]) = Range(locations[Permanent]) \cup {f[1]}
          /\ \A t \in Senders \ {Permanent} : locations'[t] = locations[t]
      BY <1>1, <1>2, <1>4 DEF TypeOK
    <2> QED
      BY <1>1, <1>3, <2>1 DEF Queued
  <1>5. CASE needToResync' /\ UNCHANGED locations
    BY <1>3, <1>5, QueuedUnchanged
  <1> QED
    BY <1>4, <1>5 DEF EnqueueReplicatedFile

\* The scan adds the location of the file it comes to.
LEMMA QueuedByEnumerateFile ==
  ASSUME TypeOK, EnumerateFile
  PROVE  \E f \in unseen : /\ unseen' = unseen \ {f}
                           /\ \A l : Queued(l)' <=> Queued(l) \/ l = f[1]
  <1>1. PICK f \in unseen :
           /\ unseen' = unseen \ {f}
           /\ locations' = [locations EXCEPT ![scanning] = Append(@, f[1])]
    BY DEF EnumerateFile
  <1>2. scanning \in Senders
    BY DEF TypeOK, EnumerateFile, Senders
  <1>3. f[1] \in Locations /\ locations[scanning] \in Seq(Locations)
    BY <1>2, ConstantsAssumption DEF TypeOK, Variants
  <1>4. Range(Append(locations[scanning], f[1]))
          = Range(locations[scanning]) \cup {f[1]}
    BY <1>3, RangeAppend
  <1>5. /\ Range(locations'[scanning]) = Range(locations[scanning]) \cup {f[1]}
        /\ \A t \in Senders \ {scanning} : locations'[t] = locations[t]
    BY <1>1, <1>2, <1>4 DEF TypeOK
  <1>6. UNCHANGED <<newFiles, missingFiles, batch, reply, job>>
    BY DEF EnumerateFile, queues, senders, workers
  <1>7. \A l : Queued(l)' <=> Queued(l) \/ l = f[1]
    BY <1>2, <1>5, <1>6 DEF Queued
  <1> QED
    BY <1>1, <1>7

\* A worker that takes a job moves it from its queue to itself.
LEMMA QueuedByTake ==
  ASSUME TypeOK, NEW w \in Replicators, TakeNewFile(w) \/ TakeMissingFile(w)
  PROVE  \A l \in Locations : Queued(l)' <=> Queued(l)
  <1>1. /\ newFiles \in Seq(Locations) /\ missingFiles \in Seq(Locations)
        /\ None \notin Locations
    BY ConstantsAssumption DEF TypeOK
  <1>2. UNCHANGED <<locations, batch, reply>>
    BY DEF TakeNewFile, TakeMissingFile, senders
  <1>3. CASE TakeNewFile(w)
    <2>1. Range(newFiles) = {Head(newFiles)} \cup Range(newFiles')
      BY <1>1, <1>3, RangeTail DEF TakeNewFile
    <2>2. /\ UNCHANGED missingFiles /\ job[w] = None /\ job'[w] = Head(newFiles)
          /\ \A v \in Replicators \ {w} : job'[v] = job[v]
      BY <1>3 DEF TakeNewFile, TypeOK
    <2> QED
      BY <1>1, <1>2, <2>1, <2>2 DEF Queued
  <1>4. CASE TakeMissingFile(w)
    <2>1. Range(missingFiles) = {Head(missingFiles)} \cup Range(missingFiles')
      BY <1>1, <1>4, RangeTail DEF TakeMissingFile
    <2>2. /\ UNCHANGED newFiles /\ job[w] = None /\ job'[w] = Head(missingFiles)
          /\ \A v \in Replicators \ {w} : job'[v] = job[v]
      BY <1>4 DEF TakeMissingFile, TypeOK
    <2> QED
      BY <1>1, <1>2, <2>1, <2>2 DEF Queued
  <1> QED
    BY <1>3, <1>4

\* A finished job is dropped, and no other.
LEMMA QueuedByFinishJob ==
  ASSUME TypeOK, NEW w \in Replicators, FinishJob(w)
  PROVE  \A l \in Locations : /\ Queued(l)' => Queued(l)
                              /\ Queued(l) => Queued(l)' \/ l = job[w]
  <1>1. /\ UNCHANGED <<newFiles, missingFiles, locations, batch, reply>>
        /\ job'[w] = None /\ None \notin Locations
        /\ \A v \in Replicators \ {w} : job'[v] = job[v]
    BY ConstantsAssumption DEF FinishJob, senders, TypeOK
  <1> QED
    BY <1>1 DEF Queued

\* A sender that receives a location moves it from its channel to its list.
LEMMA QueuedByReceiveLocation ==
  ASSUME TypeOK, NEW s \in Senders, ReceiveLocation(s)
  PROVE  \A l : Queued(l)' <=> Queued(l)
  <1>1. /\ locations[s] \in Seq(Locations) /\ locations[s] # << >>
        /\ batch[s] \in Seq(Locations)
    BY DEF TypeOK, ReceiveLocation
  <1>2. /\ Range(locations[s]) = {Head(locations[s])} \cup Range(Tail(locations[s]))
        /\ Head(locations[s]) \in Locations
    BY <1>1, RangeTail
  <1>3. Range(Append(batch[s], Head(locations[s])))
          = Range(batch[s]) \cup {Head(locations[s])}
    BY <1>1, <1>2, RangeAppend
  <1>4. /\ UNCHANGED <<newFiles, missingFiles, reply, job>>
        /\ locations'[s] = Tail(locations[s])
        /\ batch'[s] = Append(batch[s], Head(locations[s]))
        /\ \A t \in Senders \ {s} : locations'[t] = locations[t] /\ batch'[t] = batch[t]
    BY DEF ReceiveLocation, queues, workers, TypeOK
  <1>5. Range(locations[s]) \cup Range(batch[s]) = Range(locations'[s]) \cup Range(batch'[s])
    BY <1>2, <1>3, <1>4
  <1>6. \A l, t : t \in Senders =>
          (l \in Range(locations[t]) \/ l \in Range(batch[t]) \/ l \in Range(reply[t])
           <=> l \in Range(locations'[t]) \/ l \in Range(batch'[t]) \/ l \in Range(reply'[t]))
    BY <1>4, <1>5
  <1> QED
    BY <1>4, <1>6 DEF Queued

\* Looking a line up adds nothing to what is queued: the line is in the list.
LEMMA QueuedByListMissingFile ==
  ASSUME TypeOK, AnswersSound, NEW s \in Senders,
         ListMissingFile(s) \/ FileListFails(s)
  PROVE  \A l : Queued(l)' <=> Queued(l)
  <1>1. UNCHANGED <<newFiles, missingFiles, locations, batch, job>>
    BY DEF ListMissingFile, FileListFails, queues, workers
  <1>2. /\ phase[s] = "listing" /\ UNCHANGED phase
        /\ \A t \in Senders \ {s} : reply'[t] = reply[t]
    BY DEF ListMissingFile, FileListFails, TypeOK
  <1>3. Range(reply[s]) \subseteq Range(batch[s])
    BY <1>2 DEF AnswersSound
  <1>4. Range(reply'[s]) \subseteq Range(batch'[s])
    BY <1>2, StepAnswersSound DEF AnswersSound, Next, SenderStep
  <1>5. \A l, t : t \in Senders =>
          (l \in Range(locations[t]) \/ l \in Range(batch[t]) \/ l \in Range(reply[t])
           <=> l \in Range(locations'[t]) \/ l \in Range(batch'[t]) \/ l \in Range(reply'[t]))
    BY <1>1, <1>2, <1>3, <1>4
  <1> QED
    BY <1>1, <1>5 DEF Queued

\* A whole reply drops from the list only what is on the target; a reply that
\* is cut short may drop more, but adds nothing.
LEMMA QueuedByReceiveReply ==
  ASSUME TypeOK, AnswersSound, NEW s \in Senders, ReceiveReply(s)
  PROVE  \A l : /\ Queued(l)' => Queued(l)
                /\ Queued(l) /\ ~RepliesCanBeCut
                     => Queued(l)' \/ StoredAt(remote, l)
  <1>1. /\ UNCHANGED <<newFiles, missingFiles, locations, job>>
        /\ batch'[s] = << >> /\ phase[s] = "listing" /\ checked[s] = Len(batch[s])
        /\ \A t \in Senders \ {s} : batch'[t] = batch[t] /\ reply'[t] = reply[t]
    BY DEF ReceiveReply, queues, workers, TypeOK
  <1>2. /\ reply[s] \in Seq(Locations) /\ batch[s] \in Seq(Locations)
        /\ Len(reply[s]) \in Nat
    BY LenProperties DEF TypeOK
  <1>3. \/ reply'[s] = reply[s]
        \/ /\ RepliesCanBeCut
           /\ \E n \in 0..Len(reply[s]) : reply'[s] = SubSeq(reply[s], 1, n)
    BY DEF ReceiveReply, TypeOK
  <1>4. Range(reply'[s]) \subseteq Range(reply[s])
    <2>1. ASSUME NEW n \in 0..Len(reply[s])
          PROVE  Range(SubSeq(reply[s], 1, n)) \subseteq Range(reply[s])
      <3>1. \A i \in 1..n : reply[s][i] \in Range(reply[s])
        BY <1>2, RangeIndex
      <3>2. SubSeq(reply[s], 1, n) \in Seq(Range(reply[s]))
        BY <3>1, SubSeqProperties
      <3> QED
        BY <3>2, RangeIndex
    <2> QED
      BY <1>3, <2>1
  <1>5. Range(batch[s]) = {batch[s][i] : i \in 1..checked[s]}
    BY <1>1, <1>2, RangeIndex
  <1>6. \A l \in Range(batch[s]) : l \in Range(reply[s]) \/ StoredAt(remote, l)
    BY <1>1, <1>5 DEF AnswersSound
  <1>7. Range(batch'[s]) = {}
    BY <1>1, RangeEmpty
  <1>8. ASSUME NEW l, Queued(l)' PROVE Queued(l)
    BY <1>1, <1>4, <1>7, <1>8 DEF Queued
  <1>9. ASSUME NEW l, Queued(l), ~RepliesCanBeCut
        PROVE  Queued(l)' \/ StoredAt(remote, l)
    <2>1. reply'[s] = reply[s]
      BY <1>3, <1>9
    <2> QED
      BY <1>1, <1>6, <1>9, <2>1 DEF Queued
  <1> QED
    BY <1>8, <1>9

\* enqueueMissingFile moves a location from the reply to missingFiles.
LEMMA QueuedByEnqueueMissingFile ==
  ASSUME TypeOK, NEW s \in Senders, EnqueueMissingFile(s)
  PROVE  \A l : Queued(l)' <=> Queued(l)
  <1>1. reply[s] \in Seq(Locations) /\ reply[s] # << >> /\ missingFiles \in Seq(Locations)
    BY DEF TypeOK, EnqueueMissingFile
  <1>2. /\ Range(reply[s]) = {Head(reply[s])} \cup Range(Tail(reply[s]))
        /\ Head(reply[s]) \in Locations
    BY <1>1, RangeTail
  <1>3. Range(missingFiles') = Range(missingFiles) \cup {Head(reply[s])}
    BY <1>1, <1>2, RangeAppend DEF EnqueueMissingFile
  <1>4. /\ UNCHANGED <<newFiles, locations, batch, job>>
        /\ reply'[s] = Tail(reply[s])
        /\ \A t \in Senders \ {s} : reply'[t] = reply[t]
    BY DEF EnqueueMissingFile, workers, TypeOK
  <1> QED
    BY <1>2, <1>3, <1>4 DEF Queued

\* A restarted process has nothing queued.
LEMMA QueuedByRestart ==
  ASSUME Restart
  PROVE  \A l \in Locations : ~Queued(l)'
  BY RangeEmpty, ConstantsAssumption DEF Restart, Queued

-----------------------------------------------------------------------------
(* Only stored files are queued *)

\* A file on a disk is a location stored there.
LEMMA FileIsStored ==
  ASSUME NEW D, D \subseteq Locations \X Variants, NEW f \in D
  PROVE  f[1] \in Locations /\ StoredAt(D, f[1])
  BY DEF StoredAt

LEMMA InitOnlyStored == Init => OnlyStoredFilesQueued
  <1> SUFFICES ASSUME Init PROVE OnlyStoredFilesQueued
    OBVIOUS
  <1>1. \A l \in Locations : ~Queued(l)
    BY RangeEmpty, ConstantsAssumption DEF Init, Queued
  <1> QED
    BY <1>1 DEF Init, OnlyStoredFilesQueued

LEMMA StepOnlyStored ==
  ASSUME TypeOK, AnswersSound, OnlyStoredFilesQueued, [Next]_vars
  PROVE  OnlyStoredFilesQueued'
  <1>1. local \subseteq local' /\ local \subseteq Locations \X Variants
    BY DisksGrow, ConstantsAssumption DEF TypeOK
  <1>2. \A l \in Locations : Queued(l) => StoredAt(local', l)
    BY <1>1, StoredStays DEF OnlyStoredFilesQueued
  <1>3. \A f \in Files : f \in local => f[1] \in Locations /\ StoredAt(local', f[1])
    BY <1>1, FileIsStored, StoredStays
  <1>4. unseen \subseteq local' /\ \A f \in Files : handler[f] # "idle" => f \in local'
    BY <1>1 DEF OnlyStoredFilesQueued
  \* Steps that start no handler, extend no scan and queue nothing new.
  <1>5. ASSUME unseen' \subseteq unseen,
               \A f \in Files : handler'[f] # "idle" => handler[f] # "idle",
               \A l \in Locations : Queued(l)' => Queued(l)
        PROVE  OnlyStoredFilesQueued'
    BY <1>2, <1>4, <1>5 DEF OnlyStoredFilesQueued
  <1>6. ASSUME NEW f \in Files, NEW kind \in {"post", "put"}, Store(f, kind)
        PROVE  OnlyStoredFilesQueued'
    <2>1. \A l : Queued(l)' <=> Queued(l)
      BY <1>6, QueuedUnchanged DEF Store, queues, senders, workers
    <2>2. /\ f \in local' /\ unseen' \subseteq unseen \cup {f}
          /\ \A g \in Files : handler'[g] # "idle" => handler[g] # "idle" \/ g = f
      BY <1>6 DEF Store, TypeOK
    <2> QED
      BY <1>2, <1>4, <2>1, <2>2 DEF OnlyStoredFilesQueued
  <1>7. ASSUME NEW f \in Files, EnqueueNewFile(f) \/ EnqueueReplicatedFile(f)
        PROVE  OnlyStoredFilesQueued'
    <2>1. \A l : Queued(l)' => Queued(l) \/ l = f[1]
      BY <1>7, QueuedByEnqueueNewFile, QueuedByEnqueueReplicatedFile
    <2>2. /\ UNCHANGED unseen /\ handler[f] # "idle"
          /\ \A g \in Files : handler'[g] # "idle" => handler[g] # "idle" \/ g = f
      BY <1>7 DEF EnqueueNewFile, EnqueueReplicatedFile, scan, TypeOK
    <2>3. StoredAt(local', f[1])
      BY <1>3, <2>2 DEF OnlyStoredFilesQueued
    <2> QED
      BY <1>2, <1>4, <2>1, <2>2, <2>3 DEF OnlyStoredFilesQueued
  <1>8. ASSUME NEW f \in Files, CountNewFile(f) \/ StoreAtTarget(f)
        PROVE  OnlyStoredFilesQueued'
    <2>1. \A l : Queued(l)' <=> Queued(l)
      BY <1>8, QueuedUnchanged DEF CountNewFile, StoreAtTarget, queues, senders, workers
    <2>2. /\ UNCHANGED unseen
          /\ \A g \in Files : handler'[g] # "idle" => handler[g] # "idle"
      BY <1>8 DEF CountNewFile, StoreAtTarget, scan, TypeOK
    <2> QED
      BY <1>5, <2>1, <2>2
  <1>9. ASSUME NEW w \in Replicators, WorkerStep(w) \/ PutSucceeds(w) \/ PutFails(w)
        PROVE  OnlyStoredFilesQueued'
    <2>1. UNCHANGED <<unseen, handler>>
      BY <1>9 DEF WorkerStep, TakeNewFile, TakeMissingFile, OpenFile, FinishJob,
        PutSucceeds, PutFails, scan
    <2>2. OpenFile(w) \/ PutSucceeds(w) \/ PutFails(w) => \A l : Queued(l)' <=> Queued(l)
      BY QueuedUnchanged DEF OpenFile, PutSucceeds, PutFails, queues, senders
    <2>3. \A l \in Locations : Queued(l)' => Queued(l)
      BY <1>9, <2>2, QueuedByTake, QueuedByFinishJob DEF WorkerStep
    <2> QED
      BY <1>5, <2>1, <2>3
  <1>10. CASE StartResync
    <2>1. \A l : Queued(l)' <=> Queued(l)
      BY <1>10, QueuedUnchanged DEF StartResync, queues, workers
    <2>2. unseen' = local /\ UNCHANGED <<local, handler>>
      BY <1>10 DEF StartResync, disks
    <2> QED
      BY <1>2, <1>4, <2>1, <2>2 DEF OnlyStoredFilesQueued
  <1>11. CASE EnumerateFile
    <2>1. PICK f \in unseen : /\ unseen' = unseen \ {f}
                             /\ \A l : Queued(l)' <=> Queued(l) \/ l = f[1]
      BY <1>11, QueuedByEnumerateFile
    <2>2. UNCHANGED handler
      BY <1>11 DEF EnumerateFile
    <2>3. StoredAt(local', f[1])
      BY <1>3, <2>1 DEF OnlyStoredFilesQueued, TypeOK
    <2> QED
      BY <1>2, <1>4, <2>1, <2>2, <2>3 DEF OnlyStoredFilesQueued
  <1>12. CASE CloseLocations \/ RequestResync \/ UNCHANGED vars
    <2>1. \A l : Queued(l)' <=> Queued(l)
      BY <1>12, QueuedUnchanged
      DEF CloseLocations, RequestResync, vars, queues, senders, workers
    <2>2. UNCHANGED <<unseen, handler>>
      BY <1>12 DEF CloseLocations, RequestResync, vars, scan
    <2> QED
      BY <1>5, <2>1, <2>2
  <1>13. ASSUME NEW s \in Senders, SenderStep(s) \/ FileListFails(s) \/ ReceiveReply(s)
         PROVE  OnlyStoredFilesQueued'
    <2>1. UNCHANGED <<unseen, handler>>
      BY <1>13 DEF SenderStep, ReceiveLocation, SendFileList,
        ReturnFromSendFileLists, ListMissingFile, FileListFails, ReceiveReply,
        EnqueueMissingFile, CountMissingFile, ReplyQueued, scan
    <2>2. SendFileList(s) \/ ReturnFromSendFileLists(s) \/ CountMissingFile(s)
             \/ ReplyQueued(s) => \A l : Queued(l)' <=> Queued(l)
      BY QueuedUnchanged DEF SendFileList, ReturnFromSendFileLists,
        CountMissingFile, ReplyQueued, queues, workers
    <2>3. \A l : Queued(l)' => Queued(l)
      BY <1>13, <2>2, QueuedByReceiveLocation, QueuedByListMissingFile,
        QueuedByReceiveReply, QueuedByEnqueueMissingFile DEF SenderStep
    <2> QED
      BY <1>5, <2>1, <2>3
  <1>14. CASE Restart
    <2>1. \A f \in Files : handler'[f] = "idle"
      BY <1>14 DEF Restart
    <2>2. unseen' = {}
      BY <1>14 DEF Restart
    <2>3. \A l \in Locations : ~Queued(l)'
      BY <1>14, QueuedByRestart
    <2> QED
      BY <2>1, <2>2, <2>3 DEF OnlyStoredFilesQueued
  <1> QED
    BY <1>6, <1>7, <1>8, <1>9, <1>10, <1>11, <1>12, <1>13, <1>14
    DEF Next, HandlerStep, ResyncStep

\* No worker is ever given a location this node has not stored, however the
\* uploads, scans, file lists and restarts interleave.
THEOREM OnlyStoredAreQueued == Spec => []OnlyStoredFilesQueued
  <1> QED
    BY InitOnlyStored, StepOnlyStored, TypeCorrect, AnswersAreSound, PTL DEF Spec

-----------------------------------------------------------------------------
(* No file is forgotten *)

LEMMA InitNoFileForgotten == Init => NoFileForgotten
  BY DEF Init, NoFileForgotten, Remembered

LEMMA StepNoFileForgotten ==
  ASSUME ~RepliesCanBeCut, TypeOK, AnswersSound, NoFileForgotten, [Next]_vars
  PROVE  NoFileForgotten'
  <1>1. SUFFICES ASSUME NEW l \in Locations,
                        StoredAt(local', l), ~StoredAt(remote', l)
                 PROVE  Remembered(l)'
    BY DEF NoFileForgotten
  <1>2. ~StoredAt(remote, l)
    BY <1>1, DisksGrow, StoredStays
  <1>3. StoredAt(local, l) => Remembered(l)
    BY <1>2 DEF NoFileForgotten
  \* Steps that store nothing here, and whatever else they do, end no request
  \* and drop nothing from the scan or the queues.
  <1>4. ASSUME UNCHANGED local, needToResync => needToResync',
               unseen \subseteq unseen',
               \A f \in Files : handler[f] \in {"post", "put"} => handler'[f] = handler[f],
               Queued(l) => Queued(l)'
        PROVE  Remembered(l)'
    BY <1>1, <1>3, <1>4 DEF Remembered
  <1>5. ASSUME NEW f \in Files, NEW kind \in {"post", "put"}, Store(f, kind)
        PROVE  Remembered(l)'
    <2>1. Queued(l)' <=> Queued(l)
      BY <1>5, QueuedUnchanged DEF Store, queues, senders, workers
    <2>2. /\ handler'[f] = kind /\ UNCHANGED needToResync /\ unseen \subseteq unseen'
          /\ \A g \in Files \ {f} : handler'[g] = handler[g]
      BY <1>5 DEF Store, TypeOK
    <2>3. CASE l = f[1]
      BY <2>2, <2>3 DEF Remembered
    <2>4. CASE l # f[1]
      <3>1. StoredAt(local, l)
        BY <1>1, <1>5, <2>4 DEF Store, StoredAt
      <3>2. Remembered(l)
        BY <1>3, <3>1
      <3> QED
        BY <2>1, <2>2, <2>4, <3>2 DEF Remembered
    <2> QED
      BY <2>3, <2>4
  <1>6. ASSUME NEW f \in Files, EnqueueNewFile(f) \/ EnqueueReplicatedFile(f)
        PROVE  Remembered(l)'
    <2>1. Remembered(l)
      BY <1>1, <1>3, <1>6 DEF EnqueueNewFile, EnqueueReplicatedFile, disks
    <2>2. /\ UNCHANGED unseen /\ (needToResync => needToResync')
          /\ \A g \in Files \ {f} : handler'[g] = handler[g]
      BY <1>6 DEF EnqueueNewFile, EnqueueReplicatedFile, scan, TypeOK
    <2>3. \/ \A k : Queued(k)' <=> Queued(k) \/ k = f[1]
          \/ needToResync'
      BY <1>6, QueuedByEnqueueNewFile, QueuedByEnqueueReplicatedFile
    <2> QED
      BY <2>1, <2>2, <2>3 DEF Remembered
  <1>7. ASSUME NEW f \in Files, CountNewFile(f) \/ StoreAtTarget(f)
        PROVE  Remembered(l)'
    <2>1. Queued(l)' <=> Queued(l)
      BY <1>7, QueuedUnchanged DEF CountNewFile, StoreAtTarget, queues, senders, workers
    <2>2. /\ UNCHANGED <<local, needToResync, unseen>>
          /\ \A g \in Files : handler[g] \in {"post", "put"} => handler'[g] = handler[g]
      BY <1>7 DEF CountNewFile, StoreAtTarget, scan, disks, TypeOK
    <2> QED
      BY <1>4, <2>1, <2>2
  <1>8. ASSUME NEW w \in Replicators, WorkerStep(w) \/ PutSucceeds(w) \/ PutFails(w)
        PROVE  Remembered(l)'
    <2>1. UNCHANGED <<local, needToResync, unseen, handler>>
      BY <1>8 DEF WorkerStep, TakeNewFile, TakeMissingFile, OpenFile, FinishJob,
        PutSucceeds, PutFails, scan, disks
    <2>2. OpenFile(w) \/ PutSucceeds(w) \/ PutFails(w) => (Queued(l)' <=> Queued(l))
      BY QueuedUnchanged DEF OpenFile, PutSucceeds, PutFails, queues, senders
    <2>3. FinishJob(w) => l # job[w]
      BY <1>2 DEF FinishJob, AnswersSound
    <2>4. Queued(l) => Queued(l)'
      BY <1>8, <2>2, <2>3, QueuedByTake, QueuedByFinishJob DEF WorkerStep
    <2> QED
      BY <1>4, <2>1, <2>4
  <1>9. CASE StartResync
    <2>1. unseen' = local /\ local \subseteq Files /\ UNCHANGED local
      BY <1>9 DEF StartResync, disks, TypeOK
    <2>2. PICK v \in Variants : <<l, v>> \in unseen'
      BY <1>1, <2>1 DEF StoredAt
    <2> QED
      BY <2>2 DEF Remembered
  <1>10. CASE EnumerateFile
    <2>1. PICK f \in unseen : /\ unseen' = unseen \ {f}
                             /\ \A k : Queued(k)' <=> Queued(k) \/ k = f[1]
      BY <1>10, QueuedByEnumerateFile
    <2>2. UNCHANGED <<local, needToResync, handler>>
      BY <1>10 DEF EnumerateFile, disks
    <2> QED
      BY <1>1, <1>3, <2>1, <2>2 DEF Remembered
  <1>11. CASE CloseLocations \/ RequestResync \/ UNCHANGED vars
    <2>1. Queued(l)' <=> Queued(l)
      BY <1>11, QueuedUnchanged
      DEF CloseLocations, RequestResync, vars, queues, senders, workers
    <2>2. UNCHANGED <<local, unseen, handler>> /\ (needToResync => needToResync')
      BY <1>11 DEF CloseLocations, RequestResync, vars, scan, disks
    <2> QED
      BY <1>4, <2>1, <2>2
  <1>12. ASSUME NEW s \in Senders, SenderStep(s) \/ FileListFails(s) \/ ReceiveReply(s)
         PROVE  Remembered(l)'
    <2>1. UNCHANGED <<local, needToResync, unseen, handler>>
      BY <1>12 DEF SenderStep, ReceiveLocation, SendFileList,
        ReturnFromSendFileLists, ListMissingFile, FileListFails, ReceiveReply,
        EnqueueMissingFile, CountMissingFile, ReplyQueued, scan, disks
    <2>2. SendFileList(s) \/ ReturnFromSendFileLists(s) \/ CountMissingFile(s)
             \/ ReplyQueued(s) => (Queued(l)' <=> Queued(l))
      BY QueuedUnchanged DEF SendFileList, ReturnFromSendFileLists,
        CountMissingFile, ReplyQueued, queues, workers
    <2>3. Queued(l) => Queued(l)'
      BY <1>2, <1>12, <2>2, QueuedByReceiveLocation, QueuedByListMissingFile,
        QueuedByReceiveReply, QueuedByEnqueueMissingFile DEF SenderStep
    <2> QED
      BY <1>4, <2>1, <2>3
  <1>13. CASE Restart
    BY <1>13 DEF Restart, Remembered
  <1> QED
    BY <1>5, <1>6, <1>7, <1>8, <1>9, <1>10, <1>11, <1>12, <1>13
    DEF Next, HandlerStep, ResyncStep

\* The self-healing promise of the README, for every number of files, workers
\* and overlapping resyncs and every queue capacity: provided that replies to
\* file lists arrive whole, a location this node has and the target does not
\* is never forgotten by this process.
THEOREM NothingIsForgotten ==
  ASSUME ~RepliesCanBeCut
  PROVE  Spec => []NoFileForgotten
  <1> QED
    BY InitNoFileForgotten, StepNoFileForgotten, TypeCorrect, AnswersAreSound,
      PTL DEF Spec

-----------------------------------------------------------------------------
(* The queue length *)

\* Goroutines between a channel send and the atomic add that counts it, and
\* workers with a job.
CountingHandlers == {f \in Files : handler[f] = "counting"}
CountingSenders == {s \in Senders : phase[s] = "counting"}
Busy == {w \in Replicators : job[w] # None}

\* What the counter stands for.
Due ==
  Len(newFiles) + Len(missingFiles) + Cardinality(Busy)
    - Cardinality(CountingHandlers) - Cardinality(CountingSenders)

WithinCapacity == Len(newFiles) <= QueueCap /\ Len(missingFiles) <= MissingCap

\* The counter is wide enough for its sign to be read: 2^64 in the code, which
\* has channels of thousands and a goroutine for each request.
CounterIsWide ==
  /\ IsFiniteSet(Files) /\ IsFiniteSet(ResyncSlots)
  /\ 2 * (QueueCap + MissingCap + Workers) < CounterModulus
  /\ 2 * (Cardinality(Files) + Cardinality(Senders)) <= CounterModulus

\* Adding one to the counter, and adding ^uint64(0).
LEMMA CounterWraps ==
  ASSUME NEW u \in 0..(CounterModulus - 1)
  PROVE  /\ (u + 1) % CounterModulus = IF u = CounterModulus - 1 THEN 0 ELSE u + 1
         /\ (u + (CounterModulus - 1)) % CounterModulus
              = IF u = 0 THEN CounterModulus - 1 ELSE u - 1
  <1>1. CounterModulus \in Nat \ {0}
    BY ConstantsAssumption
  <1>2. CASE u = 0
    BY <1>1, <1>2
  <1>3. CASE u # 0
    <2>1. (u + (CounterModulus - 1)) % CounterModulus = u - 1
      <3>1. u - 1 \in 0..(CounterModulus - 1) /\ u + (CounterModulus - 1) = (u - 1) + CounterModulus
        BY <1>1, <1>3
      <3> QED
        BY <1>1, <3>1
    <2> QED
      BY <1>1, <1>3, <2>1
  <1> QED
    BY <1>2, <1>3

\* One more member, one less, or the same.
LEMMA OneMore ==
  ASSUME NEW S, NEW T, IsFiniteSet(S), NEW x, x \notin S, T = S \cup {x}
  PROVE  Cardinality(T) = Cardinality(S) + 1
  BY FS_AddElement

LEMMA OneLess ==
  ASSUME NEW S, NEW T, IsFiniteSet(S), NEW x \in S, T = S \ {x}
  PROVE  Cardinality(T) = Cardinality(S) - 1
  BY FS_RemoveElement

\* Subsets of what there are finitely many of.
LEMMA Counts ==
  ASSUME IsFiniteSet(Files), IsFiniteSet(ResyncSlots)
  PROVE  /\ Cardinality(Files) \in Nat /\ Cardinality(Senders) \in Nat
         /\ \A S \in SUBSET Files :
               IsFiniteSet(S) /\ Cardinality(S) \in 0..Cardinality(Files)
         /\ \A S \in SUBSET Senders :
               IsFiniteSet(S) /\ Cardinality(S) \in 0..Cardinality(Senders)
         /\ \A S \in SUBSET Replicators :
               IsFiniteSet(S) /\ Cardinality(S) \in 0..Workers
  <1>1. ASSUME NEW T, IsFiniteSet(T), NEW S \in SUBSET T
        PROVE  IsFiniteSet(S) /\ Cardinality(T) \in Nat /\ Cardinality(S) \in 0..Cardinality(T)
    BY <1>1, FS_Subset, FS_CardinalityType
  <1>2. IsFiniteSet(Senders)
    BY FS_AddElement DEF Senders
  <1>3. /\ IsFiniteSet(Replicators) /\ Workers \in Nat
        /\ Cardinality(Replicators) \in 0..Workers
    <2>1. Workers \in Nat /\ 1 \in Int /\ Workers - 1 \in Int
      BY ConstantsAssumption
    <2>2. /\ IsFiniteSet(1..(Workers - 1))
          /\ Cardinality(1..(Workers - 1)) = IF 1 > Workers - 1 THEN 0 ELSE (Workers - 1) - 1 + 1
      BY <2>1, FS_Interval
    <2> QED
      BY <2>1, <2>2 DEF Replicators
  <1>4. Cardinality(Files) \in Nat /\ Cardinality(Senders) \in Nat
    BY <1>2, FS_CardinalityType
  <1> QED
    BY <1>1, <1>2, <1>3, <1>4

\* The counter read with its sign, when it stands for d, and what it stands for
\* stays in the range in which there is one reading.
LEMMA ReadWithSign ==
  ASSUME NEW m \in Nat \ {0}, NEW u \in 0..(m - 1), NEW v \in 0..(m - 1),
         NEW d \in Int, NEW e \in Int,
         d = IF 2 * u < m THEN u ELSE u - m,
         2 * e < m, 0 - m <= 2 * e,
         \/ e = d /\ v = u
         \/ e = d + 1 /\ v = IF u = m - 1 THEN 0 ELSE u + 1
         \/ e = d - 1 /\ v = IF u = 0 THEN m - 1 ELSE u - 1
  PROVE  e = IF 2 * v < m THEN v ELSE v - m
  OBVIOUS

\* Due is never outside that range.
DueFits == Due \in Int /\ 2 * Due < CounterModulus /\ 0 - CounterModulus <= 2 * Due

LEMMA DueAlwaysFits == CounterIsWide /\ TypeOK /\ WithinCapacity => DueFits
  <1> SUFFICES ASSUME CounterIsWide, TypeOK, WithinCapacity
               PROVE  DueFits
    OBVIOUS
  <1> DEFINE n == Len(newFiles) + Len(missingFiles)
             h == Cardinality(CountingHandlers)
             s == Cardinality(CountingSenders)
             w == Cardinality(Busy)
  <1>1. n \in Nat /\ n <= QueueCap + MissingCap
    BY ConstantsAssumption DEF TypeOK, WithinCapacity
  <1>2. /\ h \in 0..Cardinality(Files) /\ s \in 0..Cardinality(Senders) /\ w \in 0..Workers
        /\ Cardinality(Files) \in Nat /\ Cardinality(Senders) \in Nat
    BY Counts DEF CountingHandlers, CountingSenders, Busy, CounterIsWide
  <1>3. /\ CounterModulus \in Nat /\ QueueCap \in Nat /\ MissingCap \in Nat /\ Workers \in Nat
        /\ 2 * (QueueCap + MissingCap + Workers) < CounterModulus
        /\ 2 * (Cardinality(Files) + Cardinality(Senders)) <= CounterModulus
    BY ConstantsAssumption DEF CounterIsWide
  <1>4. Due = n + w - h - s
    BY DEF Due
  <1> HIDE DEF n, h, s, w
  <1> QED
    BY <1>1, <1>2, <1>3, <1>4 DEF DueFits

\* The counter follows what it stands for.
LEMMA CounterFollows ==
  ASSUME CounterIsWide, TypeOK, WithinCapacity, TypeOK', WithinCapacity',
         QueueLength = Due,
         \/ Due' = Due /\ UNCHANGED unfinishedJobs
         \/ Due' = Due + 1 /\ unfinishedJobs' = (unfinishedJobs + 1) % CounterModulus
         \/ /\ Due' = Due - 1
            /\ unfinishedJobs' = (unfinishedJobs + (CounterModulus - 1)) % CounterModulus
  PROVE  (QueueLength = Due)'
  <1>1. /\ CounterModulus \in Nat \ {0}
        /\ unfinishedJobs \in 0..(CounterModulus - 1)
        /\ unfinishedJobs' \in 0..(CounterModulus - 1)
    BY ConstantsAssumption DEF TypeOK
  <1>2. CounterIsWide'
    BY DEF CounterIsWide
  <1>3. DueFits /\ DueFits'
    BY DueAlwaysFits, <1>2, PTL
  <1>4. /\ Due = IF 2 * unfinishedJobs < CounterModulus
               THEN unfinishedJobs ELSE unfinishedJobs - CounterModulus
        /\ Due \in Int /\ Due' \in Int
        /\ 2 * Due' < CounterModulus /\ 0 - CounterModulus <= 2 * Due'
    BY <1>3 DEF QueueLength, DueFits
  <1>5. \/ Due' = Due /\ unfinishedJobs' = unfinishedJobs
        \/ Due' = Due + 1 /\ unfinishedJobs' =
             IF unfinishedJobs = CounterModulus - 1 THEN 0 ELSE unfinishedJobs + 1
        \/ Due' = Due - 1 /\ unfinishedJobs' =
             IF unfinishedJobs = 0 THEN CounterModulus - 1 ELSE unfinishedJobs - 1
    BY <1>1, CounterWraps
  <1>6. Due' = IF 2 * unfinishedJobs' < CounterModulus
               THEN unfinishedJobs' ELSE unfinishedJobs' - CounterModulus
    BY <1>1, <1>4, <1>5, ReadWithSign
  <1> QED
    BY <1>6 DEF QueueLength

\* What a step does to what the counter stands for, and to the counter.
DueStep ==
  /\ WithinCapacity'
  /\ \/ Due' = Due /\ UNCHANGED unfinishedJobs
     \/ Due' = Due + 1 /\ unfinishedJobs' = (unfinishedJobs + 1) % CounterModulus
     \/ /\ Due' = Due - 1
        /\ unfinishedJobs' = (unfinishedJobs + (CounterModulus - 1)) % CounterModulus
     \/ Due' = 0 /\ unfinishedJobs' = 0

LEMMA StepDue ==
  ASSUME CounterIsWide, TypeOK, OnlyStoredFilesQueued, WithinCapacity, [Next]_vars
  PROVE  DueStep
  <1>0. /\ IsFiniteSet(CountingHandlers) /\ Cardinality(CountingHandlers) \in Int
        /\ IsFiniteSet(CountingSenders) /\ Cardinality(CountingSenders) \in Int
        /\ IsFiniteSet(Busy) /\ Cardinality(Busy) \in Int
        /\ Len(newFiles) \in Nat /\ Len(missingFiles) \in Nat
        /\ QueueCap \in Nat /\ MissingCap \in Nat
        /\ newFiles \in Seq(Locations) /\ missingFiles \in Seq(Locations)
    <2>1. /\ CountingHandlers \in SUBSET Files /\ CountingSenders \in SUBSET Senders
          /\ Busy \in SUBSET Replicators
      BY DEF CountingHandlers, CountingSenders, Busy
    <2> QED
      BY <2>1, Counts, ConstantsAssumption DEF TypeOK, CounterIsWide
  \* Steps that send nothing, count nothing and give nobody a job.
  <1>1. ASSUME UNCHANGED <<newFiles, missingFiles, unfinishedJobs, job>>,
               CountingHandlers' = CountingHandlers, CountingSenders' = CountingSenders
        PROVE  DueStep
    <2>1. Busy' = Busy
      BY <1>1 DEF Busy
    <2> QED
      BY <1>1, <2>1 DEF DueStep, Due, WithinCapacity
  <1>2. ASSUME NEW f \in Files, NEW kind \in {"post", "put"}, Store(f, kind)
        PROVE  DueStep
    <2>1. handler[f] = "idle"
      BY <1>2 DEF Store, OnlyStoredFilesQueued
    <2>2. CountingHandlers' = CountingHandlers
      BY <1>2, <2>1 DEF Store, CountingHandlers, TypeOK
    <2> QED
      BY <1>1, <1>2, <2>2 DEF Store, queues, senders, workers, CountingSenders
  <1>3. ASSUME NEW f \in Files, EnqueueNewFile(f) PROVE DueStep
    <2>1. UNCHANGED <<missingFiles, unfinishedJobs, job, phase>>
      BY <1>3 DEF EnqueueNewFile, senders, workers
    <2>2. CASE Len(newFiles) < QueueCap
      <3>1. /\ f \notin CountingHandlers
            /\ CountingHandlers' = CountingHandlers \cup {f}
        <4>1. handler[f] = "post" /\ handler' = [handler EXCEPT ![f] = "counting"]
          BY <1>0, <1>3, <2>2 DEF EnqueueNewFile
        <4> QED
          BY <4>1 DEF CountingHandlers, TypeOK
      <3>2. Cardinality(CountingHandlers') = Cardinality(CountingHandlers) + 1
        BY <1>0, <3>1, OneMore
      <3>3. newFiles' = Append(newFiles, f[1]) /\ f[1] \in Locations
        BY <1>3, <2>2, ConstantsAssumption DEF EnqueueNewFile, Variants
      <3>4. Len(newFiles') = Len(newFiles) + 1
        BY <1>0, <3>3
      <3>5. CountingSenders' = CountingSenders /\ Busy' = Busy
        BY <2>1 DEF CountingSenders, Busy
      <3>6. Due' = Due
        BY <1>0, <2>1, <3>2, <3>4, <3>5 DEF Due
      <3>7. WithinCapacity'
        BY <1>0, <2>1, <2>2, <3>4 DEF WithinCapacity
      <3> QED
        BY <2>1, <3>6, <3>7 DEF DueStep
    <2>3. CASE ~(Len(newFiles) < QueueCap)
      <3>1. CountingHandlers' = CountingHandlers /\ UNCHANGED newFiles
        BY <1>3, <2>3 DEF EnqueueNewFile, CountingHandlers, TypeOK
      <3> QED
        BY <1>1, <2>1, <3>1 DEF CountingSenders
    <2> QED
      BY <2>2, <2>3
  <1>4. ASSUME NEW f \in Files, CountNewFile(f) PROVE DueStep
    <2>1. /\ f \in CountingHandlers /\ CountingHandlers' = CountingHandlers \ {f}
      BY <1>4 DEF CountNewFile, CountingHandlers, TypeOK
    <2>2. Cardinality(CountingHandlers') = Cardinality(CountingHandlers) - 1
      BY <1>0, <2>1, OneLess
    <2>3. /\ UNCHANGED <<newFiles, missingFiles>>
          /\ CountingSenders' = CountingSenders /\ Busy' = Busy
          /\ unfinishedJobs' = (unfinishedJobs + 1) % CounterModulus
      BY <1>4 DEF CountNewFile, senders, workers, CountingSenders, Busy
    <2>4. Due' = Due + 1
      BY <1>0, <2>2, <2>3 DEF Due
    <2> QED
      BY <2>3, <2>4 DEF DueStep, WithinCapacity
  <1>5. ASSUME NEW f \in Files, EnqueueReplicatedFile(f) \/ StoreAtTarget(f) PROVE DueStep
    <2>1. CountingHandlers' = CountingHandlers
      BY <1>5 DEF EnqueueReplicatedFile, StoreAtTarget, CountingHandlers, TypeOK
    <2> QED
      BY <1>1, <1>5, <2>1
      DEF EnqueueReplicatedFile, StoreAtTarget, queues, senders, workers, CountingSenders
  <1>6. ASSUME NEW w \in Replicators, TakeNewFile(w) \/ TakeMissingFile(w) PROVE DueStep
    <2>1. /\ UNCHANGED <<unfinishedJobs, handler, phase>>
          /\ job[w] = None /\ job \in [Replicators -> Locations \cup {None}]
      BY <1>6 DEF TakeNewFile, TakeMissingFile, senders, TypeOK
    <2>2. \E l \in Locations : job' = [job EXCEPT ![w] = l]
      BY <1>0, <1>6, RangeTail DEF TakeNewFile, TakeMissingFile
    <2>3. w \notin Busy /\ Busy' = Busy \cup {w}
      BY <2>1, <2>2, ConstantsAssumption DEF Busy
    <2>4. Cardinality(Busy') = Cardinality(Busy) + 1
      BY <1>0, <2>3, OneMore
    <2>5. \/ Len(newFiles') = Len(newFiles) - 1 /\ UNCHANGED missingFiles
          \/ Len(missingFiles') = Len(missingFiles) - 1 /\ UNCHANGED newFiles
      BY <1>0, <1>6, HeadTailProperties DEF TakeNewFile, TakeMissingFile
    <2>6. CountingHandlers' = CountingHandlers /\ CountingSenders' = CountingSenders
      BY <2>1 DEF CountingHandlers, CountingSenders
    <2>7. Due' = Due
      <3>1. CASE Len(newFiles') = Len(newFiles) - 1 /\ UNCHANGED missingFiles
        BY <1>0, <2>4, <2>6, <3>1 DEF Due
      <3>2. CASE Len(missingFiles') = Len(missingFiles) - 1 /\ UNCHANGED newFiles
        BY <1>0, <2>4, <2>6, <3>2 DEF Due
      <3> QED
        BY <2>5, <3>1, <3>2
    <2>8. WithinCapacity'
      BY <1>0, <2>5 DEF WithinCapacity
    <2> QED
      BY <2>1, <2>7, <2>8 DEF DueStep
  <1>7. ASSUME NEW w \in Replicators, OpenFile(w) \/ PutSucceeds(w) \/ PutFails(w)
        PROVE  DueStep
    BY <1>1, <1>7
    DEF OpenFile, PutSucceeds, PutFails, queues, senders, CountingHandlers, CountingSenders
  <1>8. ASSUME NEW w \in Replicators, FinishJob(w) PROVE DueStep
    <2>1. w \in Busy /\ Busy' = Busy \ {w}
      BY <1>8 DEF FinishJob, Busy, TypeOK
    <2>2. Cardinality(Busy') = Cardinality(Busy) - 1
      BY <1>0, <2>1, OneLess
    <2>3. /\ UNCHANGED <<newFiles, missingFiles>>
          /\ CountingHandlers' = CountingHandlers /\ CountingSenders' = CountingSenders
          /\ unfinishedJobs' = (unfinishedJobs + (CounterModulus - 1)) % CounterModulus
      BY <1>8 DEF FinishJob, senders, CountingHandlers, CountingSenders
    <2>4. Due' = Due - 1
      BY <1>0, <2>2, <2>3 DEF Due
    <2> QED
      BY <2>3, <2>4 DEF DueStep, WithinCapacity
  <1>9. CASE StartResync \/ EnumerateFile \/ CloseLocations \/ RequestResync \/ UNCHANGED vars
    <2>1. CountingSenders' = CountingSenders
      BY <1>9 DEF StartResync, EnumerateFile, CloseLocations, RequestResync, vars, senders,
        CountingSenders, TypeOK
    <2> QED
      BY <1>1, <1>9, <2>1
      DEF StartResync, EnumerateFile, CloseLocations, RequestResync, vars, queues, workers,
        CountingHandlers
  <1>10. ASSUME NEW s \in Senders,
                \/ ReceiveLocation(s) \/ SendFileList(s) \/ ReturnFromSendFileLists(s)
                \/ ListMissingFile(s) \/ FileListFails(s) \/ ReceiveReply(s) \/ ReplyQueued(s)
         PROVE  DueStep
    <2>1. CountingSenders' = CountingSenders
      BY <1>10 DEF ReceiveLocation, SendFileList, ReturnFromSendFileLists, ListMissingFile,
        FileListFails, ReceiveReply, ReplyQueued, CountingSenders, TypeOK
    <2> QED
      BY <1>1, <1>10, <2>1
      DEF ReceiveLocation, SendFileList, ReturnFromSendFileLists, ListMissingFile,
        FileListFails, ReceiveReply, ReplyQueued, queues, workers, CountingHandlers
  <1>11. ASSUME NEW s \in Senders, EnqueueMissingFile(s) PROVE DueStep
    <2>1. s \notin CountingSenders /\ CountingSenders' = CountingSenders \cup {s}
      BY <1>11 DEF EnqueueMissingFile, CountingSenders, TypeOK
    <2>2. Cardinality(CountingSenders') = Cardinality(CountingSenders) + 1
      BY <1>0, <2>1, OneMore
    <2>3. Head(reply[s]) \in Locations
      BY <1>11, RangeTail DEF EnqueueMissingFile, TypeOK
    <2>4. Len(missingFiles') = Len(missingFiles) + 1 /\ Len(missingFiles) < MissingCap
      BY <1>0, <1>11, <2>3 DEF EnqueueMissingFile
    <2>5. /\ UNCHANGED <<newFiles, unfinishedJobs>>
          /\ CountingHandlers' = CountingHandlers /\ Busy' = Busy
      BY <1>11 DEF EnqueueMissingFile, workers, CountingHandlers, Busy
    <2>6. Due' = Due
      BY <1>0, <2>2, <2>4, <2>5 DEF Due
    <2>7. WithinCapacity'
      BY <1>0, <2>4, <2>5 DEF WithinCapacity
    <2> QED
      BY <2>5, <2>6, <2>7 DEF DueStep
  <1>12. ASSUME NEW s \in Senders, CountMissingFile(s) PROVE DueStep
    <2>1. s \in CountingSenders /\ CountingSenders' = CountingSenders \ {s}
      BY <1>12 DEF CountMissingFile, CountingSenders, TypeOK
    <2>2. Cardinality(CountingSenders') = Cardinality(CountingSenders) - 1
      BY <1>0, <2>1, OneLess
    <2>3. /\ UNCHANGED <<newFiles, missingFiles>>
          /\ CountingHandlers' = CountingHandlers /\ Busy' = Busy
          /\ unfinishedJobs' = (unfinishedJobs + 1) % CounterModulus
      BY <1>12 DEF CountMissingFile, workers, CountingHandlers, Busy
    <2>4. Due' = Due + 1
      BY <1>0, <2>2, <2>3 DEF Due
    <2> QED
      BY <2>3, <2>4 DEF DueStep, WithinCapacity
  <1>13. CASE Restart
    <2>1. /\ newFiles' = << >> /\ missingFiles' = << >> /\ unfinishedJobs' = 0
          /\ CountingHandlers' = {} /\ CountingSenders' = {} /\ Busy' = {}
      BY <1>13 DEF Restart, CountingHandlers, CountingSenders, Busy
    <2> QED
      BY <1>0, <2>1, FS_EmptySet DEF DueStep, Due, WithinCapacity
  <1> QED
    BY <1>2, <1>3, <1>4, <1>5, <1>6, <1>7, <1>8, <1>9, <1>10, <1>11, <1>12, <1>13
    DEF Next, HandlerStep, WorkerStep, ResyncStep, SenderStep

LEMMA InitQueueLength == Init => WithinCapacity /\ QueueLength = Due
  <1> SUFFICES ASSUME Init PROVE WithinCapacity /\ QueueLength = Due
    OBVIOUS
  <1>1. /\ newFiles = << >> /\ missingFiles = << >> /\ unfinishedJobs = 0
        /\ CountingHandlers = {} /\ CountingSenders = {} /\ Busy = {}
    BY DEF Init, CountingHandlers, CountingSenders, Busy
  <1>2. QueueCap \in Nat /\ MissingCap \in Nat /\ CounterModulus \in Nat \ {0}
    BY ConstantsAssumption
  <1> QED
    BY <1>1, <1>2, FS_EmptySet DEF Due, WithinCapacity, QueueLength

LEMMA StepQueueLength ==
  CounterIsWide /\ TypeOK /\ TypeOK' /\ OnlyStoredFilesQueued
    /\ WithinCapacity /\ QueueLength = Due /\ [Next]_vars
  => (WithinCapacity /\ QueueLength = Due)'
  <1> SUFFICES ASSUME CounterIsWide, TypeOK, TypeOK', OnlyStoredFilesQueued,
                      WithinCapacity, QueueLength = Due, [Next]_vars
               PROVE  WithinCapacity' /\ (QueueLength = Due)'
    OBVIOUS
  <1>1. WithinCapacity'
    BY StepDue DEF DueStep
  <1>2. CASE Due' = 0 /\ unfinishedJobs' = 0
    <2>1. CounterModulus \in Nat \ {0}
      BY ConstantsAssumption
    <2> QED
      BY <1>1, <1>2, <2>1 DEF QueueLength
  <1>3. CASE ~(Due' = 0 /\ unfinishedJobs' = 0)
    BY <1>1, <1>3, StepDue, CounterFollows DEF DueStep
  <1> QED
    BY <1>1, <1>2, <1>3

\* Whatever is in the channels, the counter agrees with them.
LEMMA QueueLengthIsDue ==
  CounterIsWide /\ TypeOK /\ QueueLength = Due => QueueLengthAccurate
  <1> SUFFICES ASSUME CounterIsWide, TypeOK, QueueLength = Due
               PROVE  QueueLengthAccurate
    OBVIOUS
  <1>1. /\ Cardinality(CountingHandlers) \in Nat /\ Cardinality(CountingSenders) \in Nat
        /\ Cardinality(Busy) \in Nat
    <2>1. /\ CountingHandlers \in SUBSET Files /\ CountingSenders \in SUBSET Senders
          /\ Busy \in SUBSET Replicators
      BY DEF CountingHandlers, CountingSenders, Busy
    <2> QED
      BY <2>1, Counts, ConstantsAssumption DEF CounterIsWide
  <1>2. Len(newFiles) \in Nat /\ Len(missingFiles) \in Nat
    BY DEF TypeOK
  <1>3. QueueLength + Cardinality(CountingHandlers) + Cardinality(CountingSenders)
          = Len(newFiles) + Len(missingFiles) + Cardinality(Busy)
    BY <1>1, <1>2 DEF Due
  <1> QED
    BY <1>3 DEF QueueLengthAccurate, CountingHandlers, CountingSenders, Busy

\* queueLength is right for any queues, workers and resyncs that overlap, as
\* long as the counter is wide enough for its sign to be read.  The atomic add
\* that counts a file comes after the send, so that the length may be behind.
THEOREM CounterIsAccurate ==
  ASSUME CounterIsWide
  PROVE  Spec => []QueueLengthAccurate
  <1>1. Spec => [](WithinCapacity /\ QueueLength = Due)
    BY InitQueueLength, StepQueueLength, TypeCorrect, OnlyStoredAreQueued, PTL DEF Spec
  <1> QED
    BY <1>1, QueueLengthIsDue, TypeCorrect, PTL
=============================================================================
