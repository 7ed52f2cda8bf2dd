------------------------ MODULE ReplicationRefinement ------------------------
(***************************************************************************)
(* ReplicationTarget implements ReplicationLedger: the safety part, for    *)
(* any files, workers, senders and capacities.                             *)
(***************************************************************************)
EXTENDS ReplicationTargetProofs

\* The ledger's variables.
Stored == {l \in Locations : StoredAt(local, l)}
Arrived == {l \in Locations : StoredAt(remote, l)}
Owed == {l \in Locations : StoredAt(local, l) /\ Remembered(l)}

LedgerStep == [Ledger!Next]_(Ledger!ledger)

-----------------------------------------------------------------------------
(* What makes a step of the ledger *)

LEMMA LedgerStore ==
  ASSUME NEW l \in Locations, Stored' = Stored \cup {l}, Owed' = Owed \cup {l},
         Arrived' = Arrived
  PROVE  LedgerStep
  BY DEF LedgerStep, Ledger!Next, Ledger!Store, Stored, Arrived, Owed

LEMMA LedgerArrive ==
  ASSUME NEW l \in Locations, Stored' = Stored, Owed' = Owed, Arrived' = Arrived \cup {l}
  PROVE  LedgerStep
  BY DEF LedgerStep, Ledger!Next, Ledger!Arrive, Stored, Arrived, Owed

\* Nothing stored that was remembered has been forgotten.
LEMMA LedgerResync ==
  ASSUME UNCHANGED disks,
         \A l \in Locations : StoredAt(local, l) /\ Remembered(l) => Remembered(l)'
  PROVE  LedgerStep
  <1>1. Stored' = Stored /\ Arrived' = Arrived /\ Owed \subseteq Owed' /\ Owed' \subseteq Stored
    BY DEF Stored, Arrived, Owed, disks, StoredAt
  <1>2. Owed' \in SUBSET Locations /\ Owed' = Owed \cup Owed'
    BY <1>1 DEF Owed
  <1>3. Ledger!Resync(Owed')
    BY <1>1, <1>2 DEF Ledger!Resync, Stored, Arrived, Owed
  <1> QED
    BY <1>2, <1>3 DEF LedgerStep, Ledger!Next

\* Nothing is remembered that was not, and only what the target has has been
\* forgotten.
LEMMA LedgerSettle ==
  ASSUME UNCHANGED disks,
         \A l \in Locations : Remembered(l)' => Remembered(l),
         \A l \in Locations :
            Remembered(l) => Remembered(l)' \/ StoredAt(remote, l)
  PROVE  LedgerStep
  <1> DEFINE Struck == Owed \ Owed'
  <1>1. Stored' = Stored /\ Arrived' = Arrived /\ Owed' \subseteq Owed /\ Struck \subseteq Arrived
    BY DEF Stored, Arrived, Owed, disks, StoredAt
  <1>2. Struck \in SUBSET Locations /\ Owed' = Owed \ Struck
    BY <1>1 DEF Owed
  <1>3. Ledger!Settle(Struck)
    BY <1>1, <1>2 DEF Ledger!Settle, Stored, Arrived, Owed
  <1> QED
    BY <1>2, <1>3 DEF LedgerStep, Ledger!Next

\* Steps that leave alone all that a location is remembered by.
LEMMA RememberedUnchanged ==
  ASSUME NEW l, UNCHANGED <<needToResync, unseen>>, Queued(l)' <=> Queued(l),
         \A f \in Files : handler[f] \in {"post", "put"} <=> handler'[f] \in {"post", "put"}
  PROVE  Remembered(l)' <=> Remembered(l)
  BY DEF Remembered

-----------------------------------------------------------------------------
(* One lemma for the steps of each goroutine *)

\* A file that is linked is entered, and is not forgotten while its handler
\* has it.  The file may be the second variant of a location.
LEMMA StoreKeepsLedger ==
  ASSUME TypeOK, OnlyStoredFilesQueued,
         NEW f \in Files, NEW kind \in {"post", "put"}, Store(f, kind)
  PROVE  LedgerStep
  <1>1. /\ f[1] \in Locations /\ f \in Locations \X Variants
        /\ local' = local \cup {f} /\ UNCHANGED <<remote, needToResync>>
        /\ unseen \subseteq unseen' /\ unseen' \subseteq unseen \cup {f}
        /\ handler'[f] = kind /\ \A g \in Files \ {f} : handler'[g] = handler[g]
        /\ \A l : Queued(l)' <=> Queued(l)
    <2>1. \A l : Queued(l)' <=> Queued(l)
      BY QueuedUnchanged DEF Store, queues, senders, workers
    <2> QED
      BY <2>1, ConstantsAssumption DEF Store, TypeOK, Variants
  <1>2. handler[f] = "idle"
    BY DEF Store, OnlyStoredFilesQueued
  <1>3. Remembered(f[1])'
    BY <1>1 DEF Remembered
  <1>4. \A l \in Locations \ {f[1]} : Remembered(l)' <=> Remembered(l)
    BY <1>1 DEF Remembered
  <1>5. \A l \in Locations : StoredAt(local', l) <=> StoredAt(local, l) \/ l = f[1]
    BY <1>1 DEF StoredAt
  <1>6. Stored' = Stored \cup {f[1]} /\ Arrived' = Arrived
    BY <1>1, <1>5 DEF Stored, Arrived, StoredAt
  <1>7. Owed' = Owed \cup {f[1]}
    BY <1>1, <1>3, <1>4, <1>5 DEF Owed, StoredAt
  <1> QED
    BY <1>1, <1>6, <1>7, LedgerStore

\* A handler hands its location over to a queue, or to the next resync.
LEMMA HandlerKeepsLedger ==
  ASSUME TypeOK, NEW f \in Files, HandlerStep(f)
  PROVE  LedgerStep
  <1>1. CASE EnqueueNewFile(f) \/ EnqueueReplicatedFile(f)
    <2>1. /\ UNCHANGED <<disks, unseen>> /\ (needToResync => needToResync')
          /\ \A g \in Files \ {f} : handler'[g] = handler[g]
      BY <1>1 DEF EnqueueNewFile, EnqueueReplicatedFile, scan, TypeOK
    <2>2. \/ \A k : Queued(k)' <=> Queued(k) \/ k = f[1]
          \/ needToResync'
      BY <1>1, QueuedByEnqueueNewFile, QueuedByEnqueueReplicatedFile
    <2>3. \A l \in Locations : Remembered(l) => Remembered(l)'
      BY <2>1, <2>2 DEF Remembered
    <2> QED
      BY <2>1, <2>3, LedgerResync
  <1>2. CASE CountNewFile(f)
    <2>1. \A l : Queued(l)' <=> Queued(l)
      BY <1>2, QueuedUnchanged DEF CountNewFile, senders, workers
    <2>2. /\ UNCHANGED <<disks, needToResync, unseen>>
          /\ \A g \in Files : handler[g] \in {"post", "put"} <=> handler'[g] \in {"post", "put"}
      BY <1>2 DEF CountNewFile, scan, TypeOK
    <2> QED
      BY <2>1, <2>2, RememberedUnchanged, LedgerResync
  <1> QED
    BY <1>1, <1>2 DEF HandlerStep

\* A worker's job is delivered before it is struck out.
LEMMA WorkerKeepsLedger ==
  ASSUME TypeOK, AnswersSound, NEW w \in Replicators,
         WorkerStep(w) \/ PutSucceeds(w) \/ PutFails(w)
  PROVE  LedgerStep
  <1>1. UNCHANGED <<local, needToResync, unseen, handler>>
    BY DEF WorkerStep, TakeNewFile, TakeMissingFile, OpenFile, FinishJob,
      PutSucceeds, PutFails, scan, disks
  <1>2. CASE TakeNewFile(w) \/ TakeMissingFile(w)
    <2>1. \A l \in Locations : Queued(l)' <=> Queued(l)
      BY <1>2, QueuedByTake
    <2>2. UNCHANGED disks
      BY <1>2 DEF TakeNewFile, TakeMissingFile
    <2> QED
      BY <1>1, <2>1, <2>2, RememberedUnchanged, LedgerResync
  <1>3. ASSUME OpenFile(w) \/ PutSucceeds(w) \/ PutFails(w)
        PROVE  LedgerStep
    <2>1. \A l : Queued(l)' <=> Queued(l)
      BY <1>3, QueuedUnchanged DEF OpenFile, PutSucceeds, PutFails, queues, senders
    <2>2. \A l \in Locations : Remembered(l)' <=> Remembered(l)
      BY <1>1, <2>1, RememberedUnchanged
    <2>3. CASE UNCHANGED remote
      BY <1>1, <2>2, <2>3, LedgerResync DEF disks
    <2>4. CASE remote' = remote \cup {<<job[w], put[w]>>} /\ job[w] # None /\ put[w] \in Variants
      <3>1. job[w] \in Locations
        BY <2>4 DEF TypeOK
      <3>2. \A l \in Locations : StoredAt(remote', l) <=> StoredAt(remote, l) \/ l = job[w]
        BY <2>4 DEF StoredAt
      <3>3. /\ Stored' = Stored /\ Owed' = Owed
            /\ Arrived' = Arrived \cup {job[w]}
        BY <1>1, <2>2, <3>1, <3>2 DEF Stored, Arrived, Owed, StoredAt
      <3> QED
        BY <3>1, <3>3, LedgerArrive
    <2> QED
      BY <1>3, <2>3, <2>4 DEF OpenFile, PutSucceeds, PutFails, disks
  <1>4. CASE FinishJob(w)
    <2>1. StoredAt(remote, job[w])
      BY <1>4 DEF FinishJob, AnswersSound
    <2>2. \A l \in Locations : /\ Remembered(l)' => Remembered(l)
                               /\ Remembered(l) => Remembered(l)' \/ l = job[w]
      BY <1>1, <1>4, QueuedByFinishJob DEF Remembered
    <2> QED
      BY <1>4, <2>1, <2>2, LedgerSettle DEF FinishJob
  <1> QED
    BY <1>2, <1>3, <1>4 DEF WorkerStep

\* The flag of a resync is lowered once every stored file is to be scanned.
LEMMA ResyncKeepsLedger ==
  ASSUME TypeOK, ResyncStep
  PROVE  LedgerStep
  <1>1. UNCHANGED <<disks, handler>>
    BY DEF ResyncStep, StartResync, EnumerateFile, CloseLocations
  <1>2. CASE StartResync
    <2>1. unseen' = local
      BY <1>2 DEF StartResync
    <2>2. ASSUME NEW l \in Locations, StoredAt(local, l) PROVE Remembered(l)'
      <3>1. PICK v \in Variants : <<l, v>> \in unseen'
        BY <2>1, <2>2 DEF StoredAt
      <3> QED
        BY <3>1 DEF Remembered
    <2> QED
      BY <1>1, <2>2, LedgerResync
  <1>3. CASE EnumerateFile
    <2>1. PICK f \in unseen : /\ unseen' = unseen \ {f}
                             /\ \A k : Queued(k)' <=> Queued(k) \/ k = f[1]
      BY <1>3, QueuedByEnumerateFile
    <2>2. UNCHANGED needToResync
      BY <1>3 DEF EnumerateFile
    <2>3. \A l \in Locations : Remembered(l) => Remembered(l)'
      BY <1>1, <2>1, <2>2 DEF Remembered
    <2> QED
      BY <1>1, <2>3, LedgerResync
  <1>4. CASE CloseLocations
    <2>1. \A l : Queued(l)' <=> Queued(l)
      BY <1>4, QueuedUnchanged DEF CloseLocations, queues, senders, workers
    <2> QED
      BY <1>1, <1>4, <2>1, RememberedUnchanged, LedgerResync DEF CloseLocations
  <1> QED
    BY <1>2, <1>3, <1>4 DEF ResyncStep

\* A whole reply strikes out what the target has, and a sender's other steps
\* only move locations on.
LEMMA SenderKeepsLedger ==
  ASSUME ~RepliesCanBeCut, TypeOK, AnswersSound, NEW s \in Senders,
         SenderStep(s) \/ FileListFails(s) \/ ReceiveReply(s)
  PROVE  LedgerStep
  <1>1. UNCHANGED <<disks, needToResync, unseen, handler>>
    BY DEF SenderStep, ReceiveLocation, SendFileList, ReturnFromSendFileLists,
      ListMissingFile, FileListFails, ReceiveReply, EnqueueMissingFile,
      CountMissingFile, ReplyQueued, scan
  <1>2. CASE SenderStep(s) \/ FileListFails(s)
    <2>1. SendFileList(s) \/ ReturnFromSendFileLists(s) \/ CountMissingFile(s)
             \/ ReplyQueued(s) => \A l : Queued(l)' <=> Queued(l)
      BY QueuedUnchanged DEF SendFileList, ReturnFromSendFileLists,
        CountMissingFile, ReplyQueued, queues, workers
    <2>2. \A l : Queued(l)' <=> Queued(l)
      BY <1>2, <2>1, QueuedByReceiveLocation, QueuedByListMissingFile,
        QueuedByEnqueueMissingFile DEF SenderStep
    <2> QED
      BY <1>1, <2>2, RememberedUnchanged, LedgerResync
  <1>3. CASE ReceiveReply(s)
    <2>1. \A l \in Locations : /\ Remembered(l)' => Remembered(l)
                               /\ Remembered(l) => Remembered(l)' \/ StoredAt(remote, l)
      BY <1>1, <1>3, QueuedByReceiveReply DEF Remembered
    <2> QED
      BY <1>1, <2>1, LedgerSettle
  <1> QED
    BY <1>2, <1>3

\* Another server stores a file on the target, a signal asks for a resync, or
\* the process is started again, with one to do.
LEMMA EnvironmentKeepsLedger ==
  ASSUME TypeOK, \/ \E f \in Files : StoreAtTarget(f)
                 \/ RequestResync \/ Restart
  PROVE  LedgerStep
  <1>1. ASSUME NEW f \in Files, StoreAtTarget(f) PROVE LedgerStep
    <2>1. \A l : Queued(l)' <=> Queued(l)
      BY <1>1, QueuedUnchanged DEF StoreAtTarget, queues, senders, workers
    <2>2. f[1] \in Locations /\ f \in Locations \X Variants /\ remote' = remote \cup {f}
      BY <1>1, ConstantsAssumption DEF StoreAtTarget, Variants
    <2>3. UNCHANGED <<local, needToResync, unseen, handler>>
      BY <1>1 DEF StoreAtTarget, scan
    <2>4. \A l \in Locations : Remembered(l)' <=> Remembered(l)
      BY <2>1, <2>3, RememberedUnchanged
    <2>5. \A l \in Locations : StoredAt(remote', l) <=> StoredAt(remote, l) \/ l = f[1]
      BY <2>2 DEF StoredAt
    <2>6. Stored' = Stored /\ Owed' = Owed /\ Arrived' = Arrived \cup {f[1]}
      BY <2>2, <2>3, <2>4, <2>5 DEF Stored, Arrived, Owed, StoredAt
    <2> QED
      BY <2>2, <2>6, LedgerArrive
  <1>2. CASE RequestResync \/ Restart
    <2>1. UNCHANGED disks /\ needToResync'
      BY <1>2 DEF RequestResync, Restart
    <2> QED
      BY <2>1, LedgerResync DEF Remembered
  <1> QED
    BY <1>1, <1>2

LEMMA StutterKeepsLedger ==
  ASSUME UNCHANGED vars
  PROVE  LedgerStep
  <1>1. \A l : Queued(l)' <=> Queued(l)
    BY QueuedUnchanged DEF vars, queues, senders, workers
  <1> QED
    BY <1>1, RememberedUnchanged, LedgerResync DEF vars, scan, disks

-----------------------------------------------------------------------------

\* Whatever the handlers, the scan, the senders and the workers do, and
\* however they interleave, they keep the ledger: provided that replies arrive
\* whole, nothing this node has is struck out before the target has it.
THEOREM KeepsTheLedger ==
  ASSUME ~RepliesCanBeCut
  PROVE  Spec => Ledger!Spec
  <1>1. Init => Ledger!Init
    BY DEF Init, Ledger!Init, Remembered
  <1>2. TypeOK /\ AnswersSound /\ OnlyStoredFilesQueued /\ [Next]_vars
          => [Ledger!Next]_(Ledger!ledger)
    <2> SUFFICES ASSUME TypeOK, AnswersSound, OnlyStoredFilesQueued, [Next]_vars
                 PROVE  LedgerStep
      BY DEF LedgerStep
    <2> QED
      BY StoreKeepsLedger, HandlerKeepsLedger, WorkerKeepsLedger, ResyncKeepsLedger,
        SenderKeepsLedger, EnvironmentKeepsLedger, StutterKeepsLedger DEF Next
  <1> QED
    BY <1>1, <1>2, TypeCorrect, AnswersAreSound, OnlyStoredAreQueued, PTL
    DEF Spec, Ledger!Spec
=============================================================================
