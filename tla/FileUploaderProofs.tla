------------------------- MODULE FileUploaderProofs -------------------------
(***************************************************************************)
(* Theorems about FileUploader, for any number of requests of any kind,    *)
(* any directory they start from and any number of power losses.           *)
(***************************************************************************)
EXTENDS FileUploader, TLAPS

\* A request whose loop in Finish is over.
Placed(u) == phase[u] \in {"closing", "directory", "enqueueing", "answering", "created"}

\* A request that has a location.
Located(u) ==
  Placed(u) \/ phase[u] \in {"checking", "syncing", "linking", "rechecking"}

\* A request that created its file and has not lost it: no power loss has come
\* in between, or the directory was synced before it did.
Keeper(u) ==
  newFile[u] /\ \/ phase[u] \in {"closing", "directory", "enqueueing", "answering"}
                \/ u \in dirSynced
                \/ u \in enqueued /\ powerLosses = 0

\* The data of a file is on the disk proper before its name is.
SyncedFirst ==
  /\ unsynced = {}
  /\ \A u \in Uploads :
       /\ phase[u] \in {"new", "receiving", "locating"} => attempt[u] = 1
       /\ phase[u] \in {"linking", "rechecking"} => synced[u]
       /\ phase[u] = "checking" => synced[u] \/ attempt[u] = 1

\* Where each request is agrees with what it has done.
Staged(u) ==
  /\ Located(u) => location[u] \in Locations /\ location[u].hash = request[u].content
  /\ phase[u] \in {"directory", "enqueueing"} => newFile[u]
  /\ u \in enqueued => newFile[u] /\ phase[u] \in {"answering", "created", "lost"}
  /\ phase[u] \in {"answering", "created"} => (newFile[u] <=> u \in enqueued)
  /\ phase[u] \notin {"closing", "answering", "created", "lost"} => newFile[u]
  /\ u \in dirSynced => newFile[u] /\ phase[u] \in {"enqueueing", "answering", "created", "lost"}
  /\ phase[u] = "lost" => powerLosses > 0

StagesSound == \A u \in Uploads : Staged(u)

\* What a request found or made is still there, but for a power loss that takes
\* what was not synced.
Kept(u) ==
  /\ Placed(u) => Same(u) \/ (phase[u] = "created" /\ powerLosses > 0 /\ u \notin dirSynced)
  /\ u \in dirSynced => NameOf(u) \in durable

PlacedSound == \A u \in Uploads : Kept(u)

\* No two requests created one file, unless one of them has lost it.
OneKeeper ==
  \A u, v \in Uploads : Keeper(u) /\ Keeper(v) /\ NameOf(u) = NameOf(v) => u = v

-----------------------------------------------------------------------------

LEMMA PowerLossBound == MaxPowerLosses \in Nat
  BY UploaderAssumption

\* What is known of the request an upload makes.
LEMMA RequestFacts ==
  ASSUME TypeOK, NEW u \in Uploads
  PROVE  /\ request[u].at \in Locations \cup {NoLocation}
         /\ request[u].content \in Contents /\ request[u].ext \in Extensions
         /\ Bytes(u) \in StoredBytes
         /\ Bytes(u).content = request[u].content
  <1>1. request[u] \in
          [at : Locations \cup {NoLocation}, content : Contents, ext : Extensions,
           encoding : Encodings, compression : Compressions, body : Bodies]
    BY UploaderAssumption DEF TypeOK
  <1> HIDE DEF Locations
  <1> QED
    BY <1>1 DEF Bytes, StoredBytes

LEMMA SuffixedIsLocation ==
  ASSUME TypeOK, NEW u \in Uploads, NEW n \in Nat \ {0}
  PROVE  Suffixed(u, n) \in Locations /\ Suffixed(u, n).hash = request[u].content
  BY RequestFacts DEF Locations, Suffixed

LEMMA FileNameIsName ==
  ASSUME NEW l \in Locations, NEW e
  PROVE  FileName(l, e) \in Names /\ FileName(l, e).hash = l.hash
  BY DEF Locations, Names, FileName, Extensions

LEMMA InitTypeOK == Init => TypeOK
  <1> SUFFICES ASSUME Init PROVE TypeOK
    OBVIOUS
  <1>1. /\ files \in [DOMAIN files -> StoredBytes \cup {Corrupt, Unreadable}]
        /\ DOMAIN files \subseteq Names
    BY UploaderAssumption DEF Init
  <1>2. powerLosses \in 0..MaxPowerLosses
    BY PowerLossBound DEF Init
  <1>3. /\ location \in [Uploads -> Locations \cup {NoLocation}]
        /\ attempt \in [Uploads -> Nat \ {0}]
    BY DEF Init
  <1> QED
    BY <1>1, <1>2, <1>3 DEF Init, TypeOK, Ended

LEMMA StepTypeOK ==
  ASSUME TypeOK, StagesSound, [Next]_vars
  PROVE  TypeOK'
  <1>1. ASSUME NEW u \in Uploads,
               CreateTempfile(u) \/ SetUpFails(u) \/ Receive(u) \/ Fails(u)
        PROVE  TypeOK'
    BY <1>1 DEF TypeOK, Ended, GoTo, disk, history, CreateTempfile,
           SetUpFails, Receive, Fails
  <1>2. ASSUME NEW u \in Uploads, Locate(u) PROVE TypeOK'
    <2>1. Suffixed(u, 1) \in Locations
      <3>1. 1 \in Nat \ {0}
        OBVIOUS
      <3> QED
        BY <3>1, SuffixedIsLocation
    <2>2. request[u].at # NoLocation => request[u].at \in Locations
      BY RequestFacts
    <2>3. location' \in [Uploads -> Locations \cup {NoLocation}]
      BY <1>2, <2>1, <2>2 DEF TypeOK, Locate
    <2> QED
      BY <1>2, <2>3 DEF TypeOK, Ended, GoTo, disk, history, Locate
  <1>3. ASSUME NEW u \in Uploads, PreCheck(u) \/ Sync(u) PROVE TypeOK'
    BY <1>3 DEF TypeOK, Ended, GoTo, disk, history, PreCheck, Sync
  <1>4. ASSUME NEW u \in Uploads, Link(u) PROVE TypeOK'
    <2>1. NameOf(u) \in Names
      BY <1>4, FileNameIsName DEF StagesSound, Staged, Located, NameOf, Link
    <2>2. With(files, NameOf(u), Bytes(u))
             \in [DOMAIN files \cup {NameOf(u)} -> StoredBytes \cup {Corrupt, Unreadable}]
      BY RequestFacts DEF TypeOK, With
    <2>3. /\ files' \in [DOMAIN files' -> StoredBytes \cup {Corrupt, Unreadable}]
          /\ DOMAIN files' \subseteq Names
          /\ DOMAIN files \subseteq DOMAIN files'
          /\ unsynced' \subseteq DOMAIN files'
      BY <1>4, <2>1, <2>2 DEF TypeOK, Link
    <2> QED
      BY <1>4, <2>3 DEF TypeOK, Ended, GoTo, disk, history, Link
  <1>5. ASSUME NEW u \in Uploads, Recheck(u) PROVE TypeOK'
    <2>1. attempt[u] \in Nat /\ attempt[u] + 1 \in Nat \ {0}
      <3>1. attempt[u] \in Nat \ {0}
        BY DEF TypeOK
      <3> QED
        BY <3>1
    <2>2. Suffixed(u, attempt[u] + 1) \in Locations
      BY <2>1, SuffixedIsLocation
    <2>3. /\ location' \in [Uploads -> Locations \cup {NoLocation}]
          /\ attempt' \in [Uploads -> Nat \ {0}]
      BY <1>5, <2>1, <2>2 DEF TypeOK, Recheck
    <2> QED
      BY <1>5, <2>3 DEF TypeOK, Ended, GoTo, disk, history, Recheck
  <1>6. ASSUME NEW u \in Uploads,
               Close(u) \/ SyncDirectory(u) \/ Enqueue(u) \/ Answer(u)
        PROVE  TypeOK'
    BY <1>6 DEF TypeOK, Ended, GoTo, disk, history, Close, SyncDirectory,
           Enqueue, Answer
  <1>7. CASE PowerLoss
    <2>1. PICK survivors \in SUBSET DOMAIN files :
             /\ files' = [f \in survivors |-> IF f \in unsynced THEN Corrupt ELSE files[f]]
             /\ durable' = survivors
      BY <1>7 DEF PowerLoss
    <2>2. /\ files' \in [DOMAIN files' -> StoredBytes \cup {Corrupt, Unreadable}]
          /\ DOMAIN files' = survivors
      BY <2>1 DEF TypeOK
    <2>3. powerLosses' \in 0..MaxPowerLosses
      <3>1. powerLosses \in Nat /\ MaxPowerLosses \in Nat
        BY PowerLossBound DEF TypeOK
      <3> QED
        BY <1>7, <3>1 DEF TypeOK, PowerLoss
    <2>4. /\ DOMAIN files' \subseteq Names
          /\ unsynced' \subseteq DOMAIN files' /\ durable' \subseteq DOMAIN files'
      BY <1>7, <2>1, <2>2 DEF TypeOK, PowerLoss
    <2> QED
      BY <1>7, <2>2, <2>3, <2>4 DEF TypeOK, Ended, PowerLoss
  <1>8. CASE UNCHANGED vars
    BY <1>8 DEF vars, disk, history, TypeOK
  <1> QED
    BY <1>1, <1>2, <1>3, <1>4, <1>5, <1>6, <1>7, <1>8 DEF Next, UploadStep

\* The step of a request leaves the others where they are.
LEMMA OthersKept ==
  ASSUME TypeOK, NEW u \in Uploads, UploadStep(u) \/ Fails(u),
         NEW v \in Uploads, v # u
  PROVE  /\ phase'[v] = phase[v] /\ newFile'[v] = newFile[v]
         /\ location'[v] = location[v] /\ NameOf(v)' = NameOf(v)
         /\ v \in enqueued' <=> v \in enqueued
         /\ v \in dirSynced' <=> v \in dirSynced
         /\ request' = request /\ powerLosses' = powerLosses
  <1> USE DEF TypeOK, GoTo, history
  <1>1. /\ phase'[v] = phase[v] /\ newFile'[v] = newFile[v]
        /\ location'[v] = location[v] /\ request' = request
        /\ v \in enqueued' <=> v \in enqueued
        /\ v \in dirSynced' <=> v \in dirSynced
        /\ powerLosses' = powerLosses
    BY DEF UploadStep, SetUpFails, Fails, CreateTempfile, Receive, Locate, PreCheck,
       Sync, Link, Recheck, Close, SyncDirectory, Enqueue, Answer
  <1> QED
    BY <1>1 DEF NameOf, StorageEncoding

\* A power loss ends the requests that had started.
LEMMA LossEnds ==
  ASSUME PowerLoss, NEW u \in Uploads
  PROVE  /\ phase'[u] = IF phase[u] \in Ended \cup {"new"} THEN phase[u] ELSE "lost"
         /\ newFile' = newFile /\ location' = location /\ request' = request
         /\ enqueued' = enqueued /\ dirSynced' = dirSynced /\ NameOf(u)' = NameOf(u)
         /\ powerLosses' = powerLosses + 1
  BY DEF PowerLoss, NameOf, StorageEncoding

LEMMA StepSyncedFirst ==
  ASSUME TypeOK, SyncedFirst, [Next]_vars
  PROVE  SyncedFirst'
  <1> USE DEF TypeOK, SyncedFirst, GoTo, disk, history
  <1>1. ASSUME NEW u \in Uploads,
               CreateTempfile(u) \/ SetUpFails(u) \/ Receive(u) \/ Fails(u)
        PROVE  SyncedFirst'
    BY <1>1 DEF CreateTempfile, SetUpFails, Receive, Fails
  <1>2. ASSUME NEW u \in Uploads, Locate(u) PROVE SyncedFirst'
    BY <1>2 DEF Locate
  <1>3. ASSUME NEW u \in Uploads, PreCheck(u) \/ Sync(u) PROVE SyncedFirst'
    <2>1. CASE PreCheck(u)
      BY <2>1 DEF PreCheck
    <2>2. CASE Sync(u)
      BY <2>2 DEF Sync
    <2> QED
      BY <1>3, <2>1, <2>2
  <1>4. ASSUME NEW u \in Uploads, Link(u) PROVE SyncedFirst'
    BY <1>4 DEF Link
  <1>5. ASSUME NEW u \in Uploads, Recheck(u) PROVE SyncedFirst'
    BY <1>5 DEF Recheck
  <1>6. ASSUME NEW u \in Uploads,
               Close(u) \/ SyncDirectory(u) \/ Enqueue(u) \/ Answer(u)
        PROVE  SyncedFirst'
    BY <1>6 DEF Close, SyncDirectory, Enqueue, Answer
  <1>7. CASE PowerLoss
    <2>1. \A u \in Uploads :
             phase'[u] \in Ended \cup {"new"} /\ (phase'[u] = "new" => phase[u] = "new")
      BY <1>7, LossEnds DEF Ended
    <2> QED
      BY <1>7, <2>1 DEF PowerLoss, Ended
  <1>8. CASE UNCHANGED vars
    BY <1>8 DEF vars
  <1> QED
    BY <1>1, <1>2, <1>3, <1>4, <1>5, <1>6, <1>7, <1>8 DEF Next, UploadStep

LEMMA StepStagesSound ==
  ASSUME TypeOK, StagesSound, [Next]_vars
  PROVE  StagesSound'
  <1>1. ASSUME NEW u \in Uploads, UploadStep(u) \/ Fails(u)
        PROVE  StagesSound'
    <2>1. ASSUME NEW v \in Uploads, v # u PROVE Staged(v)'
      BY <1>1, <2>1, OthersKept DEF StagesSound, Staged, Located, Placed
    <2>2. Staged(u)'
      <3> USE DEF TypeOK, StagesSound, Staged, Located, Placed, GoTo, disk, history
      <3>1. CASE CreateTempfile(u) \/ SetUpFails(u) \/ Receive(u) \/ Fails(u)
        BY <3>1 DEF CreateTempfile, SetUpFails, Receive, Fails
      <3>2. CASE Locate(u)
        <4>1. Suffixed(u, 1) \in Locations /\ Suffixed(u, 1).hash = request[u].content
          <5>1. 1 \in Nat \ {0}
            OBVIOUS
          <5> QED
            BY <5>1, SuffixedIsLocation
        <4>2. request[u].at # NoLocation => request[u].at \in Locations
          BY RequestFacts
        <4> QED
          BY <3>2, <4>1, <4>2 DEF Locate
      <3>3. CASE PreCheck(u)
        BY <3>3 DEF PreCheck
      <3>4. CASE Sync(u)
        BY <3>4 DEF Sync
      <3>5. CASE Link(u)
        BY <3>5 DEF Link
      <3>6. CASE Recheck(u)
        <4>1. attempt[u] + 1 \in Nat \ {0}
          <5>1. attempt[u] \in Nat
            OBVIOUS
          <5> QED
            BY <5>1
        <4>2. /\ Suffixed(u, attempt[u] + 1) \in Locations
              /\ Suffixed(u, attempt[u] + 1).hash = request[u].content
          BY <4>1, SuffixedIsLocation
        <4> QED
          BY <3>6, <4>2 DEF Recheck
      <3>7. CASE Close(u) \/ SyncDirectory(u)
        BY <3>7 DEF Close, SyncDirectory
      <3>8. CASE Enqueue(u) \/ Answer(u)
        BY <3>8 DEF Enqueue, Answer
      <3> QED
        BY <1>1, <3>1, <3>2, <3>3, <3>4, <3>5, <3>6, <3>7, <3>8 DEF UploadStep
    <2> QED
      BY <2>1, <2>2 DEF StagesSound
  <1>2. CASE PowerLoss
    <2>1. powerLosses' > 0
      <3>1. powerLosses \in Nat
        BY DEF TypeOK
      <3> QED
        BY <1>2, <3>1 DEF PowerLoss
    <2> QED
      BY <1>2, <2>1, LossEnds DEF StagesSound, Staged, Located, Placed, Ended
  <1>3. CASE UNCHANGED vars
    BY <1>3 DEF vars, history, StagesSound, Staged, Located, Placed
  <1> QED
    BY <1>1, <1>2, <1>3 DEF Next

\* What a step may do to the directory: add a file, or lose one whose entry
\* is not on the disk proper.
LEMMA DirectoryStep ==
  ASSUME TypeOK, SyncedFirst, [Next]_vars
  PROVE  /\ \A f \in DOMAIN files : f \in DOMAIN files' => files'[f] = files[f]
         /\ PowerLoss \/ DOMAIN files \subseteq DOMAIN files'
         /\ durable \subseteq durable'
  <1> USE DEF TypeOK, SyncedFirst, disk, history
  <1>1. ASSUME NEW u \in Uploads, Link(u)
        PROVE  /\ \A f \in DOMAIN files : f \in DOMAIN files' /\ files'[f] = files[f]
               /\ durable' = durable
    BY <1>1 DEF Link, With
  <1>2. ASSUME NEW u \in Uploads,
               UploadStep(u) \/ Fails(u), ~Link(u)
        PROVE  files' = files /\ durable \subseteq durable'
    BY <1>2 DEF UploadStep, SetUpFails, Fails, CreateTempfile, Receive, Locate,
         PreCheck, Sync, Recheck, Close, SyncDirectory, Enqueue, Answer
  <1>3. ASSUME PowerLoss
        PROVE  /\ \A f \in DOMAIN files : f \in DOMAIN files' => files'[f] = files[f]
               /\ durable \subseteq durable'
    BY <1>3 DEF PowerLoss
  <1>4. CASE UNCHANGED vars
    BY <1>4 DEF vars
  <1> QED
    BY <1>1, <1>2, <1>3, <1>4 DEF Next

LEMMA SameKept ==
  ASSUME TypeOK, SyncedFirst, [Next]_vars, NEW u \in Uploads, Same(u),
         NameOf(u)' = NameOf(u), request' = request, NameOf(u) \in DOMAIN files'
  PROVE  Same(u)'
  <1>1. files'[NameOf(u)] = files[NameOf(u)]
    BY DirectoryStep DEF Same
  <1> QED
    BY <1>1 DEF Same, Intact, StorageEncoding, Bytes

LEMMA StepPlacedSound ==
  ASSUME TypeOK, SyncedFirst, StagesSound, PlacedSound, [Next]_vars
  PROVE  PlacedSound'
  <1>1. ASSUME NEW u \in Uploads, UploadStep(u) \/ Fails(u), ~PowerLoss
        PROVE  PlacedSound'
    <2>0. DOMAIN files \subseteq DOMAIN files' /\ durable \subseteq durable'
      BY <1>1, DirectoryStep
    <2>1. ASSUME NEW v \in Uploads, v # u PROVE Kept(v)'
      <3>1. Same(v) => Same(v)'
        BY <1>1, <2>0, <2>1, OthersKept, SameKept DEF Same
      <3> QED
        BY <1>1, <2>0, <2>1, <3>1, OthersKept DEF PlacedSound, Kept, Placed
    <2>2. Kept(u)'
      <3> USE DEF TypeOK, StagesSound, Staged, Placed, PlacedSound, Kept, GoTo, disk, history
      <3>1. CASE CreateTempfile(u) \/ SetUpFails(u) \/ Receive(u) \/ Fails(u) \/ Locate(u)
        BY <3>1 DEF CreateTempfile, SetUpFails, Receive, Fails, Locate
      <3>2. CASE PreCheck(u)
        BY <3>2, SameKept DEF PreCheck, NameOf, StorageEncoding, Same
      <3>3. CASE Sync(u)
        BY <3>3 DEF Sync
      <3>4. CASE Link(u)
        <4>1. CASE NameOf(u) \notin DOMAIN files
          <5>1. /\ NameOf(u) \in DOMAIN files' /\ files'[NameOf(u)] = Bytes(u)
                /\ NameOf(u)' = NameOf(u) /\ Bytes(u)' = Bytes(u) /\ request' = request
            BY <3>4, <4>1 DEF Link, With, NameOf, StorageEncoding, Bytes
          <5>2. Bytes(u) \in StoredBytes /\ Bytes(u).content = request[u].content
            BY RequestFacts
          <5>3. StorageEncoding(u)' = StorageEncoding(u)
            BY <5>1 DEF StorageEncoding
          <5>4. Same(u)'
            BY <5>1, <5>2, <5>3 DEF Same, Intact
          <5>5. phase'[u] = "closing" /\ u \notin dirSynced'
            BY <3>4, <4>1 DEF Link
          <5> QED
            BY <5>4, <5>5
        <4>2. CASE NameOf(u) \in DOMAIN files
          <5>1. phase'[u] = "rechecking" /\ u \notin dirSynced'
            BY <3>4, <4>2 DEF Link
          <5> QED
            BY <5>1
        <4> QED
          BY <4>1, <4>2
      <3>5. CASE Recheck(u)
        BY <3>5, SameKept DEF Recheck, NameOf, StorageEncoding, Same
      <3>6. CASE Close(u)
        BY <3>6, <2>0, SameKept DEF Close, NameOf, StorageEncoding, Same
      <3>7. CASE SyncDirectory(u)
        <4>1. Same(u)' /\ NameOf(u)' = NameOf(u)
          BY <3>7, <2>0, SameKept DEF SyncDirectory, NameOf, StorageEncoding, Same
        <4>2. NameOf(u).hash = request[u].content
          BY <3>7, FileNameIsName DEF Located, SyncDirectory, NameOf
        <4> QED
          BY <3>7, <4>1, <4>2 DEF SyncDirectory, Same
      <3>8. CASE Enqueue(u) \/ Answer(u)
        <4>1. Same(u)' /\ NameOf(u)' = NameOf(u)
          BY <3>8, <2>0, SameKept DEF Enqueue, Answer, NameOf, StorageEncoding, Same
        <4> QED
          BY <3>8, <4>1 DEF Enqueue, Answer
      <3> QED
        BY <1>1, <3>1, <3>2, <3>3, <3>4, <3>5, <3>6, <3>7, <3>8 DEF UploadStep
    <2> QED
      BY <2>1, <2>2 DEF PlacedSound
  <1>2. CASE PowerLoss
    <2> SUFFICES ASSUME NEW u \in Uploads PROVE Kept(u)'
      BY DEF PlacedSound
    <2>1. durable \subseteq durable' /\ durable' \subseteq DOMAIN files'
      BY <1>2, DirectoryStep DEF PowerLoss
    <2>2. u \in dirSynced => NameOf(u) \in durable'
      BY <2>1 DEF PlacedSound, Kept
    <2>3. powerLosses' > 0
      <3>1. powerLosses \in Nat
        BY DEF TypeOK
      <3> QED
        BY <1>2, <3>1 DEF PowerLoss
    <2>4. phase[u] = "created" /\ u \in dirSynced => Same(u)'
      <3> SUFFICES ASSUME phase[u] = "created", u \in dirSynced PROVE Same(u)'
        OBVIOUS
      <3>1. Same(u)
        BY DEF PlacedSound, Kept, Placed
      <3> QED
        BY <1>2, <2>1, <2>2, <3>1, LossEnds, SameKept
    <2>5. Placed(u)' => phase'[u] = "created" /\ phase[u] = "created"
      BY <1>2, LossEnds DEF Placed, Ended
    <2> QED
      BY <1>2, <2>2, <2>3, <2>4, <2>5, LossEnds DEF Kept
  <1>3. CASE UNCHANGED vars
    BY <1>3 DEF vars, disk, history, PlacedSound, Kept, Placed, Same, Intact, NameOf, Bytes,
       StorageEncoding
  <1> QED
    BY <1>1, <1>2, <1>3 DEF Next

LEMMA StepOneKeeper ==
  ASSUME TypeOK, StagesSound, PlacedSound, OneKeeper, [Next]_vars
  PROVE  OneKeeper'
  <1>1. ASSUME NEW u \in Uploads, UploadStep(u) \/ Fails(u)
        PROVE  OneKeeper'
    <2>1. ASSUME NEW v \in Uploads, v # u
          PROVE  NameOf(v)' = NameOf(v) /\ (Keeper(v)' <=> Keeper(v))
      BY <1>1, <2>1, OthersKept DEF Keeper
    \* Only a step that links makes a keeper, of a name that is new.
    <2>2. ASSUME Keeper(u)'
          PROVE  /\ NameOf(u)' = NameOf(u)
                 /\ Keeper(u) \/ NameOf(u) \notin DOMAIN files
      <3> USE <2>2 DEF TypeOK, StagesSound, Staged, Keeper, Placed, GoTo, NameOf,
              StorageEncoding, history
      <3>1. CASE CreateTempfile(u) \/ SetUpFails(u) \/ Receive(u) \/ Fails(u)
        BY <3>1 DEF CreateTempfile, SetUpFails, Receive, Fails
      <3>2. CASE Locate(u)
        BY <3>2 DEF Locate
      <3>3. CASE PreCheck(u)
        BY <3>3 DEF PreCheck
      <3>4. CASE Sync(u)
        BY <3>4 DEF Sync
      <3>5. CASE Link(u)
        BY <3>5 DEF Link
      <3>6. CASE Recheck(u)
        BY <3>6 DEF Recheck
      <3>7. CASE Close(u) \/ SyncDirectory(u)
        BY <3>7 DEF Close, SyncDirectory
      <3>8. CASE Enqueue(u) \/ Answer(u)
        BY <3>8 DEF Enqueue, Answer
      <3> QED
        BY <1>1, <3>1, <3>2, <3>3, <3>4, <3>5, <3>6, <3>7, <3>8 DEF UploadStep
    <2>3. ASSUME NEW v \in Uploads, Keeper(v) PROVE NameOf(v) \in DOMAIN files
      <3>1. CASE v \in dirSynced
        BY <3>1 DEF PlacedSound, Kept, TypeOK
      <3>2. CASE v \notin dirSynced
        <4>1. powerLosses = 0 => ~(powerLosses > 0)
          OBVIOUS
        <4>2. \/ phase[v] \in {"closing", "directory", "enqueueing", "answering"}
              \/ phase[v] = "created" /\ powerLosses = 0
          <5>1. CASE phase[v] \in {"closing", "directory", "enqueueing", "answering"}
            BY <5>1
          <5>2. CASE v \in enqueued /\ powerLosses = 0
            BY <4>1, <5>2 DEF StagesSound, Staged
          <5> QED
            BY <2>3, <3>2, <5>1, <5>2 DEF Keeper
        <4>3. Same(v)
          BY <4>1, <4>2 DEF PlacedSound, Kept, Placed
        <4> QED
          BY <4>3 DEF Same
      <3> QED
        BY <3>1, <3>2
    <2>4. ASSUME NEW v \in Uploads, NEW w \in Uploads, v # w,
                 Keeper(v)', Keeper(w)', NameOf(v)' = NameOf(w)'
          PROVE  FALSE
      <3>1. CASE v # u /\ w # u
        BY <2>1, <2>4, <3>1 DEF OneKeeper
      <3>2. CASE v = u /\ w # u
        BY <2>1, <2>2, <2>3, <2>4, <3>2 DEF OneKeeper
      <3>3. CASE v # u /\ w = u
        BY <2>1, <2>2, <2>3, <2>4, <3>3 DEF OneKeeper
      <3> QED
        BY <2>4, <3>1, <3>2, <3>3
    <2> QED
      BY <2>4 DEF OneKeeper
  <1>2. CASE PowerLoss
    <2>1. powerLosses' # 0
      <3>1. powerLosses \in Nat
        BY DEF TypeOK
      <3> QED
        BY <1>2, <3>1 DEF PowerLoss
    <2>2. ASSUME NEW u \in Uploads, Keeper(u)' PROVE Keeper(u)
      BY <1>2, <2>1, <2>2, LossEnds DEF Keeper, Ended
    <2> QED
      BY <1>2, <2>2, LossEnds DEF OneKeeper
  <1>3. CASE UNCHANGED vars
    BY <1>3 DEF vars, history, OneKeeper, Keeper, NameOf, StorageEncoding
  <1> QED
    BY <1>1, <1>2, <1>3 DEF Next

LEMMA StepNamesMatch ==
  ASSUME TypeOK, SyncedFirst, StagesSound, NamesMatchContents, [Next]_vars
  PROVE  NamesMatchContents'
  <1> SUFFICES ASSUME NEW f \in DOMAIN files', Intact(files', f)
               PROVE  files'[f].content = f.hash
    BY DEF NamesMatchContents, Intact
  <1>1. CASE f \in DOMAIN files
    BY <1>1, DirectoryStep DEF NamesMatchContents, Intact
  <1>2. CASE f \notin DOMAIN files
    <2>1. PICK u \in Uploads : Link(u)
      BY <1>2 DEF Next, UploadStep, SetUpFails, Fails, CreateTempfile, Receive,
         Locate, PreCheck, Sync, Recheck, Close, SyncDirectory, Enqueue, Answer,
         PowerLoss, disk, history, vars
    <2>2. f = NameOf(u) /\ files'[f] = Bytes(u)
      BY <1>2, <2>1 DEF Link, With
    <2>3. NameOf(u).hash = request[u].content
      BY <2>1, FileNameIsName DEF StagesSound, Staged, Located, NameOf, Link
    <2> QED
      BY <2>2, <2>3, RequestFacts
  <1> QED
    BY <1>1, <1>2

-----------------------------------------------------------------------------

\* The inductive invariant.
IInv ==
  /\ TypeOK /\ SyncedFirst /\ StagesSound /\ PlacedSound /\ OneKeeper
  /\ NamesMatchContents

LEMMA InitIInv == Init => IInv
  <1> SUFFICES ASSUME Init PROVE IInv
    OBVIOUS
  <1>1. SyncedFirst /\ StagesSound /\ PlacedSound /\ OneKeeper
    BY DEF Init, SyncedFirst, StagesSound, Staged, Located, PlacedSound, Kept, Placed,
       OneKeeper, Keeper
  <1>2. NamesMatchContents
    BY UploaderAssumption DEF Init, NamesMatchContents
  <1> QED
    BY <1>1, <1>2, InitTypeOK DEF IInv

LEMMA StepIInv == IInv /\ [Next]_vars => IInv'
  BY StepTypeOK, StepSyncedFirst, StepStagesSound, StepPlacedSound, StepOneKeeper,
     StepNamesMatch DEF IInv

LEMMA Invariance == Spec => []IInv
  BY InitIInv, StepIInv, PTL DEF Spec

\* The variables keep to their types, whatever the requests.
THEOREM UploaderTypeCorrect == Spec => []TypeOK
  BY Invariance, PTL DEF IInv

\* No upload and no power loss changes the bytes of a file.
THEOREM FilesAreImmutable == Spec => FilesImmutable
  <1>1. IInv /\ [Next]_vars =>
          [\A f \in DOMAIN files : f \in DOMAIN files' => files'[f] = files[f]]_vars
    BY DirectoryStep DEF IInv
  <1> QED
    BY <1>1, Invariance, PTL DEF Spec, FilesImmutable

\* What an upload was told it stored can be read back: until a power loss in any
\* case, and after it if the request had synced the directory.
THEOREM AnsweredIsAlwaysReadable == Spec => []AnsweredIsReadable
  <1>1. IInv => AnsweredIsReadable
    BY DEF IInv, PlacedSound, Kept, Placed, AnsweredIsReadable
  <1> QED
    BY <1>1, Invariance, PTL

\* A file that has not rotted has the hash it is named for.
THEOREM NamesAlwaysMatch == Spec => []NamesMatchContents
  BY Invariance, PTL DEF IInv

\* Of any number of requests storing one file, one creates and queues it; another
\* one only if a power loss took the file, whose directory was not synced.
THEOREM OneRequestEnqueues == Spec => []OneEnqueuePerFile
  <1>1. IInv => OneEnqueuePerFile
    BY DEF IInv, TypeOK, StagesSound, Staged, OneKeeper, Keeper, OneEnqueuePerFile
  <1> QED
    BY <1>1, Invariance, PTL

-----------------------------------------------------------------------------
(* One copy of each content *)

\* A request at one of the names it tries.
Trying(u) == phase[u] \in {"checking", "syncing", "linking", "rechecking"}

\* The extension of the first name a request tries.
NamedExt(r) == IF r.at = NoLocation THEN r.ext ELSE r.at.ext

\* The name with the n-th suffix.
Attempted(u, n) ==
  FileName([hash |-> request[u].content, n |-> n, ext |-> NamedExt(request[u])],
           StorageEncoding(u))

Lower(f, k) == [f EXCEPT !.n = k]

\* A name is taken only when there is a damaged file under each before it.
PassedOver(d, f) ==
  \A k \in 1..(f.n - 1) : Lower(f, k) \in DOMAIN d /\ ~Intact(d, Lower(f, k))

\* What an unencoded request compares byte for byte has the bytes it sends.
\* Only .gz files can be compressed in more ways than one.
AsUploaded(f, compression) ==
  /\ compression = "raw" <=> ~f.gz
  /\ \A r \in Requests :
       r.ext = ".gz" /\ r.content = f.hash /\ f.ext = "" /\ f.gz => r.compression = compression

Orderly(d) ==
  \A f \in DOMAIN d : Intact(d, f) => PassedOver(d, f) /\ AsUploaded(f, d[f].compression)

\* What makes a content go by one sequence of names: a PUT is for a first name,
\* and for the extension it would get here unless no file is damaged; a .gz file
\* is compressed the way anything of its name is; and the directory is in order.
OneNameEach ==
  /\ \A r \in Requests : r.at # NoLocation => r.at.n = 1
  /\ \/ \A r \in Requests : r.at # NoLocation => r.at.ext = r.ext
     \/ \A d \in InitialDisks : \A f \in DOMAIN d : Intact(d, f)
  /\ \A r, q \in Requests :
       /\ r.ext = ".gz" /\ q.content = r.content
       /\ q.compression # "raw" /\ NamedExt(q) \in {"", ".gz"}
       => q.compression = r.compression
  /\ \A d \in InitialDisks : Orderly(d)

\* A request has passed over damaged files, and has found a file to recheck.
InSequence(u) ==
  Trying(u) =>
    /\ NameOf(u) = Attempted(u, attempt[u])
    /\ location[u] = [hash |-> request[u].content, n |-> attempt[u],
                      ext |-> NamedExt(request[u])]
    /\ PassedOver(files, Attempted(u, attempt[u]))
    /\ phase[u] = "rechecking" => NameOf(u) \in DOMAIN files

DamageIsOld ==
  /\ \A f \in DOMAIN files : ~Intact(files, f) => f \in durable
  /\ \/ \A r \in Requests : r.at # NoLocation => r.at.ext = r.ext
     \/ \A f \in DOMAIN files : Intact(files, f)

InOrder ==
  /\ Orderly(files) /\ DamageIsOld
  /\ \A u \in Uploads : InSequence(u)

LEMMA LowerAttempted ==
  ASSUME NEW u \in Uploads, NEW n, NEW k
  PROVE  Lower(Attempted(u, n), k) = Attempted(u, k) /\ Attempted(u, n).n = n
  <1>1. CASE NamedExt(request[u]) = ".gz"
    <2> DEFINE bare == ""
               packed == TRUE
    <2>1. \A m : Attempted(u, m) =
             [hash |-> request[u].content, n |-> m, ext |-> bare, gz |-> packed]
      BY <1>1 DEF Attempted, FileName
    <2> HIDE DEF bare, packed
    <2> QED
      BY <2>1 DEF Lower
  <1>2. CASE NamedExt(request[u]) # ".gz"
    BY <1>2 DEF Lower, Attempted, FileName
  <1> QED
    BY <1>1, <1>2

LEMMA RequestKind ==
  ASSUME TypeOK, NEW u \in Uploads
  PROVE  /\ request[u] \in Requests
         /\ NamedExt(request[u]) \in Extensions /\ request[u].encoding \in Encodings
         /\ NamedExt(request[u]) = ".gz" <=> request[u].ext = ".gz"
         /\ request[u].compression = "raw"
              <=> request[u].ext # ".gz" /\ request[u].encoding # "gzip"
  <1>1. request[u] \in Requests
    BY DEF TypeOK
  <1>2. request[u] \in
          [at : Locations \cup {NoLocation}, content : Contents, ext : Extensions,
           encoding : Encodings, compression : Compressions, body : Bodies]
    BY <1>1, UploaderAssumption
  <1>3. /\ request[u].at # NoLocation => request[u].ext = "" /\ request[u].at.ext # ".gz"
        /\ request[u].compression = "raw"
             <=> request[u].ext # ".gz" /\ request[u].encoding # "gzip"
    BY <1>1, UploaderAssumption
  <1>4. request[u].at \in Locations => request[u].at.ext \in Extensions
    BY DEF Locations
  <1>5. /\ request[u].at \in Locations \cup {NoLocation} /\ request[u].ext \in Extensions
        /\ request[u].encoding \in Encodings
    <2> HIDE DEF Locations
    <2> QED
      BY <1>2
  <1> QED
    BY <1>1, <1>3, <1>4, <1>5 DEF NamedExt

\* What a name a request tries says of how its bytes are compressed.
LEMMA AttemptedKind ==
  ASSUME TypeOK, NEW u \in Uploads, NEW n
  PROVE  /\ Attempted(u, n).hash = request[u].content
         /\ Attempted(u, n).gz <=> request[u].compression # "raw"
         /\ Attempted(u, n).gz /\ Attempted(u, n).ext = ""
              => NamedExt(request[u]) \in {"", ".gz"}
         /\ request[u].ext = ".gz" => Attempted(u, n).gz /\ Attempted(u, n).ext = ""
  <1>1. CASE request[u].ext = ".gz"
    BY <1>1, RequestKind DEF Attempted, FileName, StorageEncoding
  <1>2. CASE request[u].ext # ".gz"
    BY <1>2, RequestKind DEF Attempted, FileName, StorageEncoding, Encodings
  <1> QED
    BY <1>1, <1>2

LEMMA UploadedAsUploaded ==
  ASSUME OneNameEach, TypeOK, NEW u \in Uploads, NEW n
  PROVE  AsUploaded(Attempted(u, n), request[u].compression)
  <1> DEFINE name == Attempted(u, n)
  <1>1. name.hash = request[u].content /\ (request[u].compression = "raw" <=> ~name.gz)
    BY AttemptedKind
  <1>2. ASSUME NEW r \in Requests, r.ext = ".gz", r.content = name.hash,
               name.ext = "", name.gz
        PROVE  r.compression = request[u].compression
    <2>1. NamedExt(request[u]) \in {"", ".gz"} /\ request[u] \in Requests
      BY <1>2, AttemptedKind, RequestKind
    <2> HIDE DEF name
    <2> QED
      BY <1>1, <1>2, <2>1 DEF OneNameEach
  <1> HIDE DEF name
  <1>3. AsUploaded(name, request[u].compression)
    BY <1>1, <1>2 DEF AsUploaded
  <1> QED
    BY <1>3 DEF name

\* A file that a request does not take for its own is damaged.
LEMMA SameOrDamaged ==
  ASSUME TypeOK, NamesMatchContents, Orderly(files), NEW u \in Uploads, NEW n,
         NameOf(u) = Attempted(u, n), NameOf(u) \in DOMAIN files,
         Intact(files, NameOf(u))
  PROVE  Same(u)
  <1> DEFINE stored == files[NameOf(u)]
  <1>1. stored \in StoredBytes /\ stored.content = request[u].content
    BY AttemptedKind DEF Intact, NamesMatchContents
  <1>2. AsUploaded(NameOf(u), stored.compression)
    BY DEF Orderly
  <1>3. StorageEncoding(u) = "" => stored.compression = request[u].compression
    <2>1. CASE request[u].ext = ".gz"
      BY <1>2, <2>1, AttemptedKind, RequestKind DEF AsUploaded
    <2>2. CASE request[u].ext # ".gz"
      BY <1>2, <2>2, AttemptedKind, RequestKind DEF AsUploaded, StorageEncoding
    <2> QED
      BY <2>1, <2>2
  <1>4. StorageEncoding(u) = "" => stored = Bytes(u)
    BY <1>1, <1>3 DEF StoredBytes, Bytes
  <1> QED
    BY <1>1, <1>4 DEF Same

LEMMA PassedOverKept ==
  ASSUME NEW d, NEW e, DOMAIN d \subseteq DOMAIN e, \A f \in DOMAIN d : e[f] = d[f],
         NEW f, PassedOver(d, f)
  PROVE  PassedOver(e, f)
  BY DEF PassedOver, Intact

LEMMA InitInOrder ==
  ASSUME OneNameEach, Init
  PROVE  InOrder
  BY DEF Init, InOrder, OneNameEach, DamageIsOld, InSequence, Trying

\* A file is linked under the first name that is not taken.
LEMMA LinkInOrder ==
  ASSUME OneNameEach, IInv, InOrder, NEW u \in Uploads, Link(u),
         NameOf(u) \notin DOMAIN files
  PROVE  /\ Orderly(files') /\ DamageIsOld'
         /\ DOMAIN files \subseteq DOMAIN files'
         /\ \A f \in DOMAIN files : files'[f] = files[f]
  <1> DEFINE new == NameOf(u)
  <1>1. /\ DOMAIN files' = DOMAIN files \cup {new} /\ files'[new] = Bytes(u)
        /\ \A f \in DOMAIN files : files'[f] = files[f]
        /\ durable' = durable
    BY DEF Link, With
  <1>2. /\ new = Attempted(u, attempt[u]) /\ PassedOver(files, new)
    BY DEF InOrder, InSequence, Trying, Link
  <1>3. Bytes(u) \in StoredBytes /\ Bytes(u).compression = request[u].compression
    BY RequestFacts DEF IInv, Bytes
  <1>4. PassedOver(files', new) /\ AsUploaded(new, files'[new].compression)
    BY <1>1, <1>2, <1>3, PassedOverKept, UploadedAsUploaded DEF IInv
  <1>5. ASSUME NEW f \in DOMAIN files, Intact(files', f)
        PROVE  PassedOver(files', f) /\ AsUploaded(f, files'[f].compression)
    <2>1. Intact(files, f)
      BY <1>1, <1>5 DEF Intact
    <2>2. PassedOver(files, f) /\ AsUploaded(f, files[f].compression)
      BY <2>1 DEF InOrder, Orderly
    <2> QED
      BY <1>1, <2>2, PassedOverKept
  <1>6. Orderly(files')
    BY <1>1, <1>4, <1>5 DEF Orderly
  <1>7. DamageIsOld'
    BY <1>1, <1>3 DEF InOrder, DamageIsOld, Intact
  <1> QED
    BY <1>1, <1>6, <1>7

\* A power loss takes none of the damaged files, which have been there all along.
LEMMA LossInOrder ==
  ASSUME IInv, InOrder, PowerLoss
  PROVE  InOrder'
  <1>1. /\ durable \subseteq DOMAIN files' /\ durable' = DOMAIN files'
        /\ DOMAIN files' \subseteq DOMAIN files
        /\ \A f \in DOMAIN files' : files'[f] = files[f]
    BY DEF PowerLoss, IInv, SyncedFirst
  <1>2. \A f \in DOMAIN files : ~Intact(files, f) => f \in DOMAIN files'
    BY <1>1 DEF InOrder, DamageIsOld
  <1>3. \A f \in DOMAIN files' : Intact(files', f) <=> Intact(files, f)
    BY <1>1 DEF Intact
  <1>4. ASSUME NEW f \in DOMAIN files', Intact(files', f)
        PROVE  PassedOver(files', f) /\ AsUploaded(f, files'[f].compression)
    <2>1. PassedOver(files, f) /\ AsUploaded(f, files[f].compression)
      BY <1>1, <1>3, <1>4 DEF InOrder, Orderly
    <2> QED
      BY <1>1, <1>2, <1>3, <2>1 DEF PassedOver
  <1>5. Orderly(files')
    BY <1>4 DEF Orderly
  <1>6. DamageIsOld'
    BY <1>1, <1>3 DEF InOrder, DamageIsOld
  <1>7. \A u \in Uploads : InSequence(u)'
    BY LossEnds DEF InSequence, Trying, Ended
  <1> QED
    BY <1>5, <1>6, <1>7 DEF InOrder

LEMMA StepInOrder ==
  ASSUME OneNameEach, IInv, InOrder, [Next]_vars
  PROVE  InOrder'
  <1>1. ASSUME NEW u \in Uploads, UploadStep(u) \/ Fails(u)
        PROVE  InOrder'
    <2> USE DEF IInv
    <2>1. /\ Orderly(files') /\ DamageIsOld'
          /\ DOMAIN files \subseteq DOMAIN files'
          /\ \A f \in DOMAIN files : files'[f] = files[f]
      <3>1. CASE Link(u) /\ NameOf(u) \notin DOMAIN files
        BY <3>1, LinkInOrder
      <3>2. CASE ~(Link(u) /\ NameOf(u) \notin DOMAIN files)
        <4>1. files' = files /\ durable \subseteq durable'
          BY <1>1, <3>2 DEF UploadStep, SetUpFails, Fails, CreateTempfile, Receive,
             Locate, PreCheck, Sync, Link, Recheck, Close, SyncDirectory, Enqueue,
             Answer, disk, history
        <4> QED
          BY <4>1 DEF InOrder, DamageIsOld
      <3> QED
        BY <3>1, <3>2
    <2>2. request' = request
      BY <1>1 DEF UploadStep, SetUpFails, Fails, CreateTempfile, Receive,
         Locate, PreCheck, Sync, Link, Recheck, Close, SyncDirectory, Enqueue, Answer
    <2>3. \A v \in Uploads : \A n : Attempted(v, n)' = Attempted(v, n)
      BY <2>2 DEF Attempted, StorageEncoding
    <2>4. \A f : PassedOver(files, f) => PassedOver(files', f)
      BY <2>1, PassedOverKept
    <2>5. ASSUME NEW v \in Uploads, v # u PROVE InSequence(v)'
      <3>1. attempt'[v] = attempt[v]
        BY <1>1, <2>5 DEF UploadStep, SetUpFails, Fails, CreateTempfile, Receive,
           Locate, PreCheck, Sync, Link, Recheck, Close, SyncDirectory, Enqueue,
           Answer, TypeOK
      <3> QED
        BY <1>1, <2>1, <2>2, <2>3, <2>4, <2>5, <3>1, OthersKept
        DEF InOrder, InSequence, Trying
    <2>6. InSequence(u)'
      <3> SUFFICES ASSUME Trying(u)' PROVE InSequence(u)'
        BY DEF InSequence
      <3> USE DEF TypeOK, GoTo
      <3>1. CASE CreateTempfile(u) \/ SetUpFails(u) \/ Receive(u) \/ Fails(u)
        BY <3>1 DEF Trying, CreateTempfile, SetUpFails, Receive, Fails
      <3>2. CASE Locate(u)
        <4>1. attempt[u] = 1 /\ attempt' = attempt /\ phase'[u] = "checking"
          BY <3>2 DEF Locate, Trying, SyncedFirst
        <4>2. location'[u] = [hash |-> request[u].content, n |-> 1,
                              ext |-> NamedExt(request[u])]
          <5>1. CASE request[u].at = NoLocation
            BY <3>2, <5>1 DEF Locate, Suffixed, NamedExt
          <5>2. CASE request[u].at # NoLocation
            <6>1. location'[u] = request[u].at /\ request[u].at.hash = request[u].content
              BY <3>2, <5>2 DEF Locate, Trying
            <6>2. request[u].at \in Locations /\ request[u].at.n = 1
              BY <5>2, RequestFacts, RequestKind DEF OneNameEach
            <6> QED
              BY <5>2, <6>1, <6>2 DEF Locations, NamedExt
          <5> QED
            BY <5>1, <5>2
        <4>3. PassedOver(files', Attempted(u, 1))
          BY LowerAttempted DEF PassedOver
        <4>4. NameOf(u)' = Attempted(u, 1)
          BY <2>2, <4>2 DEF NameOf, Attempted, StorageEncoding
        <4> QED
          BY <2>2, <2>3, <4>1, <4>2, <4>3, <4>4 DEF InSequence
      <3>3. CASE PreCheck(u) \/ Sync(u)
        <4>1. /\ Trying(u) /\ location' = location /\ attempt' = attempt
              /\ phase'[u] # "rechecking"
          BY <3>3 DEF PreCheck, Sync, Trying
        <4> QED
          BY <2>2, <2>3, <2>4, <4>1 DEF InOrder, InSequence, NameOf, StorageEncoding
      <3>4. CASE Link(u)
        <4>1. /\ Trying(u) /\ location' = location /\ attempt' = attempt
              /\ NameOf(u) \in DOMAIN files
          BY <3>4 DEF Link, Trying
        <4> QED
          BY <2>1, <2>2, <2>3, <2>4, <4>1 DEF InOrder, InSequence, NameOf, StorageEncoding
      <3>5. CASE Recheck(u)
        <4>1. /\ phase[u] = "rechecking" /\ phase'[u] = "checking" /\ ~Same(u)
              /\ attempt' = [attempt EXCEPT ![u] = @ + 1]
              /\ location' = [location EXCEPT ![u] = Suffixed(u, attempt[u] + 1)]
          BY <3>5 DEF Recheck, Trying
        <4>2. /\ NameOf(u) = Attempted(u, attempt[u]) /\ NameOf(u) \in DOMAIN files
              /\ PassedOver(files, NameOf(u))
          BY <4>1 DEF InOrder, InSequence, Trying
        <4>3. ~Intact(files, NameOf(u))
          BY <4>1, <4>2, SameOrDamaged DEF InOrder
        \* It goes on with the extension of the content, which is the one it had.
        <4>4. NamedExt(request[u]) = request[u].ext
          BY <4>2, <4>3, RequestKind DEF InOrder, DamageIsOld, NamedExt
        <4>5. attempt[u] \in Nat \ {0} /\ attempt'[u] = attempt[u] + 1
          BY <4>1
        <4>6. location'[u] = [hash |-> request[u].content, n |-> attempt[u] + 1,
                              ext |-> NamedExt(request[u])]
          BY <4>1, <4>4 DEF Suffixed
        <4>7. NameOf(u)' = Attempted(u, attempt[u] + 1)
          BY <2>2, <4>6 DEF NameOf, Attempted, StorageEncoding
        <4>8. PassedOver(files, Attempted(u, attempt[u] + 1))
          <5>1. attempt[u] \in Nat
            BY <4>5
          <5>2. SUFFICES ASSUME NEW k \in 1..attempt[u]
                         PROVE  /\ Attempted(u, k) \in DOMAIN files
                                /\ ~Intact(files, Attempted(u, k))
            BY <5>1, LowerAttempted DEF PassedOver
          <5>3. CASE k = attempt[u]
            BY <4>2, <4>3, <5>3
          <5>4. CASE k # attempt[u]
            <6>1. k \in 1..(Attempted(u, attempt[u]).n - 1)
              BY <5>1, <5>4, LowerAttempted
            <6> QED
              BY <4>2, <6>1, LowerAttempted DEF PassedOver
          <5> QED
            BY <5>3, <5>4
        <4> QED
          BY <2>2, <2>3, <2>4, <4>1, <4>5, <4>6, <4>7, <4>8 DEF InSequence
      <3>6. CASE Close(u) \/ SyncDirectory(u) \/ Enqueue(u) \/ Answer(u)
        BY <3>6 DEF Trying, Close, SyncDirectory, Enqueue, Answer
      <3> QED
        BY <1>1, <3>1, <3>2, <3>3, <3>4, <3>5, <3>6 DEF UploadStep
    <2> QED
      BY <2>1, <2>5, <2>6 DEF InOrder
  <1>2. CASE PowerLoss
    BY <1>2, LossInOrder
  <1>3. CASE UNCHANGED vars
    BY <1>3 DEF vars, disk, history, InOrder, DamageIsOld, InSequence, Trying, NameOf, Attempted,
       StorageEncoding
  <1> QED
    BY <1>1, <1>2, <1>3 DEF Next

LEMMA OrderlyHasOneCopy ==
  ASSUME TypeOK, InOrder
  PROVE  OneCopy
  <1> SUFFICES ASSUME NEW f \in DOMAIN files, NEW g \in DOMAIN files,
                      f.hash = g.hash, f.ext = g.ext, f.gz = g.gz,
                      Intact(files, f), Intact(files, g)
               PROVE  f = g
    BY DEF OneCopy
  <1>1. f \in Names /\ g \in Names
    BY DEF TypeOK
  <1>2. /\ f.n \in Nat \ {0} /\ g.n \in Nat \ {0}
        /\ f = Lower(g, f.n) /\ g = Lower(f, g.n)
    BY <1>1 DEF Names, Lower
  <1>3. ~(f.n < g.n) /\ ~(g.n < f.n)
    BY <1>2 DEF InOrder, Orderly, PassedOver
  <1>4. f.n = g.n
    BY <1>2, <1>3
  <1> QED
    BY <1>1, <1>4 DEF Names

\* Of files and requests with one name for each content, whatever is stored any
\* number of times, by however many requests at once, has one intact copy for
\* each extension and encoding.  Without the hypothesis a PUT of a name with a
\* suffix, or one of an extension that finds a damaged file, can make a second
\* copy.
THEOREM OnlyOneCopy ==
  ASSUME OneNameEach
  PROVE  Spec => []OneCopy
  <1>1. Spec => []InOrder
    BY InitInOrder, StepInOrder, Invariance, PTL DEF Spec
  <1>2. IInv /\ InOrder => OneCopy
    BY OrderlyHasOneCopy DEF IInv
  <1> QED
    BY <1>1, <1>2, Invariance, PTL

-----------------------------------------------------------------------------
(* Tempfiles *)

\* What a request has removed by the time it is over.
Cleared(u) ==
  /\ phase[u] \in {"directory", "enqueueing", "answering", "created", "wrong location"}
       => ~tempfile[u]
  /\ phase[u] = "failed" /\ tempfile[u] => SetUpMayFail(request[u])

AllCleared == \A u \in Uploads : Cleared(u)

LEMMA StepAllCleared ==
  ASSUME TypeOK, AllCleared, [Next]_vars
  PROVE  AllCleared'
  <1>1. ASSUME NEW u \in Uploads, UploadStep(u) \/ Fails(u)
        PROVE  AllCleared'
    <2> USE DEF TypeOK, GoTo
    <2>1. ASSUME NEW v \in Uploads, v # u PROVE Cleared(v)'
      <3>1. tempfile'[v] = tempfile[v]
        BY <1>1, <2>1 DEF UploadStep, SetUpFails, Fails, CreateTempfile, Receive,
           Locate, PreCheck, Sync, Link, Recheck, Close, SyncDirectory, Enqueue, Answer
      <3> QED
        BY <1>1, <2>1, <3>1, OthersKept DEF AllCleared, Cleared, SetUpMayFail
    <2>2. Cleared(u)'
      <3> USE DEF AllCleared, Cleared, SetUpMayFail
      <3>1. CASE CreateTempfile(u) \/ SetUpFails(u) \/ Receive(u) \/ Fails(u)
        BY <3>1 DEF CreateTempfile, SetUpFails, Receive, Fails
      <3>2. CASE Locate(u) \/ PreCheck(u) \/ Sync(u) \/ Link(u) \/ Recheck(u)
        BY <3>2 DEF Locate, PreCheck, Sync, Link, Recheck
      <3>3. CASE Close(u) \/ SyncDirectory(u) \/ Enqueue(u) \/ Answer(u)
        BY <3>3 DEF Close, SyncDirectory, Enqueue, Answer
      <3> QED
        BY <1>1, <3>1, <3>2, <3>3 DEF UploadStep
    <2> QED
      BY <2>1, <2>2 DEF AllCleared
  <1>2. CASE PowerLoss
    <2>1. tempfile' = tempfile
      BY <1>2 DEF PowerLoss
    <2> QED
      BY <1>2, <2>1, LossEnds DEF AllCleared, Cleared, SetUpMayFail, Ended
  <1>3. CASE UNCHANGED vars
    BY <1>3 DEF vars, AllCleared, Cleared, SetUpMayFail
  <1> QED
    BY <1>1, <1>2, <1>3 DEF Next

\* Requests that end leave no tempfile, but for those that fail in FileUploader,
\* from which UploadFile returns before it has deferred Close: forms, encoded
\* requests and .gz files only.
THEOREM OnlySetUpLeavesTempfile == Spec => []OnlySetUpLeavesTempfiles
  <1>1. Init => AllCleared
    BY DEF Init, AllCleared, Cleared
  <1>2. IInv /\ AllCleared /\ [Next]_vars => AllCleared'
    BY StepAllCleared DEF IInv
  <1>3. AllCleared => OnlySetUpLeavesTempfiles
    BY DEF AllCleared, Cleared, OnlySetUpLeavesTempfiles, Ended
  <1> QED
    BY <1>1, <1>2, <1>3, Invariance, PTL DEF Spec

\* Requests that are neither forms nor encoded nor .gz files leave no tempfile,
\* however they end.
THEOREM NoTempfileIsLeft ==
  ASSUME \A r \in Requests : ~SetUpMayFail(r)
  PROVE  Spec => []NoTempfileLeft
  <1>1. TypeOK /\ OnlySetUpLeavesTempfiles => NoTempfileLeft
    BY DEF TypeOK, OnlySetUpLeavesTempfiles, NoTempfileLeft, Ended
  <1> QED
    BY <1>1, OnlySetUpLeavesTempfile, UploaderTypeCorrect, PTL
=============================================================================
