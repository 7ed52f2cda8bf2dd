---------------------------- MODULE FileUploader ----------------------------
(***************************************************************************)
(* How uploads become files: file_uploader.go, with the POST and PUT       *)
(* handlers of server.go and the encodings of content_encoding.go.  Any    *)
(* number of requests run at once, on one node, over one directory.        *)
(*                                                                         *)
(* A content stands for its SHA-256 hash: encodeHash is one to one up to   *)
(* collisions.  The bytes of a file are a content and how it is            *)
(* compressed: "raw", or one of the ways to gzip it.                       *)
(*                                                                         *)
(* A power loss keeps what was synced.  A directory entry that was not     *)
(* synced may or may not survive, and an entry that survives for data that *)
(* was not synced points at garbage.  Not modelled: MkdirAll (the          *)
(* directories exist, and their own entries are on the disk proper), and   *)
(* what the parts of a form hold.                                          *)
(***************************************************************************)
EXTENDS Naturals, FiniteSets

CONSTANTS
  Contents,        \* what files hold, and so what they hash to
  Compressions,    \* "raw", and the ways to gzip a content
  Uploads,         \* the requests
  Requests,        \* what a request may ask
  InitialDisks,    \* what the directory may hold at first
  Corrupt,         \* the bytes of a file that has rotted
  Unreadable,      \* the bytes of a file that cannot be opened
  NoLocation,      \* a POST does not say where its file goes
  MaxPowerLosses   \* bound on power losses

Extensions == {"", ".txt", ".gz"}
Encodings == {"", "gzip", "unsupported"}
Bodies == {"raw", "form"}     \* a form is multipart/form-data

\* A location is a hash, the suffix _2, _3, ... (1 is none) and an extension.
\* A file name has .gz added when its bytes are compressed: hash.gz is both a
\* .gz file and the gzip encoding of a file without an extension.
Locations == [hash : Contents, n : Nat \ {0}, ext : Extensions]
Names == [hash : Contents, n : Nat \ {0}, ext : Extensions, gz : BOOLEAN]
StoredBytes == [content : Contents, compression : Compressions]
Intact(d, f) == d[f] \in StoredBytes

ASSUME UploaderAssumption ==
  /\ Requests \subseteq
       [at : Locations \cup {NoLocation}, content : Contents, ext : Extensions,
        encoding : Encodings, compression : Compressions, body : Bodies]
  /\ \A r \in Requests :
       /\ r.at # NoLocation => r.ext = "" /\ r.at.ext # ".gz"
       /\ r.compression = "raw" <=> r.ext # ".gz" /\ r.encoding # "gzip"
  /\ \A d \in InitialDisks :
       /\ d \in [DOMAIN d -> StoredBytes \cup {Corrupt, Unreadable}]
       /\ DOMAIN d \subseteq Names
       /\ \A f \in DOMAIN d : Intact(d, f) => d[f].content = f.hash
  /\ Corrupt \notin StoredBytes /\ Unreadable \notin StoredBytes
  /\ NoLocation \notin Locations
  /\ MaxPowerLosses \in Nat

VARIABLES
  request,        \* upload -> what it asks
  phase,          \* upload -> where it is in UploadFile
  location,       \* upload -> the location it tries, or has been given
  attempt,        \* upload -> the loop counter of Finish
  newFile,        \* upload -> whether it created its file
  tempfile,       \* upload -> whether its _upload file exists
  synced,         \* upload -> whether its _upload file is on the disk proper
  files,          \* name -> bytes, for the files in the directory
  unsynced,       \* names linked to data that is not on the disk proper
  durable,        \* names whose directory entry is on the disk proper
  enqueued,       \* the uploads that have called EnqueueFile
  dirSynced,      \* those that met no error in syncing the directory (a
                  \* history variable)
  powerLosses

disk == <<files, unsynced, durable>>
history == <<dirSynced, powerLosses>>
vars == <<request, phase, location, attempt, newFile, tempfile, synced, disk,
          enqueued, history>>

\* A .gz file that arrives gzip-encoded is stored without the encoding.
StorageEncoding(u) == IF request[u].ext = ".gz" THEN "" ELSE request[u].encoding

Bytes(u) ==
  [content |-> request[u].content, compression |-> request[u].compression]

\* location + EncodingSuffix(encoding)
FileName(l, encoding) ==
  IF l.ext = ".gz"
  THEN [hash |-> l.hash, n |-> l.n, ext |-> "", gz |-> TRUE]
  ELSE [hash |-> l.hash, n |-> l.n, ext |-> l.ext, gz |-> encoding = "gzip"]

NameOf(u) == FileName(location[u], StorageEncoding(u))

\* sameUploadedFile: equal once decoded, or byte for byte without an encoding.
Same(u) ==
  /\ NameOf(u) \in DOMAIN files /\ Intact(files, NameOf(u))
  /\ files[NameOf(u)].content = request[u].content
  /\ StorageEncoding(u) = "" => files[NameOf(u)] = Bytes(u)

\* The location with which Finish starts, and those it goes on to.
Suffixed(u, n) ==
  [hash |-> request[u].content, n |-> n, ext |-> request[u].ext]

Ended == {"created", "failed", "wrong location", "lost"}

-----------------------------------------------------------------------------

Init ==
  /\ request \in [Uploads -> Requests]
  /\ phase = [u \in Uploads |-> "new"]
  /\ location = [u \in Uploads |-> NoLocation]
  /\ attempt = [u \in Uploads |-> 1]
  /\ newFile = [u \in Uploads |-> TRUE]
  /\ tempfile = [u \in Uploads |-> FALSE]
  /\ synced = [u \in Uploads |-> FALSE]
  /\ files \in InitialDisks
  /\ unsynced = {}
  /\ durable = DOMAIN files
  /\ enqueued = {} /\ dirSynced = {}
  /\ powerLosses = 0

GoTo(u, next) == phase' = [phase EXCEPT ![u] = next]

\* FileUploader makes the tempfile.
CreateTempfile(u) ==
  /\ phase[u] = "new"
  /\ tempfile' = [tempfile EXCEPT ![u] = TRUE]
  /\ GoTo(u, "receiving")
  /\ UNCHANGED <<request, location, attempt, newFile, synced, disk, enqueued,
                 history>>

\* The requests for which FileUploader itself reads the body, or refuses the
\* encoding, once it has made the tempfile.
SetUpMayFail(r) == r.body = "form" \/ r.ext = ".gz" \/ r.encoding # ""

\* FormFile finds no such field, or no end of the form; or EncodingDecoder does
\* not know the encoding; or gzip.NewReader cannot read the header of the stream.
\* FileUploader returns the error, and UploadFile does so too before it has
\* deferred Close.
SetUpFails(u) ==
  /\ phase[u] = "receiving"
  /\ SetUpMayFail(request[u])
  /\ GoTo(u, "failed")
  /\ UNCHANGED <<request, location, attempt, newFile, tempfile, synced, disk,
                 enqueued, history>>

\* io.Copy reaches the end of the body.
Receive(u) ==
  /\ phase[u] = "receiving" /\ request[u].encoding # "unsupported"
  /\ GoTo(u, "locating")
  /\ UNCHANGED <<request, location, attempt, newFile, tempfile, synced, disk,
                 enqueued, history>>

\* Mutant: an aborted upload keeps its tempfile.
FailsUnclosed(u) ==
  /\ phase[u] \in {"receiving", "syncing", "linking"}
  /\ GoTo(u, "failed")
  /\ UNCHANGED <<request, location, attempt, newFile, tempfile, synced, disk,
                 enqueued, history>>

\* The client goes away or the stream is not valid, Sync fails, or Link fails
\* with anything but EEXIST: the deferred Close removes the tempfile.
Fails(u) ==
  /\ phase[u] \in {"receiving", "syncing", "linking"}
  /\ request[u].encoding # "unsupported"
  /\ tempfile' = [tempfile EXCEPT ![u] = FALSE]
  /\ GoTo(u, "failed")
  /\ UNCHANGED <<request, location, attempt, newFile, synced, disk, enqueued,
                 history>>

\* Mutant: the location a PUT names is taken as it is.
LocateUnchecked(u) ==
  /\ phase[u] = "locating"
  /\ location' = [location EXCEPT ![u] =
                    IF request[u].at = NoLocation THEN Suffixed(u, 1) ELSE request[u].at]
  /\ GoTo(u, "checking")
  /\ UNCHANGED <<request, attempt, newFile, tempfile, synced, disk, enqueued,
                 history>>

\* Mutant: the suffixes are counted from 0.
LocateFromZero(u) ==
  /\ phase[u] = "locating"
  /\ location' = [location EXCEPT ![u] =
                    IF request[u].at = NoLocation THEN Suffixed(u, 0) ELSE request[u].at]
  /\ GoTo(u, "checking")
  /\ UNCHANGED <<request, attempt, newFile, tempfile, synced, disk, enqueued,
                 history>>

\* Finish composes the location, or checks the one a PUT names.
Locate(u) ==
  /\ phase[u] = "locating"
  /\ \/ /\ request[u].at = NoLocation
        /\ location' = [location EXCEPT ![u] = Suffixed(u, 1)]
        /\ GoTo(u, "checking")
        /\ UNCHANGED tempfile
     \/ /\ request[u].at # NoLocation /\ request[u].at.hash = request[u].content
        /\ location' = [location EXCEPT ![u] = request[u].at]
        /\ GoTo(u, "checking")
        /\ UNCHANGED tempfile
     \/ /\ request[u].at # NoLocation /\ request[u].at.hash # request[u].content
        /\ tempfile' = [tempfile EXCEPT ![u] = FALSE]
        /\ GoTo(u, "wrong location")
        /\ UNCHANGED location
  /\ UNCHANGED <<request, attempt, newFile, synced, disk, enqueued, history>>

\* The pre-check that saves a sync.
PreCheck(u) ==
  /\ phase[u] = "checking"
  /\ \/ /\ Same(u)
        /\ newFile' = [newFile EXCEPT ![u] = FALSE]
        /\ GoTo(u, "closing")
     \/ /\ ~Same(u)
        /\ GoTo(u, IF attempt[u] = 1 THEN "syncing" ELSE "linking")
        /\ UNCHANGED newFile
  /\ UNCHANGED <<request, location, attempt, tempfile, synced, disk, enqueued,
                 history>>

\* Mutant: the data is not synced.
SyncNothing(u) ==
  /\ phase[u] = "syncing"
  /\ GoTo(u, "linking")
  /\ UNCHANGED <<request, location, attempt, newFile, tempfile, synced, disk,
                 enqueued, history>>

Sync(u) ==
  /\ phase[u] = "syncing"
  /\ synced' = [synced EXCEPT ![u] = TRUE]
  /\ GoTo(u, "linking")
  /\ UNCHANGED <<request, location, attempt, newFile, tempfile, disk, enqueued,
                 history>>

With(d, f, bytes) ==
  [g \in DOMAIN d \cup {f} |-> IF g = f THEN bytes ELSE d[g]]

\* Mutant: os.Rename in place of os.Link replaces a file that is there.
LinkOver(u) ==
  /\ phase[u] = "linking"
  /\ files' = With(files, NameOf(u), Bytes(u))
  /\ unsynced' = IF synced[u] THEN unsynced ELSE unsynced \cup {NameOf(u)}
  /\ GoTo(u, "closing")
  /\ UNCHANGED <<request, location, attempt, newFile, tempfile, synced, durable,
                 enqueued, history>>

\* os.Link creates the name, or finds that it exists.
Link(u) ==
  /\ phase[u] = "linking"
  /\ \/ /\ NameOf(u) \notin DOMAIN files
        /\ files' = With(files, NameOf(u), Bytes(u))
        /\ unsynced' = IF synced[u] THEN unsynced ELSE unsynced \cup {NameOf(u)}
        /\ GoTo(u, "closing")
     \/ /\ NameOf(u) \in DOMAIN files
        /\ GoTo(u, "rechecking")
        /\ UNCHANGED <<files, unsynced>>
  /\ UNCHANGED <<request, location, attempt, newFile, tempfile, synced, durable,
                 enqueued, history>>

\* Mutant: a file that exists is taken to be the same.
RecheckTrusting(u) ==
  /\ phase[u] = "rechecking"
  /\ newFile' = [newFile EXCEPT ![u] = FALSE]
  /\ GoTo(u, "closing")
  /\ UNCHANGED <<request, location, attempt, tempfile, synced, disk, enqueued,
                 history>>

\* Mutant: a file linked since the pre-check is taken to be another.
RecheckDistrusting(u) ==
  /\ phase[u] = "rechecking"
  /\ attempt' = [attempt EXCEPT ![u] = @ + 1]
  /\ location' = [location EXCEPT ![u] = Suffixed(u, attempt[u] + 1)]
  /\ GoTo(u, "checking")
  /\ UNCHANGED <<request, newFile, tempfile, synced, disk, enqueued, history>>

\* Mutant: the suffix stays the same from one attempt to the next.
RecheckWithoutCounting(u) ==
  /\ phase[u] = "rechecking"
  /\ \/ /\ Same(u)
        /\ newFile' = [newFile EXCEPT ![u] = FALSE]
        /\ GoTo(u, "closing")
        /\ UNCHANGED location
     \/ /\ ~Same(u)
        /\ location' = [location EXCEPT ![u] = Suffixed(u, 2)]
        /\ GoTo(u, "checking")
        /\ UNCHANGED newFile
  /\ UNCHANGED <<request, attempt, tempfile, synced, disk, enqueued, history>>

\* The file that exists is the same, or another, or cannot be opened.
Recheck(u) ==
  /\ phase[u] = "rechecking"
  /\ \/ /\ Same(u)
        /\ newFile' = [newFile EXCEPT ![u] = FALSE]
        /\ GoTo(u, "closing")
        /\ UNCHANGED <<location, attempt, tempfile>>
     \/ /\ files[NameOf(u)] = Unreadable
        /\ tempfile' = [tempfile EXCEPT ![u] = FALSE]
        /\ GoTo(u, "failed")
        /\ UNCHANGED <<location, attempt, newFile>>
     \/ /\ ~Same(u) /\ files[NameOf(u)] # Unreadable
        /\ attempt' = [attempt EXCEPT ![u] = @ + 1]
        /\ location' = [location EXCEPT ![u] = Suffixed(u, attempt[u] + 1)]
        /\ GoTo(u, "checking")
        /\ UNCHANGED <<newFile, tempfile>>
  /\ UNCHANGED <<request, synced, disk, enqueued, history>>

\* The loop is over: upload.Close().
Close(u) ==
  /\ phase[u] = "closing"
  /\ tempfile' = [tempfile EXCEPT ![u] = FALSE]
  /\ GoTo(u, IF newFile[u] THEN "directory" ELSE "answering")
  /\ UNCHANGED <<request, location, attempt, newFile, synced, disk, enqueued,
                 history>>

\* Mutant: the directory is opened and closed, and not synced.
SyncNoDirectory(u) ==
  /\ phase[u] = "directory"
  /\ dirSynced' = dirSynced \cup {u}
  /\ GoTo(u, "enqueueing")
  /\ UNCHANGED <<request, location, attempt, newFile, tempfile, synced, disk,
                 enqueued, powerLosses>>

\* The directory is synced, if it can be opened; an error makes no difference.
SyncDirectory(u) ==
  /\ phase[u] = "directory"
  /\ \/ /\ durable' = durable \cup {f \in DOMAIN files : f.hash = request[u].content}
        /\ dirSynced' = dirSynced \cup {u}
     \/ UNCHANGED <<durable, dirSynced>>
  /\ GoTo(u, "enqueueing")
  /\ UNCHANGED <<request, location, attempt, newFile, tempfile, synced, files,
                 unsynced, enqueued, powerLosses>>

\* EnqueueFile is given the name without its .gz.
Enqueue(u) ==
  /\ phase[u] = "enqueueing"
  /\ enqueued' = enqueued \cup {u}
  /\ GoTo(u, "answering")
  /\ UNCHANGED <<request, location, attempt, newFile, tempfile, synced, disk,
                 history>>

\* The handler sends 201, or 303, with the Location.
Answer(u) ==
  /\ phase[u] = "answering"
  /\ GoTo(u, "created")
  /\ UNCHANGED <<request, location, attempt, newFile, tempfile, synced, disk,
                 enqueued, history>>

\* The process, or the machine, stops.  Requests that had started are lost.
PowerLoss ==
  /\ powerLosses < MaxPowerLosses
  /\ powerLosses' = powerLosses + 1
  /\ \E survivors \in SUBSET DOMAIN files :
       /\ durable \subseteq survivors
       /\ files' = [f \in survivors |-> IF f \in unsynced THEN Corrupt ELSE files[f]]
       /\ durable' = survivors
  /\ unsynced' = {}
  /\ phase' = [u \in Uploads |->
                 IF phase[u] \in Ended \cup {"new"} THEN phase[u] ELSE "lost"]
  /\ UNCHANGED <<request, location, attempt, newFile, tempfile, synced, enqueued,
                 dirSynced>>

UploadStep(u) ==
  \/ CreateTempfile(u) \/ SetUpFails(u) \/ Receive(u) \/ Locate(u)
  \/ PreCheck(u) \/ Sync(u) \/ Link(u) \/ Recheck(u) \/ Close(u)
  \/ SyncDirectory(u) \/ Enqueue(u) \/ Answer(u)

Next ==
  \/ \E u \in Uploads : UploadStep(u) \/ Fails(u)
  \/ PowerLoss

Spec == Init /\ [][Next]_vars

\* Each request has a goroutine of its own, and bodies arrive or fail.
FairSpec == Spec /\ \A u \in Uploads : WF_vars(UploadStep(u))

-----------------------------------------------------------------------------
(* Properties *)

\* Every variable keeps to its type.
TypeOK ==
  /\ request \in [Uploads -> Requests]
  /\ phase \in [Uploads -> Ended \cup
       {"new", "receiving", "locating", "checking", "syncing", "linking",
        "rechecking", "closing", "directory", "enqueueing", "answering"}]
  /\ location \in [Uploads -> Locations \cup {NoLocation}]
  /\ attempt \in [Uploads -> Nat \ {0}]
  /\ newFile \in [Uploads -> BOOLEAN]
  /\ tempfile \in [Uploads -> BOOLEAN] /\ synced \in [Uploads -> BOOLEAN]
  /\ files \in [DOMAIN files -> StoredBytes \cup {Corrupt, Unreadable}]
  /\ DOMAIN files \subseteq Names
  /\ unsynced \subseteq DOMAIN files /\ durable \subseteq DOMAIN files
  /\ enqueued \subseteq Uploads /\ dirSynced \subseteq Uploads
  /\ powerLosses \in 0..MaxPowerLosses

\* A file that stays in the directory keeps its bytes.  No upload overwrites
\* another's, whichever links first; and because the data is synced before it
\* is linked, a power loss takes whole files or none.
FilesImmutable ==
  [][\A f \in DOMAIN files : f \in DOMAIN files' => files'[f] = files[f]]_vars

\* The file at the name an upload is told of holds what it sent, compressed
\* the way it was stored, even if a file of that name was corrupt before, or
\* was linked by another request between the two checks.  A request for which
\* the directory was synced can count on it after a power loss too.  Others
\* cannot: one that created its file is answered 201 even if the directory
\* could not be opened or synced, and one that found its file there does not
\* know whether whoever created it has synced the directory, or ever will.
AnsweredIsReadable ==
  \A u \in Uploads : phase[u] = "created" =>
     Same(u) \/ (powerLosses > 0 /\ u \notin dirSynced)

\* A file that has not rotted is what its name says: a PUT cannot file a
\* content under another's hash.
NamesMatchContents ==
  \A f \in DOMAIN files : Intact(files, f) => files[f].content = f.hash

\* Of the requests that store one file only one creates it and queues it for
\* replication, and it has done so before it is answered.  Only a file that a
\* power loss took, since its directory was not synced, is created and queued
\* again.
OneEnqueuePerFile ==
  /\ \A u, v \in enqueued : NameOf(u) = NameOf(v) =>
       u = v \/ (powerLosses > 0 /\ ~({u, v} \subseteq dirSynced))
  /\ \A u \in Uploads : phase[u] = "created" => (newFile[u] <=> u \in enqueued)

\* Of one content, with one extension and one encoding, there is one intact file,
\* however many requests store it and whatever damaged files are in their way: a
\* suffix is never counted up past a file that would have done.  (What is posted
\* both raw and gzipped is stored as both; see StoredOnce.)
OneCopy ==
  \A f, g \in DOMAIN files :
     /\ <<f.hash, f.ext, f.gz>> = <<g.hash, g.ext, g.gz>>
     /\ Intact(files, f) /\ Intact(files, g)
     => f = g

\* A request that is over, whichever way it ended, has left no tempfile.  The
\* code keeps to it for requests that are neither forms nor encoded nor .gz files.
NoTempfileLeft ==
  \A u \in Uploads : phase[u] \in Ended \ {"lost"} => ~tempfile[u]

\* What the code keeps to whatever the requests: the only tempfiles left by
\* requests that are over are those of requests that failed, and for which
\* FileUploader itself could fail.
OnlySetUpLeavesTempfiles ==
  \A u \in Uploads :
     phase[u] \in Ended \ {"lost"} /\ tempfile[u] =>
       phase[u] = "failed" /\ SetUpMayFail(request[u])

\* Every request comes to an end: the suffixes tried do not run on for ever.
EveryUploadEnds ==
  \A u \in Uploads : phase[u] = "receiving" ~> phase[u] \in Ended

-----------------------------------------------------------------------------
(* What comments and documents say, and the code does not keep to *)

\* The README: "storing the same file twice stores only one copy", and the hash
\* is that of the uncompressed contents.  A text posted raw and posted gzipped is
\* stored as hash.txt and as hash.txt.gz.
StoredOnce ==
  \A f, g \in DOMAIN files :
     /\ f.hash = g.hash /\ f.ext = g.ext
     /\ Intact(files, f) /\ Intact(files, g)
     => f = g

\* Put sends no content type: the target is to "just replicate the filename".
\* A PUT answered 201 may have lost the extension, not only got a suffix.
ReplicatedNameKept ==
  \A u \in Uploads :
     phase[u] = "created" /\ request[u].at # NoLocation =>
       location[u] = [request[u].at EXCEPT !.n = location[u].n]
=============================================================================
