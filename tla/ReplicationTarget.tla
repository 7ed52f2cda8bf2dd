-------------------------- MODULE ReplicationTarget --------------------------
(***************************************************************************)
(* Write replication from one Verm node to one of its targets:             *)
(* replication_target.go, replication_resync.go, replication_jobs.go and   *)
(* the target's side of the missing-files check, replication_missing.go.   *)
(*                                                                         *)
(* Goroutines modelled: the upload handlers that call EnqueueFile, the     *)
(* workers of replicateFromQueue, resyncFromQueue, and every sendFileLists *)
(* goroutine: the permanent one that reads replicatedFiles, and the one    *)
(* each resync starts and leaves running.                                  *)
(*                                                                         *)
(* A file on disk is a pair <<location, variant>>: "gz" when the name ends *)
(* in .gz, which replication strips from the location.  Both variants of a *)
(* location may be stored.  Nothing in Verm deletes a stored file.         *)
(*                                                                         *)
(* Not modelled: the delays of backoffTime (Backoff), I/O errors while the *)
(* directories are scanned, the statistics counters.                       *)
(***************************************************************************)
EXTENDS Integers, Sequences, FiniteSets, Functions

CONSTANTS
  Locations,        \* the locations files are stored under
  Files,            \* the files that may be stored: pairs of location, variant
  Unsendable,       \* locations the target refuses whenever they are PUT to it:
                    \* the local file is corrupt, so the answer is 422 or 500
  Workers,          \* the -replication-workers flag
  Permanent,        \* the sender that reads replicatedFiles
  ResyncSlots,      \* senders started by resyncs (bounds those alive at once)
  QueueCap,         \* capacity of newFiles and of replicatedFiles
  MissingCap,       \* capacity of missingFiles
  LocationsCap,     \* capacity of the channel a resync makes
  BatchCap,         \* locations in a file list before its size ends it
  CounterModulus,   \* 2^64, the modulus of unfinishedJobs
  RepliesCanBeCut,  \* whether a reply to a file list may end early
  MaxDisturbances,  \* bound on restarts and SIGUSR1s
  None              \* neither a location nor a sender

Variants == {"plain", "gz"}
Senders == {Permanent} \cup ResyncSlots

ASSUME ConstantsAssumption ==
  /\ Files \subseteq Locations \X Variants
  /\ Unsendable \subseteq Locations
  /\ Workers \in Nat
  /\ Permanent \notin ResyncSlots
  /\ QueueCap \in Nat /\ MissingCap \in Nat
  /\ LocationsCap \in Nat /\ BatchCap \in Nat \ {0}
  /\ CounterModulus \in Nat \ {0}
  /\ RepliesCanBeCut \in BOOLEAN
  /\ MaxDisturbances \in Nat
  /\ None \notin Locations \cup Senders

VARIABLES
  local,          \* files on this node's disk
  remote,         \* files on the target's disk
  handler,        \* file -> where the request that linked it has got to
  newFiles, missingFiles,
  locations,      \* sender -> its channel; replicatedFiles for Permanent
  needToResync,   \* whether the one-entry channel is full
  unfinishedJobs,
  scanning,       \* the sender the running enumerateFiles feeds, or None
  unseen,         \* files it has still to come to
  phase,          \* sender -> where it is in sendFileLists
  batch,          \* sender -> the list in its buffer
  checked,        \* sender -> lines of the list the target has looked up
  reply,          \* sender -> missing locations it has still to queue
  job,            \* worker -> the location it replicates, or None
  put,            \* worker -> "opening", the variant in flight, or "done"
  disturbances

disks == <<local, remote>>
queues == <<newFiles, missingFiles, unfinishedJobs>>
scan == <<scanning, unseen>>
senders == <<phase, batch, checked, reply>>
workers == <<job, put>>
vars == <<disks, handler, queues, locations, needToResync, scan, senders,
          workers, disturbances>>

\* Start runs the loop "for worker := 1; worker < workers; worker++".
Replicators == 1..(Workers - 1)

StoredAt(disk, l) == \E v \in Variants : <<l, v>> \in disk

-----------------------------------------------------------------------------
(* A process that has just started: main has called EnqueueResync. *)

Init ==
  /\ local \in SUBSET Files
  /\ remote \in SUBSET Files
  /\ handler = [f \in Files |-> "idle"]
  /\ newFiles = << >> /\ missingFiles = << >> /\ unfinishedJobs = 0
  /\ locations = [s \in Senders |-> << >>]
  /\ needToResync = TRUE
  /\ scanning = None /\ unseen = {}
  /\ phase = [s \in Senders |-> IF s = Permanent THEN "collect" ELSE "off"]
  /\ batch = [s \in Senders |-> << >>]
  /\ checked = [s \in Senders |-> 0]
  /\ reply = [s \in Senders |-> << >>]
  /\ job = [w \in Replicators |-> None]
  /\ put = [w \in Replicators |-> "opening"]
  /\ disturbances = 0

-----------------------------------------------------------------------------
(* Upload handlers *)

\* Mutant: EnqueueFile is called before the file is linked.
StoreAfterEnqueue(f, kind) ==
  /\ f \notin local /\ handler[f] = "idle"
  /\ handler' = [handler EXCEPT ![f] = kind]
  /\ UNCHANGED <<disks, queues, locations, needToResync, scan, senders,
                 workers, disturbances>>

\* A client's POST, or another server's PUT, links a new file into place.
\* Readdir of a running scan may or may not come to it.
Store(f, kind) ==
  /\ f \notin local
  /\ local' = local \cup {f}
  /\ handler' = [handler EXCEPT ![f] = kind]
  /\ \/ UNCHANGED unseen
     \/ scanning # None /\ unseen' = unseen \cup {f}
  /\ UNCHANGED <<remote, queues, locations, needToResync, scanning, senders,
                 workers, disturbances>>

\* Mutant: a full queue drops the file and requests no resync.
EnqueueNewFileOrDrop(f) ==
  /\ handler[f] = "post"
  /\ \/ /\ Len(newFiles) < QueueCap
        /\ newFiles' = Append(newFiles, f[1])
        /\ handler' = [handler EXCEPT ![f] = "counting"]
     \/ /\ Len(newFiles) >= QueueCap
        /\ handler' = [handler EXCEPT ![f] = "idle"]
        /\ UNCHANGED newFiles
  /\ UNCHANGED <<disks, missingFiles, unfinishedJobs, locations, needToResync,
                 scan, senders, workers, disturbances>>

\* enqueueNewFile: the send to newFiles, or the default branch.
EnqueueNewFile(f) ==
  /\ handler[f] = "post"
  /\ \/ /\ Len(newFiles) < QueueCap
        /\ newFiles' = Append(newFiles, f[1])
        /\ handler' = [handler EXCEPT ![f] = "counting"]
        /\ UNCHANGED needToResync
     \/ /\ Len(newFiles) >= QueueCap
        /\ needToResync' = TRUE
        /\ handler' = [handler EXCEPT ![f] = "idle"]
        /\ UNCHANGED newFiles
  /\ UNCHANGED <<disks, missingFiles, unfinishedJobs, locations, scan,
                 senders, workers, disturbances>>

\* enqueueNewFile adds to the counter once the location is in the channel.
CountNewFile(f) ==
  /\ handler[f] = "counting"
  /\ unfinishedJobs' = (unfinishedJobs + 1) % CounterModulus
  /\ handler' = [handler EXCEPT ![f] = "idle"]
  /\ UNCHANGED <<disks, newFiles, missingFiles, locations, needToResync, scan,
                 senders, workers, disturbances>>

\* Mutant: the file is counted here as well as by enqueueMissingFile.
EnqueueReplicatedFileCounted(f) ==
  /\ handler[f] = "put"
  /\ handler' = [handler EXCEPT ![f] = "idle"]
  /\ \/ /\ Len(locations[Permanent]) < QueueCap
        /\ locations' = [locations EXCEPT ![Permanent] = Append(@, f[1])]
        /\ unfinishedJobs' = (unfinishedJobs + 1) % CounterModulus
        /\ UNCHANGED needToResync
     \/ /\ Len(locations[Permanent]) >= QueueCap
        /\ needToResync' = TRUE
        /\ UNCHANGED <<locations, unfinishedJobs>>
  /\ UNCHANGED <<disks, newFiles, missingFiles, scan, senders, workers,
                 disturbances>>

\* enqueueReplicatedFile
EnqueueReplicatedFile(f) ==
  /\ handler[f] = "put"
  /\ handler' = [handler EXCEPT ![f] = "idle"]
  /\ \/ /\ Len(locations[Permanent]) < QueueCap
        /\ locations' = [locations EXCEPT ![Permanent] = Append(@, f[1])]
        /\ UNCHANGED needToResync
     \/ /\ Len(locations[Permanent]) >= QueueCap
        /\ needToResync' = TRUE
        /\ UNCHANGED locations
  /\ UNCHANGED <<disks, queues, scan, senders, workers, disturbances>>

-----------------------------------------------------------------------------
(* replicateFromQueue: the workers *)

TakeNewFile(w) ==
  /\ job[w] = None /\ newFiles # << >>
  /\ job' = [job EXCEPT ![w] = Head(newFiles)]
  /\ newFiles' = Tail(newFiles)
  /\ UNCHANGED <<disks, handler, missingFiles, unfinishedJobs, locations,
                 needToResync, scan, senders, put, disturbances>>

TakeMissingFile(w) ==
  /\ job[w] = None /\ missingFiles # << >>
  /\ job' = [job EXCEPT ![w] = Head(missingFiles)]
  /\ missingFiles' = Tail(missingFiles)
  /\ UNCHANGED <<disks, handler, newFiles, unfinishedJobs, locations,
                 needToResync, scan, senders, put, disturbances>>

\* Put opens location.gz, and failing that location; with neither it fails
\* and is retried, which is a worker that stays where it is.
OpenFile(w) ==
  /\ job[w] # None /\ put[w] = "opening"
  /\ \E v \in Variants :
        /\ <<job[w], v>> \in local
        /\ v = "plain" => <<job[w], "gz">> \notin local
        /\ put' = [put EXCEPT ![w] = v]
  /\ UNCHANGED <<disks, handler, queues, locations, needToResync, scan,
                 senders, job, disturbances>>

\* The target stores the variant sent to it and its 201 arrives.
PutSucceeds(w) ==
  /\ job[w] # None /\ put[w] \in Variants
  /\ job[w] \notin Unsendable
  /\ remote' = remote \cup {<<job[w], put[w]>>}
  /\ put' = [put EXCEPT ![w] = "done"]
  /\ UNCHANGED <<local, handler, queues, locations, needToResync, scan,
                 senders, job, disturbances>>

\* Mutant: replicateFile gives the job up when Put returns false.
PutFailsGivesUp(w) ==
  /\ job[w] # None /\ put[w] \in Variants
  /\ put' = [put EXCEPT ![w] = "done"]
  /\ UNCHANGED <<disks, handler, queues, locations, needToResync, scan,
                 senders, job, disturbances>>

\* Put returns false: refused, never delivered, or stored but the answer
\* lost.  replicateFile sleeps and calls Put again.
PutFails(w) ==
  /\ job[w] # None /\ put[w] \in Variants
  /\ put' = [put EXCEPT ![w] = "opening"]
  /\ \/ UNCHANGED remote
     \/ /\ job[w] \notin Unsendable
        /\ remote' = remote \cup {<<job[w], put[w]>>}
  /\ UNCHANGED <<local, handler, queues, locations, needToResync, scan,
                 senders, job, disturbances>>

\* Mutant: the counter is a plain integer.
FinishJobUnwrapped(w) ==
  /\ job[w] # None /\ put[w] = "done"
  /\ job' = [job EXCEPT ![w] = None]
  /\ put' = [put EXCEPT ![w] = "opening"]
  /\ unfinishedJobs' = unfinishedJobs - 1
  /\ UNCHANGED <<disks, handler, newFiles, missingFiles, locations,
                 needToResync, scan, senders, disturbances>>

\* Adding ^uint64(0) takes one off the counter.
FinishJob(w) ==
  /\ job[w] # None /\ put[w] = "done"
  /\ job' = [job EXCEPT ![w] = None]
  /\ put' = [put EXCEPT ![w] = "opening"]
  /\ unfinishedJobs' = (unfinishedJobs + (CounterModulus - 1)) % CounterModulus
  /\ UNCHANGED <<disks, handler, newFiles, missingFiles, locations,
                 needToResync, scan, senders, disturbances>>

-----------------------------------------------------------------------------
(* resyncFromQueue and enumerateFiles *)

\* The flag is consumed, a channel made, its sender started, the scan begun.
StartResync ==
  /\ needToResync /\ scanning = None
  /\ needToResync' = FALSE
  /\ \E s \in ResyncSlots :
        /\ phase[s] = "off"
        /\ phase' = [phase EXCEPT ![s] = "collect"]
        /\ scanning' = s
  /\ unseen' = local
  /\ UNCHANGED <<disks, handler, queues, locations, batch, checked, reply,
                 workers, disturbances>>

\* The scan comes to a file and sends its location, blocking while the
\* channel is full.
EnumerateFile ==
  /\ scanning # None
  /\ Len(locations[scanning]) < LocationsCap
  /\ \E f \in unseen :
        /\ unseen' = unseen \ {f}
        /\ locations' = [locations EXCEPT ![scanning] = Append(@, f[1])]
  /\ UNCHANGED <<disks, handler, queues, needToResync, scanning, senders,
                 workers, disturbances>>

\* The scan is over and the channel is closed.
CloseLocations ==
  /\ scanning # None /\ unseen = {}
  /\ scanning' = None
  /\ UNCHANGED <<disks, handler, queues, locations, needToResync, unseen,
                 senders, workers, disturbances>>

-----------------------------------------------------------------------------
(* sendFileLists *)

ReceiveLocation(s) ==
  /\ phase[s] = "collect"
  /\ locations[s] # << >> /\ Len(batch[s]) < BatchCap
  /\ batch' = [batch EXCEPT ![s] = Append(@, Head(locations[s]))]
  /\ locations' = [locations EXCEPT ![s] = Tail(@)]
  /\ UNCHANGED <<disks, handler, queues, needToResync, scan, phase, checked,
                 reply, workers, disturbances>>

\* batchTimeout fires, the list is large enough, or the channel was closed:
\* the list is complete and the PUT to /_missing starts.
SendFileList(s) ==
  /\ phase[s] = "collect" /\ batch[s] # << >>
  /\ phase' = [phase EXCEPT ![s] = "listing"]
  /\ UNCHANGED <<disks, handler, queues, locations, needToResync, scan, batch,
                 checked, reply, workers, disturbances>>

\* A resync's sender returns once its channel is closed and drained.
ReturnFromSendFileLists(s) ==
  /\ phase[s] = "collect" /\ batch[s] = << >> /\ locations[s] = << >>
  /\ s # Permanent /\ s # scanning
  /\ phase' = [phase EXCEPT ![s] = "off"]
  /\ UNCHANGED <<disks, handler, queues, locations, needToResync, scan, batch,
                 checked, reply, workers, disturbances>>

\* listMissingFiles on the target looks up the next line of the list.
ListMissingFile(s) ==
  /\ phase[s] = "listing" /\ checked[s] < Len(batch[s])
  /\ checked' = [checked EXCEPT ![s] = @ + 1]
  /\ LET line == batch[s][checked[s] + 1] IN
       reply' = [reply EXCEPT ![s] =
                   IF StoredAt(remote, line) THEN @ ELSE Append(@, line)]
  /\ UNCHANGED <<disks, handler, queues, locations, needToResync, scan, phase,
                 batch, workers, disturbances>>

\* Mutant: without input.Seek(0, 0) the retry sends the rest of the list.
FileListFailsUnrewound(s) ==
  /\ phase[s] = "listing" /\ checked[s] = Len(batch[s])
  /\ reply' = [reply EXCEPT ![s] = << >>]
  /\ UNCHANGED <<disks, handler, queues, locations, needToResync, scan, phase,
                 batch, checked, workers, disturbances>>

\* The request fails or is not answered 200: the same list is sent again.
\* The lookups of a failed request are discarded and change nothing on the
\* target, so one that fails earlier is one that fails here.
FileListFails(s) ==
  /\ phase[s] = "listing" /\ checked[s] = Len(batch[s])
  /\ checked' = [checked EXCEPT ![s] = 0]
  /\ reply' = [reply EXCEPT ![s] = << >>]
  /\ UNCHANGED <<disks, handler, queues, locations, needToResync, scan, phase,
                 batch, workers, disturbances>>

\* A 200 arrives.  queueMissingFiles logs an error from reading the body and
\* goes on with the lines it has, or with none if it cannot decode the reply;
\* sendFileList returns true all the same.
ReceiveReply(s) ==
  /\ phase[s] = "listing" /\ checked[s] = Len(batch[s])
  /\ phase' = [phase EXCEPT ![s] = "queueing"]
  /\ batch' = [batch EXCEPT ![s] = << >>]
  /\ checked' = [checked EXCEPT ![s] = 0]
  /\ \/ UNCHANGED reply
     \/ /\ RepliesCanBeCut
        /\ \E n \in 0..Len(reply[s]) :
              reply' = [reply EXCEPT ![s] = SubSeq(@, 1, n)]
  /\ UNCHANGED <<disks, handler, queues, locations, needToResync, scan,
                 workers, disturbances>>

\* enqueueMissingFile: a blocking send, then the counter.
EnqueueMissingFile(s) ==
  /\ phase[s] = "queueing" /\ reply[s] # << >>
  /\ Len(missingFiles) < MissingCap
  /\ missingFiles' = Append(missingFiles, Head(reply[s]))
  /\ reply' = [reply EXCEPT ![s] = Tail(@)]
  /\ phase' = [phase EXCEPT ![s] = "counting"]
  /\ UNCHANGED <<disks, handler, newFiles, unfinishedJobs, locations,
                 needToResync, scan, batch, checked, workers, disturbances>>

CountMissingFile(s) ==
  /\ phase[s] = "counting"
  /\ unfinishedJobs' = (unfinishedJobs + 1) % CounterModulus
  /\ phase' = [phase EXCEPT ![s] = "queueing"]
  /\ UNCHANGED <<disks, handler, newFiles, missingFiles, locations,
                 needToResync, scan, batch, checked, reply, workers,
                 disturbances>>

\* Mutant: sendFileLists returns after its first list.
ReplyQueuedReturns(s) ==
  /\ phase[s] = "queueing" /\ reply[s] = << >>
  /\ phase' = [phase EXCEPT ![s] = "off"]
  /\ UNCHANGED <<disks, handler, queues, locations, needToResync, scan, batch,
                 checked, reply, workers, disturbances>>

\* The reply is queued and the sender goes back to its channel.
ReplyQueued(s) ==
  /\ phase[s] = "queueing" /\ reply[s] = << >>
  /\ phase' = [phase EXCEPT ![s] = "collect"]
  /\ UNCHANGED <<disks, handler, queues, locations, needToResync, scan, batch,
                 checked, reply, workers, disturbances>>

-----------------------------------------------------------------------------
(* The environment *)

\* Another server, or a client of the target, stores a file there.
StoreAtTarget(f) ==
  /\ f \notin remote
  /\ remote' = remote \cup {f}
  /\ UNCHANGED <<local, handler, queues, locations, needToResync, scan,
                 senders, workers, disturbances>>

\* SIGUSR1: main's waitForSignals calls EnqueueResync.
RequestResync ==
  /\ disturbances < MaxDisturbances
  /\ disturbances' = disturbances + 1
  /\ needToResync' = TRUE
  /\ UNCHANGED <<disks, handler, queues, locations, scan, senders, workers>>

\* The process stops at any point and is started again: the disk is what is
\* left.
Restart ==
  /\ disturbances < MaxDisturbances
  /\ disturbances' = disturbances + 1
  /\ handler' = [f \in Files |-> "idle"]
  /\ newFiles' = << >> /\ missingFiles' = << >> /\ unfinishedJobs' = 0
  /\ locations' = [s \in Senders |-> << >>]
  /\ needToResync' = TRUE
  /\ scanning' = None /\ unseen' = {}
  /\ phase' = [s \in Senders |-> IF s = Permanent THEN "collect" ELSE "off"]
  /\ batch' = [s \in Senders |-> << >>]
  /\ checked' = [s \in Senders |-> 0]
  /\ reply' = [s \in Senders |-> << >>]
  /\ job' = [w \in Replicators |-> None]
  /\ put' = [w \in Replicators |-> "opening"]
  /\ UNCHANGED disks

-----------------------------------------------------------------------------

HandlerStep(f) == EnqueueNewFile(f) \/ CountNewFile(f) \/ EnqueueReplicatedFile(f)

WorkerStep(w) ==
  TakeNewFile(w) \/ TakeMissingFile(w) \/ OpenFile(w) \/ FinishJob(w)

ResyncStep == StartResync \/ EnumerateFile \/ CloseLocations

SenderStep(s) ==
  \/ ReceiveLocation(s) \/ SendFileList(s) \/ ReturnFromSendFileLists(s)
  \/ ListMissingFile(s) \/ EnqueueMissingFile(s) \/ CountMissingFile(s)
  \/ ReplyQueued(s)

Next ==
  \/ \E f \in Files :
        Store(f, "post") \/ Store(f, "put") \/ HandlerStep(f) \/ StoreAtTarget(f)
  \/ \E w \in Replicators : WorkerStep(w) \/ PutSucceeds(w) \/ PutFails(w)
  \/ ResyncStep
  \/ \E s \in Senders : SenderStep(s) \/ FileListFails(s) \/ ReceiveReply(s)
  \/ RequestResync
  \/ Restart

Spec == Init /\ [][Next]_vars

\* The Go scheduler runs every goroutine that can run (weak fairness).  The
\* network may fail any number of times but not for ever: a file list that is
\* sent again and again is answered in the end, and a PUT the target does not
\* refuse succeeds in the end (strong fairness).
Fairness ==
  /\ \A f \in Files : WF_vars(HandlerStep(f))
  /\ \A w \in Replicators : WF_vars(WorkerStep(w)) /\ SF_vars(PutSucceeds(w))
  /\ WF_vars(ResyncStep)
  /\ \A s \in Senders : WF_vars(SenderStep(s)) /\ SF_vars(ReceiveReply(s))

FairSpec == Spec /\ Fairness

-----------------------------------------------------------------------------
(* Properties *)

\* Every variable keeps to its type, and channels, lists and replies carry
\* locations only.
TypeOK ==
  /\ local \subseteq Files /\ unseen \subseteq Files
  /\ remote \subseteq Locations \X Variants
  /\ handler \in [Files -> {"idle", "post", "counting", "put"}]
  /\ newFiles \in Seq(Locations) /\ missingFiles \in Seq(Locations)
  /\ locations \in [Senders -> Seq(Locations)]
  /\ needToResync \in BOOLEAN
  /\ unfinishedJobs \in 0..(CounterModulus - 1)
  /\ scanning \in ResyncSlots \cup {None}
  /\ phase \in [Senders -> {"off", "collect", "listing", "queueing", "counting"}]
  /\ batch \in [Senders -> Seq(Locations)]
  /\ checked \in [Senders -> Nat]
  /\ reply \in [Senders -> Seq(Locations)]
  /\ job \in [Replicators -> Locations \cup {None}]
  /\ put \in [Replicators -> Variants \cup {"opening", "done"}]
  /\ disturbances \in 0..MaxDisturbances

\* Location l is in a channel, a file list or a reply, or a worker has it.
Queued(l) ==
  \/ l \in Range(newFiles) \/ l \in Range(missingFiles)
  \/ \E s \in Senders :
        l \in Range(locations[s]) \/ l \in Range(batch[s]) \/ l \in Range(reply[s])
  \/ \E w \in Replicators : job[w] = l

\* Somewhere in this process's memory there is still something that leads to
\* location l being sent, or being asked about.
Remembered(l) ==
  \/ needToResync
  \/ \E f \in unseen : f[1] = l
  \/ \E f \in Files : f[1] = l /\ handler[f] \in {"post", "put"}
  \/ Queued(l)

\* No location is forgotten: if this node has it and the target does not, it
\* is still remembered.  A full queue, a restart, a scan that passed the
\* file's directory just before the file was linked, or a missing-files
\* answer that is out of date must never be the last that is heard of it.
NoFileForgotten ==
  \A l \in Locations :
     StoredAt(local, l) /\ ~StoredAt(remote, l) => Remembered(l)

\* What this node takes the target to have, it has.  A job ends with its
\* location there.  What has been looked up of a file list is in the reply or
\* there, and the reply names nothing that was not in the list.  A list not
\* being looked up starts from its first line, with an empty reply: a retry
\* after a failed request asks about the whole list again.
AnswersSound ==
  /\ \A w \in Replicators : put[w] = "done" => StoredAt(remote, job[w])
  /\ \A s \in Senders :
       IF phase[s] = "listing"
       THEN /\ checked[s] \in 0..Len(batch[s])
            /\ \A i \in 1..checked[s] :
                  batch[s][i] \in Range(reply[s]) \/ StoredAt(remote, batch[s][i])
            /\ Range(reply[s]) \subseteq Range(batch[s])
       ELSE /\ checked[s] = 0
            /\ phase[s] \in {"off", "collect"} => reply[s] = << >>

\* Only what this node has stored is ever scanned, queued, listed or sent:
\* replicateFile would retry a location it cannot open for ever, and hold its
\* worker.
OnlyStoredFilesQueued ==
  /\ unseen \subseteq local
  /\ \A f \in Files : handler[f] # "idle" => f \in local
  /\ \A l \in Locations : Queued(l) => StoredAt(local, l)

\* What queueLength returns: the counter read as a signed integer.
QueueLength ==
  IF 2 * unfinishedJobs < CounterModulus
  THEN unfinishedJobs ELSE unfinishedJobs - CounterModulus

\* The counter agrees with the queues and the workers but for the goroutines
\* between their channel send and their atomic add: no job is counted twice,
\* or never, or left counted once it is finished, so queueLength comes back
\* to 0 whenever everything has been replicated.
QueueLengthAccurate ==
  QueueLength
    + Cardinality({f \in Files : handler[f] = "counting"})
    + Cardinality({s \in Senders : phase[s] = "counting"})
  = Len(newFiles) + Len(missingFiles)
    + Cardinality({w \in Replicators : job[w] # None})

\* Nothing is in progress and nothing is waiting.
Idle ==
  /\ \A f \in Files : handler[f] = "idle"
  /\ newFiles = << >> /\ missingFiles = << >>
  /\ ~needToResync /\ scanning = None
  /\ \A s \in Senders :
        /\ phase[s] = IF s = Permanent THEN "collect" ELSE "off"
        /\ batch[s] = << >> /\ locations[s] = << >>
  /\ \A w \in Replicators : job[w] = None

\* Every location this node has, the target has in the end, unless the target
\* refuses it.
EventuallyReplicated ==
  \A l \in Locations \ Unsendable :
     StoredAt(local, l) ~> StoredAt(remote, l)

\* Once uploads, signals and restarts stop, every goroutine comes to rest:
\* handlers, the scan, senders and workers, joined by four bounded channels,
\* never wait for one another for ever, resyncs do not cause resyncs without
\* end, and no resync leaves its sender behind.
EventuallyIdle == <>[]Idle

\* The implementation of the abstract ledger: a location is owed while it is
\* stored and remembered.  Each step of the queues, the scan, the file lists
\* and the workers enters locations in it, strikes out locations the target
\* has, or leaves it alone; and what is owed is delivered in the end.
Ledger == INSTANCE ReplicationLedger WITH
  Refused <- Unsendable,
  stored <- {l \in Locations : StoredAt(local, l)},
  arrived <- {l \in Locations : StoredAt(remote, l)},
  owed <- {l \in Locations : StoredAt(local, l) /\ Remembered(l)}

ImplementsLedger == Ledger!FairSpec

-----------------------------------------------------------------------------
(* What the code's comments and documents say, and the code does not keep to *)

\* StatisticsString calls the figure the number of files in the queue.
QueueLengthNotNegative == QueueLength >= 0
=============================================================================
