# TLA+ models of Verm

Verm is a content-addressed, immutable file store written in Go. A client
POSTs a file and is told the path it can be read at, a path made from the
SHA-256 of the contents. Each node replicates its files to the nodes named with
`-replicate-to`, and asks them for files it does not have itself. This
directory models the parts of Verm in which steps of several goroutines, several
nodes or a crash can meet, checks the models with TLC and proves the main
results with TLAPS.

Paths such as `file_uploader.go:200` are relative to the repository's root.

## 1. The system

| Part | State | Operations | What is hard | What makes it correct |
|---|---|---|---|---|
| Replication queues and workers (`replication_target.go`, `replication_jobs.go`) | per target: channels `newFiles`, `replicatedFiles`, `missingFiles`, the one-entry `needToResync`, `unfinishedJobs` | `enqueueNewFile`, `enqueueReplicatedFile`, `enqueueMissingFile`, `enqueueResync`, the worker loop, `Put` | bounded channels with default branches, retries without end, a counter that is added to after the send | nothing stored is forgotten, everything arrives, the counter is right, no deadlock |
| Resynchronisation (`replication_resync.go`) | the scan, a channel per resync, a list and its reply per sender | `enumerateFiles`, `sendFileLists`, `queueMissingFiles` | the scan races with uploads, lists are retried, senders overlap | a retried list is asked about again as a whole, only stored files are sent |
| Missing-files check (`replication_missing.go`, `scan_whole_lines.go`) | none but the disk | `serveMissing` | the answer is old when it is used | what it leaves out is really there |
| Uploads (`file_uploader.go`, `content_encoding.go`, POST and PUT in `server.go`) | per request: a tempfile, a location, an attempt; the directory | receive and hash, pre-check, sync, link, re-check, directory sync, `EnqueueFile` | requests for one file race, power fails between two steps, corrupt files are in the way | a name never changes its bytes, what was answered can be read, one copy, one replication, no tempfile left |
| Fan-out (`replication_targets.go`) | the list of targets | `EnqueueFile`, `EnqueueResync` | a cluster where every node replicates to every other | each file reaches all nodes and the traffic stops |
| Read forwarding (`replica_forwarding.go`) | two unbuffered channels and a goroutine per target, for each request | `forwardRead` | the first good answer wins, the rest must be closed, every send needs a reader | one answer, no goroutine left, no body left open |
| Shutdown (`connection_tracker.go`, `http_server.go`, `verm.go`) | the set of open connections, the deadline, the channels `done` and `finished` | `track`, `Shutdown`, signals | connections open and close while the deadline runs; everyone waits on the tracker | the process ends, after its handlers; responses in flight are finished if the time allows |
| Retry delays (`replication_backoff.go`) | the number of failures, in its callers | `backoffTime` | unsigned and signed overflow | the delay is positive and bounded |
| File serving (`file_server.go`, `gzip_server.go`, GET in `server.go`) | a reader's position, a pipe and the goroutine that writes to it | ranges, multipart responses, seeking in a gzip stream | arithmetic at the ends of a file, two goroutines that share the headers | the bytes asked for are the bytes sent, no goroutine is left |
| Health check (`health_check_server.go`), request log and statistics (`response_logger.go`, `log_statistics.go`), MIME table (`mimeext/`), configuration (`defaults.go`), munin plugins | little or none | | | |

How they interact: `UploadFile` calls `EnqueueFile` once a file is linked, which
puts its location on one channel of each target. Workers take locations from
`newFiles` and `missingFiles` and PUT them, which is an upload on the target. A
file that arrived by PUT goes to `replicatedFiles` instead, whose sender asks
the target whether it is missing there before it is sent. `main` and SIGUSR1
set `needToResync`; a resync lists every file on disk to the target's
`/_missing` and puts those the target lacks on `missingFiles`. The disk is all
that a restart keeps.

A GET opens the file or its `.gz`, and serves it whole, in ranges, or unpacked; if
there is neither it asks all targets at once with `forward=0`. Every connection
is reported to the tracker, for which `main` waits when a signal has closed the
listener.

## 2. The modules

| Module | Models | Depends on |
|---|---|---|
| `ReplicationLedger` | the promise: a ledger of the locations owed to one target, and its theorem | `TLAPS` |
| `ReplicationTarget` | one node and one target: queues, workers, resync, file lists | refines `ReplicationLedger` |
| `FileUploader` | any number of uploads over one directory, power loss | |
| `Cluster` | several nodes that replicate over any links, each queue in one step | refines `ReplicationLedger` |
| `ReadForwarding` | one GET for a file that may be elsewhere: handler, aggregator, a getter per target | |
| `FileServing` | one GET for a file that is here: ranges, multipart, gzip seeking | |
| `Shutdown` | signals, accept loop, tracker, connections | |
| `Backoff` | the delay after each failure | |
| `MCReplicationTarget`, `MCFileUploader`, `MCCluster`, `MCReadForwarding`, `MCFileServing`, `MCShutdown` | small instances for TLC | the module they are named for |
| `ReplicationTargetProofs`, `FileUploaderProofs`, `ClusterProofs`, `ShutdownProofs`, `ReadForwardingProofs`, `FileServingProofs` | theorems | the module they are named for, `TLAPS` |
| `ReplicationRefinement` | the proof that `ReplicationTarget` keeps the ledger | `ReplicationTargetProofs`, `ReplicationLedger` |

### ReplicationTarget

One action is one step between points at which goroutines can be interleaved: a
channel operation, an atomic add, an HTTP exchange. The variables are those of
the code: `newFiles`, `missingFiles`, `needToResync` and `unfinishedJobs` are
the fields of `ReplicationTarget`; `locations[Permanent]` is
`replicatedFiles`, and `locations[s]` the channel of the resync that started
sender `s`. `phase`, `batch`, `checked` and `reply` are the local variables of
`sendFileLists` and what it calls, with the target's `listMissingFiles` looking
up one line at a time while files may arrive there. `job` and `put` are the
locals of `replicateFromQueue`. `handler[f]` is the upload handler between its
link and the end of `EnqueueFile`; `scanning` and `unseen` are
`enumerateFiles`.

Abstractions:

- A file is a location and a variant, plain or `.gz`. A location's characters
  and a file's contents do not matter here. `Unsendable` are locations the target
  refuses: a local file that has rotted is refused with 422.
- A list in the compressor's buffer is a sequence of locations; its size limit
  is `BatchCap`, and its one-second timeout is the freedom to send it at any time.
- `backoffTime` is the freedom to retry at any time.
- A failed `Put` may have stored the file all the same, and a failed
  `/_missing` request may have been answered.
- `RepliesCanBeCut` says whether a reply's body may end early with a status of 200. A
  reply that cannot be decoded is one that ends before its first line.
- `Restart` stands for a crash at any point: it keeps the two disks and nothing
  else. What a power loss does to the disk is `FileUploader`'s subject.
- A scan finds the files there were when it started and, perhaps, those linked
  since. I/O errors of the scan are not modelled.

### FileUploader

`phase[u]` follows `UploadFile` through `FileUploader`, `Finish` and `Close`.
Any number of requests run at once. A content stands for its hash; how it is
compressed is kept apart, since names go by contents and comparisons of `.gz`
files go by bytes. `files` is the directory, `unsynced` the names linked to
data not on the disk proper, `durable` the names whose directory entry is on
it. `PowerLoss` keeps any set of names that includes the durable ones, and
turns what was linked to unsynced data into garbage, which is what a file
system may do and POSIX allows. `SyncDirectory` may fail, which the code does not
look at: it queues the file and answers 201 all the same. The history variable
`dirSynced` has the requests for which it did not.

`SetUpFails` is an error that `FileUploader` itself returns, with the tempfile
made and `Close` not yet deferred: a form without the field or without its end, a
`Content-Encoding` that is not gzip, a gzip header that cannot be read. `Fails` are
the errors after that.

`Requests` is what clients and other nodes may send. A PUT is taken to be one
that Verm's own `Put` can send: no content type but octet-stream, no location
that ends in `.gz`. `InitialDisks` may hold files that are whole, rotten, or
cannot be opened, with and without suffixes.

### ReplicationLedger

Three sets: the locations stored here, those that have arrived, those owed.
`ReplicationTarget` maps what is stored and remembered (`Remembered`) to what
is owed: a location is remembered while it is in a channel, a list, a reply or
a job, while a handler or the scan has still to come to it, or while a resync
is due.

### Cluster

What `ReplicationTarget` and `FileUploader` do in many steps is one step here.
For each link from a node to one of its targets there are the files that will be
sent (`push`) and those the target will be asked about (`ask`). `Post` is
`EnqueueFile` with `replicating` false: each target's `newFiles` takes the file or,
when it is full, a resync will ask about it. `PutArrives` is `EnqueueFile` with
`replicating` true, and happens only if the upload created the file; that is
what stops the traffic in a loop. A failed request is no step, and a lost answer
a request that is repeated. `Restart` loses a node's queues and asks about all it
has. `AskAnswered` may be a reply that is cut short or cannot be decoded: the question
is then done with and nothing is sent. The history variable `cut` has, for each link,
what such replies did not name since the link's last resync. `ReplicationTarget` and `Cluster` meet in `ReplicationLedger`: the former
implements it for one target in detail, and each link of the latter keeps it
(`LinkKeepsLedger`, for the constant `TheLink`, which is any link), but for the step
`StrikeOutCut`, a cut reply, which no ledger has.

### ReadForwarding

The handler, the goroutine of `ReplicationTargets.forwardRequest` (`aggregator`)
and one of `ReplicationTarget.forwardRequest` for each target (`getter`). Both
channels are unbuffered, so a send and its receive are one action: `Receive...` of
the aggregator with a getter, `PassOn` and `GiveUp` with the handler. `left` is
what the loop over the targets has still to receive. `body` says whether a
response's body is open, and `winner` whose response was passed on. Files appear
on any disk at any time. A target may fail in any way `proxyClient.Do` can, or
have an address that `http.NewRequest` refuses (`Unusable`): the getter then sends
nil and goes on to use the request it has not got, which panics in a goroutine
of its own and so ends the process (`crashed`). Left out: how much of a body
has been copied.

### FileServing

One request, from the opened file to the last byte. `kind` says how the file is
served: as it is, as the gzip stream it is stored as, or unpacked.
`offset` is where the content's reader really is, `position` where
`gzipSeeker` takes itself to be. A multipart response is written by a goroutine
of its own; `pending` is what its current write has put in the pipe and the handler
has not yet read. Bytes are numbered, so that a byte in a wrong place is told
apart; a part's head and the trailer are a few items each.

`rangesMIMESize` measures the heads of the parts with the file's type, and
the goroutine writes them with the response's, `multipart/byteranges;
boundary=...`, which it finds in the header map by then. `Growths` is the
difference between the two. The map is read by the goroutine while the handler
sets `Accept-Ranges` and `Content-Length`: `HeadersRace` is the outcome in which
the runtime notices and ends the process; in the other it goes unnoticed.

Left out: parsing of header fields (`specs` is what a `Range` header says, with
`None` for a number that is absent), `bytes=` with nothing behind it, which is as
no header, and `If-Range`, which has no effect (see below). The reader of a gzip
stream may return `io.EOF` with the last bytes or after them, so that a seek to
the very end may fail or not. A stream that is broken is taken to be found so by
the scan for its size or, when there is no range, to end anywhere.

### Shutdown

`main` is the goroutine that runs `Serve` and then waits for the tracker;
`signaller` is `waitForSignals`; `connections`, `deadline` and `finished` are the
tracker's. `conn[c]` is what net/http does with a connection: it is accepted,
reported, serves requests one at a time and is reported closed after its handler
has returned. Sends to the tracker are one action with the tracker's receive,
possible while it is at its `select` (`Selecting`). `readable` and `open` are the
two sides of a socket as `CloseRead` and `Close` leave them: what a client had
sent before `CloseRead` can still be read, and a handler whose socket is closed
gets an error from its next read or write. `SIGINT` is as `SIGTERM`, `SIGUSR2`
as `SIGUSR1`, whose effect is in `ReplicationTarget`. Each connection is made
once; a client that connects again is another connection.

### Backoff

`backoffTime` with Go's arithmetic, at a width of 16 bits for 64 so that TLC's
integers can hold it; a shift by the width or more is 0, `uint` wraps, `int` and
`time.Duration` are two's complement. The random half is a set.

## 3. The runs

Each run's `.cfg` names its instance; two workers finish each in under three
minutes.

| Run | Instance | Shows |
|---|---|---|
| `resync` | a plain file and a gzip one, one worker, every channel of length 1, lists of up to 2, one restart or SIGUSR1 | `TypeOK`, `NoFileForgotten`, `AnswersSound`, `OnlyStoredFilesQueued`, `QueueLengthAccurate` |
| `progress` | the same two files, lists of 1, no restart, `FairSpec` | `EventuallyReplicated`, `EventuallyIdle` |
| `implements_ledger` | one file, two workers, two resync senders, two restarts or SIGUSR1s, `FairSpec` | `QueueLengthAccurate`, `ImplementsLedger` |
| `upload_plain` | three requests among a POST, a PUT and a PUT of the wrong contents; five initial disks; two power losses; any directory sync may fail | `TypeOK`, `AnsweredIsReadable`, `NamesMatchContents`, `OneEnqueuePerFile`, `NoTempfileLeft`, `FilesImmutable` |
| `upload_gzip` | two requests among text with and without gzip, `.gz` files, encoded or not, the same bytes as an encoded octet stream, posted or replicated, a form and an unknown encoding; four initial disks; one power loss; `FairSpec` | `OneCopy`, `OnlySetUpLeavesTempfiles`, `EveryUploadEnds` |
| `read_forwarding` | three targets, of which one may be unusable; any of them, and this node, may have the file or get it; `FairSpec` | `TypeOK`, `NotFoundIsTrue`, `OneOwnerPerBody`, `NoSendOnClosedChannel`, `EverythingReleased` |
| `file_serving` | files of 0 to 3 bytes; every single range with numbers from 0 to 4, and every pair of eight that lie at, before, past and across the ends; heads of 1 to 3 items; GET and HEAD; `FairSpec` | `TypeOK`, `BytesAsAsked`, `AnswerComplete`, `RefusedForCause`, `NothingLeftRunning` |
| `shutdown` | two connections, room for two signals; `FairSpec` | `TypeOK`, `TrackerAccurate`, `NothingLeftBehind`, `ResponsesFinished`, `CleanExit`, `TermEndsProcess` |
| `cluster` | four nodes: three in a loop, one link of it both ways, and one outside; one file on any of them; two restarts or resyncs, and any number of cut replies; `FairSpec` | `TypeOK`, `LinksForgetOnlyCut`, `QuietMeansConverged`, `TrafficStops`, `EventuallyEverywhere`, `LinkKeepsLedger` |

The bounds and why they are enough:

- Channels and lists of length 1 or 2 make every channel full at some point,
  so that each default branch and each blocking send is reached. Two files fill a
  channel and leave one to be dropped. `BatchCap = 2` lets a list hold a
  location that has arrived and one that has not.
- `Workers = 2` is one replicating goroutine, since the loop at
  `replication_target.go:57` starts one fewer than it is told (with
  `-replication-workers 1` nothing is replicated), and the hardest case for
  progress; `implements_ledger` runs two against one file, so that two
  jobs for it meet. No run has `Workers = 1`, with which `EventuallyReplicated` would
  fail, and none of those that pass has locations the target refuses.
- `MaxDisturbances` bounds restarts and SIGUSR1s, `MaxPowerLosses` power losses.
  One or two suffice to interrupt any state and to see recovery from it. After two
  power losses a file may have been lost and made again, and lost again or not.
- `ResyncSlots` bounds the senders of resyncs alive at once: with one slot a
  resync waits for the last one's sender to return, with two they overlap, as
  they do in the code, where `resyncFromQueue` waits for the scan only, whatever
  the comment at `replication_target.go:128` says. The code has no such bound; `StartResync`
  waits when no slot is free.
- `CounterModulus = 16` stands for 2^64: small, but larger than twice the number
  of jobs there can be, so that the sign of the counter can be read.
- One file is plain and the other gzip, at two locations, so that each of the two
  lookups of a target and of a sender finds something. A location with both variants
  adds nothing to the properties, which speak of locations.
- Three uploads: two can race, and a third can find what they left. Two corrupt
  files on the initial disk send an upload to the suffix `_3`. `upload_gzip` has
  two uploads, of more kinds; the safety properties of section 4 are proved for
  any number.
- Three targets in `read_forwarding`: one answers first, one too late, one fails or
  has not got the file. `MCReadForwarding` makes one of them unusable in some
  initial states.
- Files of up to three bytes have a first, a middle and a last byte, and numbers
  up to 4 reach past every end. Two ranges are enough for a seek back and a seek
  forward between parts, for parts that overlap and for sums that exceed the
  file. `Growths` makes the response as long as `rangesMIMESize` says, a little
  too long for it, or longer than its trailer.
- Two connections in `shutdown`: one is being served while the other opens, is
  in mid-response or closes. The code's channel holds four signals; with two it
  is full sooner, and a `SIGTERM` can be the first, the second, both, or be
  dropped. The invariants are proved for any numbers of both.
- Four nodes in `cluster` have a loop, two ways between two nodes, a node that
  is only a target, and one file is enough, since files do not interact there. The
  topologies of `test/replication_topology_test.rb` (an open loop, a closed loop, a
  mesh) and all others are covered by the theorems, as far as safety goes.
- A width of 16 bits in `backoff_wraps` shows at 17 failures what 64 bits show at 65:
  the doubled delay is then the most negative integer, whose product with an
  even number of nanoseconds is 0.
- Symmetry is used only among uploads, in a run without liveness properties; no
  action or property tells one from another.

Deadlock checking is off where the system rests when there is nothing to do (an
idle node, a list of requests that are over, a process that has ended). That
nothing gets stuck is `EventuallyIdle`, `EveryUploadEnds`, `EverythingReleased`,
`NothingLeftRunning`, `TermEndsProcess` and `TrafficStops`.

### Fairness

`FairSpec` of `ReplicationTarget` has weak fairness for each goroutine's own
steps: the Go scheduler runs what can run, and a channel operation that can
proceed does. `ReceiveReply` and `PutSucceeds` have strong fairness: the network
and the target may fail any number of times, but a request made again and
again is answered in the end. Nothing is assumed of uploads, signals and
restarts. In `FileUploader` each request's goroutine is weakly fair, and a body
arrives or cannot be set up in the end: a client that sends nothing for ever, which
only the connection's keepalive ends, is assumed away.

In `Cluster` a PUT and a question to a target are weakly fair for each link and file: what
`ReplicationTarget` shows of its retries. In `ReadForwarding` goroutines are, and
requests, which `proxyClient`'s timeout ends. In `FileServing` the handler and
the goroutine that writes the parts are; nothing is assumed of the client,
except that a write to one that reads no more fails in the end. That is an assumption
about clients and networks, here and for `CopyBody` of `ReadForwarding`: the server of
`http_server.go:30` has no `WriteTimeout`, and a client that stays connected and
does not read keeps its handler. In `Shutdown` the
fair steps are those of `waitForSignals`, of `main` once the listener is closed,
of the tracker, of its timer, and of a connection only once one of its sides was closed:
clients may send and read as slowly as they like.

### What the code does not keep to

Three runs expect a violation, each of a statement the repository makes:

| Run | Statement | What happens |
|---|---|---|
| `cut_reply` | README: replication is self-healing; `replication_resync.go:134` checks for a reply terminated early | the error is logged and the list counted as done; what the reply did not get to name is forgotten until the next resync |
| `two_copies` | README: storing the same file twice stores only one copy; the hash is that of the uncompressed contents | a text posted as it is and posted gzipped is stored as `hash.txt` and as `hash.txt.gz` |
| `backoff_wraps` | `defaults.go:15` and `replication_backoff.go:17`: a base delay and a longest one | from 65 failures on the delay is 0, and a target that is away for some two hours is then asked without a pause |

Four further configurations are kept beside the project and are not among the
runs. TLC finds each of them violated:

| Configuration | Property | What happens |
|---|---|---|
| `MCTargetNegative.cfg` | `QueueLengthNotNegative` (`replication_targets.go:61`: the number of files in the queue) | the counter is added to after the send, and can be read as -1 |
| `MCTargetStarved.cfg` | `EventuallyReplicated` (README: replicates all files) | a refused file is retried for ever and keeps its worker |
| `MCUploadAborted.cfg` | `NoTempfileLeft` (`test_cleans_tempfiles_on_abort`) | a form without the field, a `Content-Encoding` that is not gzip, or an encoded upload or `.gz` file whose gzip header cannot be read leaves its tempfile |
| `MCUploadRenamed.cfg` | `ReplicatedNameKept` (`replication_jobs.go:31`: just replicate the filename) | a PUT whose name is taken by a corrupt file is stored as `hash_2`, without its extension, and answered 201 |

What else came up, which the models contain or leave out as said:

- `backoffTime(2)` shifts by a wrapped `uint` and is 0, so that the second retry
  follows at once. `BackoffHolds` leaves it out, to show the delay that is lost for
  good.
- `file_uploader.go:233` ignores errors of `os.Open` and of the directory's `Sync`, and
  goes on to queue the file and to answer 201. A power loss can then take what was
  answered, and the file is stored and queued once more when it is sent again.
  `AnsweredIsReadable` and `OneEnqueuePerFile` exempt such requests, as they do those
  that found the file there and so did not sync the directory.
- A file and its `.gz` variant are one location to scans, lists and targets. A node
  with both sends the `.gz` one only, and a target with either is missing nothing,
  as `test_looks_for_compressed_files` wants it.
- `replica_forwarding.go:116` reports an error of `http.NewRequest` and then uses
  the request it has not got. The panic is in a goroutine without a recover and
  ends the process; `crashed` in `ReadForwarding`.
- `replica_forwarding.go:76` ignores `io.Copy`'s error. `proxyClient`'s timeout of 15
  seconds includes the body, so a large forwarded file is cut. Not modelled.
- `file_server.go:71` measures a multipart response with a shorter content type
  than line 81 writes, so the response is cut by `CopyN` at its `Content-Length`.
  `BytesAsAsked` and `AnswerComplete` say what remains true: the right bytes,
  and as many as were declared.
- `file_server.go:81` reads the header map in one goroutine while line 100 writes to
  it in another (`HeadersRace`).
- `file_server.go:213` accepts a negative suffix, `bytes=--1`, whose range starts
  past the end. Alone it is refused by a gzip seek or answered 206 with nothing; with
  others the loop at line 65 means to refuse it but uses an `err` that is nil, and
  the handler panics (`PanicOnRange`), which net/http recovers.
- A range that starts at the end of the file is answered 206 with no bytes.
- `file_server.go:145` removes `Range` from the response's headers and not from the
  request's, so that `If-Range` has no effect.
- A broken gzip file that is streamed is cut with a status of 200
  (`gzip_server.go:107`).
- `Shutdown` in `http_server.go:36` has a value receiver: `Closed` is set in a copy, and
  `Active` is always true for the handlers. Only log messages depend on it.
- `PostRequestsFailed` is declared and printed and never added to.

`NoFileForgotten` and `ImplementsLedger` are therefore checked, and proved as far
as safety goes, with `RepliesCanBeCut = FALSE`. `Cluster` has cut replies, and its
properties say what they cannot harm: `LinksForgetOnlyCut`, and convergence of all
files but those that are `Forgotten`, which a resync, or a file's coming another way, makes
good. `NoTempfileLeft` is checked and proved for requests that are neither forms nor
encoded nor `.gz` files, with `OnlySetUpLeavesTempfiles` for all others, and
`EventuallyReplicated` is checked with locations the target does not refuse.

`OneCopy`, that there is one intact file for each content, extension and encoding, is
weaker than the README's promise (see `two_copies`), and even so holds only
of requests that go by one sequence of names. The proof of `OnlyOneCopy` asks for
three things, `OneNameEach`, and TLC finds a second copy without any of them:

- `.gz` files compressed in two ways have the name of their contents, are compared
  byte for byte, and the second is stored beside the first with a suffix.
- A PUT for `hash_2`, which a node sends whose own `hash` was corrupt, stores
  `hash_2` here while `hash` is free; a later POST takes `hash`.
- A PUT for `hash.txt` that meets a corrupt file goes on with the extension of its
  content, which a replica sends as an octet stream: it looks at `hash_2` where a
  POST of text looks at `hash_2.txt`. With a POST of the same bytes as an octet
  stream, the PUT at `hash_2` and the POST at `hash` are two copies.

## 4. The proofs

TLAPS checks these for every value of the constants that meets the named
assumption of the module, such as `ConstantsAssumption` or `UploaderAssumption`:
any number of files, workers, senders, uploads, connections and targets, any
capacities, any initial disks.

`ReplicationTargetProofs`

- `TypeCorrect`: `Spec => []TypeOK`.
- `AnswersAreSound`: `Spec => []AnswersSound`, inductive with `TypeOK`. A lookup
  extends either the reply or what the target has, and the target loses nothing.
- `OnlyStoredAreQueued`: `Spec => []OnlyStoredFilesQueued`, inductive with
  `TypeOK` and `AnswersSound`, which says that replies name only what was in
  the list. It holds with cut replies too.
- `CounterIsAccurate`: `CounterIsWide` implies `Spec => []QueueLengthAccurate`. The
  invariant proved counts the jobs in the two channels and in the workers' hands, less
  the handlers and senders between their send and their add (`Due`), and says that
  the counter read as a signed integer is that number. Channels never hold more than
  their capacity, so the number fits the integer if `CounterModulus` is more
  than twice what can be in flight. The code's counter has 64 bits, its channels
  hold thousands, and each handler is a goroutine in memory.
- `NothingIsForgotten`: `~RepliesCanBeCut` implies `Spec => []NoFileForgotten`. A
  location leaves memory in three ways only: its job is done, and then it is on
  the target by `AnswersSound`; its list has been answered, and then by
  `AnswersSound` it is in the reply or on the target; a queue was full, and then
  `needToResync` is set. The flag is consumed only by `StartResync`, which makes
  everything stored unseen again.

`ReplicationLedger` and `ReplicationRefinement`

- `LedgerIsRight`: what the ledger promises, and so what `ImplementsLedger` is worth.
- `KeepsTheLedger`: `~RepliesCanBeCut` implies `Spec => Ledger!Spec`, the safety part
  of `ImplementsLedger`. The lemmas are one for each kind of step of the ledger
  (`LedgerStore`, `LedgerArrive`, `LedgerResync`, ...) and one for each goroutine, which
  says which of them each of its actions is. The hard steps are those after which a
  location is no longer remembered, and they rest on `AnswersSound`; a scan or a
  list that names what is not stored would be an entry the ledger cannot make, and
  that is `OnlyStoredFilesQueued`.

`FileUploaderProofs`, from one inductive invariant `IInv`

- `SyncedFirst`: data is synced before it is linked, so nothing is ever
  `unsynced`. `attempt = 1` before the loop is what makes this inductive, as the
  code syncs on the first attempt only.
- `StagesSound`: where a request is agrees with what it has done.
- `PlacedSound`: what a request found or made is still there, but for a power loss, and
  what has had its directory synced is durable.
- `OneKeeper`: no two requests created one name and have kept it, since a link
  creates a name only where there is none, and by `PlacedSound` the name is there as
  long as no power loss came in between, or if the directory was synced.
- They give `UploaderTypeCorrect`, `FilesAreImmutable`,
  `AnsweredIsAlwaysReadable`, `NamesAlwaysMatch` and `OneRequestEnqueues`.
- `OnlyOneCopy`, under `OneNameEach` (section 3), has an invariant of its own, `InOrder`.
  An intact file with suffix `n` has damaged ones at all names before it (`Orderly`).
  Damaged files are durable, so that a power loss leaves them where they are
  (`DamageIsOld`), and by `SyncedFirst` it damages none. A request at its n-th attempt
  has passed over n-1 of them (`InSequence`). Of two intact copies the later in the
  sequence would need the other to be damaged.
- `OnlySetUpLeavesTempfile`, without hypotheses: a request that is over has its
  tempfile only if it failed and `SetUpMayFail`: it is a form, encoded or a `.gz` file.
  `NoTempfileIsLeft` is `NoTempfileLeft` for requests of which none is.

`ClusterProofs`, for any nodes, links and files

- `ClusterTypeCorrect` and `OnlyCutIsForgotten`: `LinksForgetOnlyCut` is inductive with
  `TypeOK`. `PutArrives` is its hard case: the target gains a file, which it
  owes to its own targets, and asks them about it only if the file was new; if it
  was not, it was owed, or there already, or lost to a cut reply.
- `ConvergedAtRest`: with nothing sent or asked, `LinksForgetOnlyCut` says that a
  node's files are those of its targets too, but for those that are `Forgotten`. The
  nodes that have a file that is not are then a set that is closed under links, and
  `Reaches` is about such sets.
- `LinksKeepLedgers`: `LinkKeepsLedger`, a refinement. Each action maps to a
  step of the ledger for the link looked at, or to a stutter, and the third
  disjunct of `AskAnswered` to `StrikeOutCut`.

`ShutdownProofs`, for any connections and any capacity of the signals' channel,
from one inductive invariant `IInv`

- `OneReport`: a connection that is accepted and not reported keeps `main` in its
  accept loop, and there is one at most.
- `StoppedByMain`: the deadline is set by `main` alone, after that loop. So when
  the tracker finishes no connection is left that it has not been told of,
  and with `TrackerAccurate` and an empty map all of them are closed.
- `DoneFirst`: `done` is closed before the listener is.
- `OpenUntilDeadline`: this side closes connections at the deadline only.
- They give `ShutdownTypeCorrect`, `TrackerIsAccurate`, `NothingIsLeftBehind`,
  `ResponsesAreFinished` and `ExitIsClean`.

`ReadForwardingProofs`, for any finite number of targets, from one inductive
invariant `IInv`

- `Counted`: until the aggregator ends, `left` is the number of getters that
  have not sent (the `Cardinality` of `Unsent`), so that at zero none is left to
  send on a closed channel.
- `Places`: where the handler is and where the aggregator is go together; `Passed`:
  a response has been passed on exactly when `success` is set.
- `LookedHere` and `LookedThere`: what is known of the file before an answer. It
  was not here at the start, and a target that had it has failed, is still to be
  heard, or another's response has been passed on.
- They give `ForwardingTypeCorrect`, `ChannelsClosedLast`, `BodiesHaveOneOwner` and
  `NotFoundIsAlwaysTrue`.

`FileServingProofs`, for files of any size, any number of ranges of any numbers, and
part heads and trailers of any length, from one inductive invariant `IInv`

- Two lemmas carry the arithmetic. `ParsedIsWanted`: a range that `parseRange`
  lets through, whichever of its forms it has, is the interval of the bytes that
  RFC 2616 means. `EverythingIsEnough`: the parts as they are written are no
  shorter than `rangesMIMESize` says, so that `CopyN` never has fewer bytes to send
  than were declared.
- `OneRun`: without a pipe, what has been sent is the bytes from the range's start up
  to where the reader is, and no more than the limit of `CopyN`.
- `ManyParts`: with one, what has been sent and what is in the pipe are together what
  the writer has said so far (`Said`), which is a prefix of `Everything`. The
  reader and `gzipSeeker` agree on the place (`Streams`), whichever way the last
  part left it.
- `Coded` and `EndedWell`: the status goes with the ranges, and the handler ends a
  response when it is due, unless the client left or the gzip stream broke.
- They give `ServingTypeCorrect`, `RefusalsHaveCause`, `BytesAlwaysAsAsked` and
  `AnswersAreComplete`.

The sum of the ranges' lengths and the parts of a response are recursive functions.
What they are for every input is proved with sets in the place of predicates: of the
numbers for which a statement fails one would be the least (`Least`, from
the well-foundedness of the natural numbers), which gives `IntervalInduction`
and `RecursionExists`.

Model-checked only: the liveness properties (`EventuallyReplicated`,
`EventuallyIdle`, `EveryUploadEnds`, `EverythingReleased`, `NothingLeftRunning`,
`TermEndsProcess`, `TrafficStops`, `EventuallyEverywhere`) and the fairness in
`ImplementsLedger`: temporal reasoning about `ENABLED` is out of this prover's
reach. `Backoff` is a function of one number at a width, and is evaluated.

## 5. The plan

Every invariant and action property that a run checks has its theorem. Next
proofs: a weaker hypothesis for `OnlyOneCopy`, one for each content; that
`FileUploader` implements `Cluster`'s one step for an upload.

Next extensions: the scan's I/O errors in `ReplicationTarget`, which end the scan
of a directory without a retry; directories in `FileUploader`, whose own entries
`MkdirAll` does not sync; a PUT to a node with a corrupt file in `Cluster`.

## 6. Not modelled

- MIME types and the parsing of forms: a table that is read once, and a library. The
  extensions `FileUploader` works with stand for the table, and a form is a body that
  arrives or a `SetUpFails`.
- Health checks: two `stat` calls decide the status.
- Request log, statistics, munin plugins: formatting, and counters on which nothing
  depends. The one that can be wrong, the queue's length, is in `ReplicationTarget`.
- The command line and `defaults.go`: the values of constants.
- The bytes of a forwarded body, and requests' texts throughout.
- `server.Closed`, on which only log messages depend.
