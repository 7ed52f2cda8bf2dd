----------------------------- MODULE FileServing -----------------------------
(***************************************************************************)
(* One GET or HEAD for a file that is here: serveFile once it has opened   *)
(* the file, the byte ranges of file_server.go, and the reader that seeks  *)
(* in a gzip stream, gzip_server.go.                                       *)
(*                                                                         *)
(* A file is served as it is ("plain"), as the gzip stream it is stored as *)
(* ("encoded"), or unpacked.  The k-th byte of what is served is           *)
(* <<"byte", k>>, so that a byte out of place is told apart; the head of a *)
(* part of a multipart response and the response's trailer are a few items *)
(* each.  A multipart response is written by a goroutine of its own        *)
(* through a pipe, and what it writes is in the pipe until it is read.     *)
(*                                                                         *)
(* The writer looks at the header map while the handler still changes it.  *)
(* Go calls this a data race: the map may be read as if nothing were the   *)
(* matter, or the runtime may notice and end the process.                  *)
(***************************************************************************)
EXTENDS Integers, Sequences, SequencesExt

CONSTANTS
  Sizes,          \* sizes of what is served
  Requests,       \* [kind, head, fresh, specs]: fresh if the client's copy is
  HeadLength,     \* length of a part's head that has the file's type in it
  Growths,        \* how much longer it is with the response's type, which
                  \* names the boundary: the fewer, the longer the file's type
  TrailerLength,  \* length of what ends the multipart response
  None            \* an end or a start that a range does not have

\* A start has no sign.  An end may have one, for all that ParseInt minds.
RangeSpecs == [start : Nat \cup {None}, end : Int \cup {None}]

ASSUME ServingAssumption ==
  /\ Sizes \subseteq Nat /\ Growths \subseteq Nat
  /\ HeadLength \in Nat /\ TrailerLength \in Nat
  /\ Requests \subseteq [kind : {"plain", "encoded", "unpacked"}, head : BOOLEAN,
                         fresh : BOOLEAN, specs : Seq(RangeSpecs)]
  /\ None \notin Int

VARIABLES
  request, size, growth,
  sound,          \* whether the gzip stream can be read to its end
  main,           \* where the handler is
  code,           \* the status, when it has been written
  ranges,         \* what parseRange made of the request
  sendSize, declared,   \* the limit of CopyN, and Content-Length or None
  writer,         \* where the goroutine that writes the parts is
  part,           \* which part it is at
  pending,        \* what it is writing to the pipe
  pipe,           \* "none", "open", "written" or "closed", by its reader
  position,       \* where gzipSeeker takes itself to be
  offset,         \* where the content's reader is
  sent,           \* what the client has been sent
  client,         \* whether it is still there
  crashed

content == <<position, offset>>
multipart == <<writer, part, pending, pipe>>
input == <<request, size, growth, sound>>
answer == <<code, ranges, sendSize, declared>>
vars == <<input, main, answer, multipart, content, sent, client, crashed>>

Specs == request.specs
Off == {"off", "ended", "failed", "broken off"}
Running == main \notin {"done", "panicked"}
Bytes(first, length) ==
  [i \in 1..(IF length > 0 THEN length ELSE 0) |-> <<"byte", first + i - 1>>]

PartHead(i, length) == [j \in 1..length |-> <<"head", i>>]
Trailer == [j \in 1..TrailerLength |-> <<"trailer", 0>>]

-----------------------------------------------------------------------------
(* Ranges *)

\* Mutant: a range of one byte is taken for an inverted one.
InvalidIfShort(spec) ==
  IF spec.start = None
  THEN spec.end = None
  ELSE spec.start > size \/ (spec.end # None /\ spec.start >= spec.end)

\* The cases in which parseRange returns an error.
Invalid(spec) ==
  IF spec.start = None
  THEN spec.end = None
  ELSE spec.start > size \/ (spec.end # None /\ spec.start > spec.end)

\* parseRange's arithmetic: a suffix longer than the file is the whole file,
\* and an end past the file's is its end.
Parsed(spec) ==
  LET start == IF spec.start # None THEN spec.start
               ELSE IF spec.end > size THEN 0 ELSE size - spec.end
      last == IF spec.start = None \/ spec.end = None \/ spec.end >= size
              THEN size - 1 ELSE spec.end
  IN [start |-> start, length |-> last - start + 1]

SumRangesSize(rs) ==
  LET sum[i \in 0..Len(rs)] == IF i = 0 THEN 0 ELSE sum[i - 1] + rs[i].length
  IN sum[Len(rs)]

\* It measures the heads with the type of the file.
RangesMIMESize(rs) == SumRangesSize(rs) + Len(rs) * HeadLength + TrailerLength

-----------------------------------------------------------------------------
(* The content *)

\* Mutant: the count of what was read starts again but the stream does not.
SeekWithoutReset(to) ==
  /\ position' = to
  /\ offset' = IF request.kind # "unpacked" THEN to
               ELSE IF to < position THEN offset + to
               ELSE offset + (to - position)

\* Seek in a file, or gzipSeeker's, which starts the stream again to go back
\* and reads on to go forward.
Seek(to) ==
  /\ position' = to
  /\ offset' = IF request.kind = "unpacked" /\ to >= position
               THEN offset + (to - position) ELSE to

\* Reading on to a place in a gzip stream fails past its end, and may fail at
\* its end: the last bytes may come with io.EOF or before it.
SeekMayFail(to) == request.kind = "unpacked" /\ to >= size /\ to # position
SeekMustFail(to) == request.kind = "unpacked" /\ to > size

-----------------------------------------------------------------------------

Init ==
  /\ request \in Requests /\ size \in Sizes /\ growth \in Growths
  /\ sound \in IF request.kind = "unpacked" THEN BOOLEAN ELSE {TRUE}
  /\ main = "checking"
  /\ code = None /\ ranges = << >> /\ sendSize = size /\ declared = None
  /\ writer = "off" /\ part = 0 /\ pending = << >> /\ pipe = "none"
  /\ position = 0 /\ offset = 0
  /\ sent = << >> /\ client = TRUE /\ crashed = FALSE

Finish(status) ==
  /\ main' = "done" /\ code' = status
  /\ UNCHANGED <<input, ranges, sendSize, declared, multipart, content, sent, client, crashed>>

\* checkLastModified or checkETag finds that the client's copy is current.
NotModified ==
  /\ ~crashed /\ main = "checking" /\ request.fresh
  /\ Finish(304)

\* HEAD for what would have to be unpacked is answered by the header alone.
HeadUnpacked ==
  /\ ~crashed /\ main = "checking" /\ ~request.fresh
  /\ request.kind = "unpacked" /\ request.head
  /\ Finish(200)

\* gzip.NewReader or the scan for the size fails.
CannotUnpack ==
  /\ ~crashed /\ main = "checking" /\ ~request.fresh
  /\ request.kind = "unpacked" /\ ~request.head /\ ~sound
  /\ Finish(500)

\* Without a Range header the stream is sent as it is read.
StreamUnpacked ==
  /\ ~crashed /\ main = "checking" /\ ~request.fresh
  /\ request.kind = "unpacked" /\ ~request.head /\ Specs = << >>
  /\ main' = "streaming" /\ code' = 200
  /\ UNCHANGED <<input, ranges, sendSize, declared, multipart, content, sent, client, crashed>>

\* Mutant: the stream is not started again once it has been measured.
OpenContentUnrewound ==
  /\ ~crashed /\ main = "checking" /\ ~request.fresh
  /\ request.kind = "unpacked" => ~request.head /\ sound /\ Specs # << >>
  /\ main' = "parsing"
  /\ offset' = IF request.kind = "unpacked" THEN size ELSE 0
  /\ UNCHANGED <<input, answer, multipart, position, sent, client, crashed>>

\* serveContent is called; NewGzipSeeker has read the stream to its end and
\* started it again.
OpenContent ==
  /\ ~crashed /\ main = "checking" /\ ~request.fresh
  /\ request.kind = "unpacked" => ~request.head /\ sound /\ Specs # << >>
  /\ main' = "parsing"
  /\ UNCHANGED <<input, answer, multipart, content, sent, client, crashed>>

\* The bytes come to an end, or to the place where the stream is broken; the
\* error is not looked at.
EndStream ==
  /\ ~crashed /\ main = "streaming"
  /\ ~client \/ ~sound \/ offset = size
  /\ main' = "done"
  /\ UNCHANGED <<input, answer, multipart, content, sent, client, crashed>>

-----------------------------------------------------------------------------
(* serveContent *)

AllParsed == [i \in DOMAIN Specs |-> Parsed(Specs[i])]

Refuse ==
  /\ ~crashed /\ main = "parsing"
  /\ \E i \in DOMAIN Specs : Invalid(Specs[i])
  /\ Finish(416)

ParsesWell == ~crashed /\ main = "parsing" /\ \A i \in DOMAIN Specs : ~Invalid(Specs[i])

\* No Range header, or ranges that add up to more than there is.
ServeWhole ==
  /\ ParsesWell
  /\ Specs = << >> \/ SumRangesSize(AllParsed) > size
  /\ main' = "setting headers"
  /\ UNCHANGED <<input, answer, multipart, content, sent, client, crashed>>

ServeRange ==
  /\ ParsesWell /\ Len(Specs) = 1 /\ SumRangesSize(AllParsed) <= size
  /\ LET range == Parsed(Specs[1]) IN
       /\ ~SeekMustFail(range.start)
       /\ Seek(range.start)
       /\ sendSize' = range.length
  /\ ranges' = AllParsed
  /\ main' = "setting headers"
  /\ UNCHANGED <<input, code, declared, multipart, sent, client, crashed>>

CannotSeek ==
  /\ ParsesWell /\ Len(Specs) = 1 /\ SumRangesSize(AllParsed) <= size
  /\ SeekMayFail(Parsed(Specs[1]).start)
  /\ Finish(416)

\* A range that starts past the end got through: the error that is to be
\* reported is nil, and net/http ends the connection.
PanicOnRange ==
  /\ ParsesWell /\ Len(Specs) > 1 /\ SumRangesSize(AllParsed) <= size
  /\ \E i \in DOMAIN Specs : Parsed(Specs[i]).start > size
  /\ main' = "panicked"
  /\ UNCHANGED <<input, answer, multipart, content, sent, client, crashed>>

ServeRanges ==
  /\ ParsesWell /\ Len(Specs) > 1 /\ SumRangesSize(AllParsed) <= size
  /\ \A i \in DOMAIN Specs : Parsed(Specs[i]).start <= size
  /\ ranges' = AllParsed
  /\ sendSize' = RangesMIMESize(AllParsed)
  /\ pipe' = "open" /\ writer' = "starting part" /\ part' = 1
  /\ main' = "setting headers"
  /\ UNCHANGED <<input, code, declared, pending, content, sent, client, crashed>>

\* net/http ignores a Content-Length that is negative.
SetHeaders ==
  /\ ~crashed /\ main = "setting headers"
  /\ declared' = IF request.kind = "encoded" \/ sendSize < 0 THEN None ELSE sendSize
  /\ code' = IF ranges = << >> THEN 200 ELSE 206
  /\ main' = IF request.head THEN "closing" ELSE "copying"
  /\ UNCHANGED <<input, ranges, sendSize, multipart, content, sent, client, crashed>>

\* The writer looks for the type in the map while the handler adds to it.
HeadersRace ==
  /\ ~crashed /\ main = "setting headers" /\ writer = "starting part"
  /\ crashed' = TRUE
  /\ UNCHANGED <<input, main, answer, multipart, content, sent, client>>

\* io.Copy or io.CopyN sends a byte of the content.
CopyByte ==
  /\ ~crashed /\ client /\ offset < size
  /\ \/ main = "streaming"
     \/ main = "copying" /\ pipe = "none" /\ Len(sent) < sendSize
  /\ sent' = Append(sent, <<"byte", offset>>)
  /\ offset' = offset + 1 /\ position' = position + 1
  /\ UNCHANGED <<input, main, answer, multipart, client, crashed>>

\* io.CopyN sends what has come through the pipe.
CopyFromPipe ==
  /\ ~crashed /\ client /\ main = "copying" /\ pipe # "none"
  /\ pending # << >> /\ Len(sent) < sendSize
  /\ sent' = Append(sent, pending[1])
  /\ pending' = Tail(pending)
  /\ UNCHANGED <<input, main, answer, writer, part, pipe, content, client, crashed>>

\* CopyN has sent what it was told to, has come to the end, or cannot write.
EndCopy ==
  /\ ~crashed /\ main = "copying"
  /\ \/ ~client \/ Len(sent) >= sendSize
     \/ pipe = "none" /\ offset >= size
     \/ pipe = "written" /\ pending = << >>
  /\ main' = "closing"
  /\ UNCHANGED <<input, answer, multipart, content, sent, client, crashed>>

\* Mutant: the pipe is left open.
LeavePipe ==
  /\ ~crashed /\ main = "closing"
  /\ main' = "done"
  /\ UNCHANGED <<input, answer, multipart, content, sent, client, crashed>>

\* The deferred pr.Close, and the handler returns.
ClosePipe ==
  /\ ~crashed /\ main = "closing"
  /\ main' = "done"
  /\ pipe' = IF pipe = "none" THEN "none" ELSE "closed"
  /\ UNCHANGED <<input, answer, writer, part, pending, content, sent, client, crashed>>

ClientLeaves ==
  /\ ~crashed /\ client /\ Running
  /\ client' = FALSE
  /\ UNCHANGED <<input, main, answer, multipart, content, sent, crashed>>

-----------------------------------------------------------------------------
(* The goroutine that writes the parts *)

\* CreatePart, with the type of the response where the file's should be.
StartPart ==
  /\ ~crashed /\ writer = "starting part" /\ pipe = "open"
  /\ writer' = "writing head"
  /\ pending' = PartHead(part, HeadLength + growth)
  /\ UNCHANGED <<input, main, answer, part, pipe, content, sent, client, crashed>>

SeekPart ==
  /\ ~crashed /\ writer = "writing head" /\ pending = << >> /\ pipe = "open"
  /\ ~SeekMustFail(ranges[part].start)
  /\ Seek(ranges[part].start)
  /\ writer' = "at part"
  /\ UNCHANGED <<input, main, answer, part, pending, pipe, sent, client, crashed>>

\* CloseWithError.
CannotSeekPart ==
  /\ ~crashed /\ writer = "writing head" /\ pending = << >> /\ pipe = "open"
  /\ SeekMayFail(ranges[part].start)
  /\ pipe' = "written" /\ writer' = "broken off"
  /\ UNCHANGED <<input, main, answer, part, pending, content, sent, client, crashed>>

WritePart ==
  /\ ~crashed /\ writer = "at part" /\ pipe = "open"
  /\ pending' = Bytes(offset, ranges[part].length)
  /\ offset' = offset + Len(pending') /\ position' = position + Len(pending')
  /\ writer' = "writing part"
  /\ UNCHANGED <<input, main, answer, part, pipe, sent, client, crashed>>

\* Mutant: the loop over the ranges runs once too often.
NextPartPastEnd ==
  /\ ~crashed /\ writer = "writing part" /\ pending = << >> /\ pipe = "open"
  /\ part <= Len(ranges)
  /\ part' = part + 1
  /\ writer' = "starting part"
  /\ UNCHANGED <<input, main, answer, pending, pipe, content, sent, client, crashed>>

NextPart ==
  /\ ~crashed /\ writer = "writing part" /\ pending = << >> /\ pipe = "open"
  /\ part < Len(ranges)
  /\ part' = part + 1
  /\ writer' = "starting part"
  /\ UNCHANGED <<input, main, answer, pending, pipe, content, sent, client, crashed>>

WriteTrailer ==
  /\ ~crashed /\ writer = "writing part" /\ pending = << >> /\ pipe = "open"
  /\ part = Len(ranges)
  /\ pending' = Trailer
  /\ writer' = "writing trailer"
  /\ UNCHANGED <<input, main, answer, part, pipe, content, sent, client, crashed>>

EndParts ==
  /\ ~crashed /\ writer = "writing trailer" /\ pending = << >> /\ pipe = "open"
  /\ pipe' = "written" /\ writer' = "ended"
  /\ UNCHANGED <<input, main, answer, part, pending, content, sent, client, crashed>>

\* What the goroutine writes next fails once the pipe's reader is closed.
WriteFails ==
  /\ ~crashed /\ writer \notin Off /\ pipe = "closed"
  /\ writer' = "failed"
  /\ pending' = << >>
  /\ UNCHANGED <<input, main, answer, part, pipe, content, sent, client, crashed>>

-----------------------------------------------------------------------------

HandlerStep ==
  \/ NotModified \/ HeadUnpacked \/ CannotUnpack \/ StreamUnpacked \/ EndStream
  \/ OpenContent \/ Refuse \/ ServeWhole \/ ServeRange \/ CannotSeek
  \/ PanicOnRange \/ ServeRanges \/ SetHeaders \/ CopyByte \/ CopyFromPipe
  \/ EndCopy \/ ClosePipe

WriterStep ==
  \/ StartPart \/ SeekPart \/ CannotSeekPart \/ WritePart \/ NextPart
  \/ WriteTrailer \/ EndParts \/ WriteFails

Next == HandlerStep \/ WriterStep \/ HeadersRace \/ ClientLeaves

Spec == Init /\ [][Next]_vars

\* Both goroutines run; a client that reads no more is one that leaves in the
\* end, since its connection fails.
FairSpec == Spec /\ WF_vars(HandlerStep) /\ WF_vars(WriterStep)

-----------------------------------------------------------------------------
(* Properties *)

TypeOK ==
  /\ main \in {"checking", "streaming", "parsing", "setting headers", "copying",
               "closing", "done", "panicked"}
  /\ code \in {None, 200, 206, 304, 416, 500}
  /\ writer \in {"off", "starting part", "writing head", "at part", "writing part",
                 "writing trailer"} \cup Off
  /\ part \in 0..Len(Specs)
  /\ pipe \in {"none", "open", "written", "closed"}
  /\ position \in Nat /\ offset \in Nat
  /\ declared = None \/ declared \in Nat
  /\ client \in BOOLEAN /\ crashed \in BOOLEAN

\* What RFC 2616 means by a range, of the bytes there are.
Wanted(spec) ==
  {k \in 0..(size - 1) :
     IF spec.start = None THEN spec.end # None /\ k >= size - spec.end
     ELSE k >= spec.start /\ (spec.end # None => k <= spec.end)}

InOrder(ks) ==
  [i \in 1..Cardinality(ks) |->
     <<"byte", CHOOSE k \in ks : Cardinality({j \in ks : j < k}) = i - 1>>]

\* The first parts of a multipart response, without its trailer.
Parts[i \in 0..Len(Specs)] ==
  IF i = 0 THEN << >>
  ELSE Parts[i - 1] \o PartHead(i, HeadLength + growth) \o InOrder(Wanted(Specs[i]))

\* What a client should be sent, by the status it was given.
Expected ==
  IF code = 200 THEN Bytes(0, size)
  ELSE IF Len(Specs) = 1 THEN InOrder(Wanted(Specs[1]))
  ELSE Parts[Len(Specs)] \o Trailer

\* Whatever a client is sent is the bytes it asked for, each in its place: a
\* range that is clamped to the file, a seek backwards or forwards in a gzip
\* stream, and the parts that come through the pipe.
BytesAsAsked == sent # << >> => code \in {200, 206} /\ IsPrefix(sent, Expected)

\* A client that stays gets all of a file or of a range, and as much of a
\* multipart response as its Content-Length says.  Left out: gzip streams that
\* are broken, and a part that starts where one ends.
AnswerComplete ==
  main = "done" /\ client /\ ~crashed /\ ~request.head /\ sound
    /\ writer # "broken off" /\ code \in {200, 206}
  => /\ Len(ranges) <= 1 => sent = Expected
     /\ declared # None => Len(sent) = declared

\* A request is refused only if one of its ranges names no byte of the file,
\* and what is served of several ranges is never more than the file.
RefusedForCause ==
  /\ code = 416 \/ main = "panicked" => \E i \in DOMAIN Specs : Wanted(Specs[i]) = {}
  /\ SumRangesSize(ranges) <= size

\* The handler returns and the goroutine it started ends, even if the client
\* asked for the header only or leaves; unless the process has crashed.
NothingLeftRunning ==
  <>(crashed \/ (~Running /\ writer \in Off))
=============================================================================
