---------------------------- MODULE MCFileServing ----------------------------
(* FileServing over files of up to three bytes. *)
EXTENDS FileServing

UpToThree == 0..3
Numbers == 0..4

\* Two longer heads leave the trailer whole, cut it off, or cut more.
UpToTwo == 0..2

ByteRange(start, end) == [start |-> start, end |-> end]

\* bytes=start-end, bytes=start-, bytes=-end, and what cannot be read at all.
AnyRange ==
  {ByteRange(s, e) : s \in Numbers \cup {None}, e \in Numbers \cup {None}}

\* The first byte, all but the first, the last, one that ends too late, one
\* that starts at or past the end, one that names more than there is, one that
\* is no range, and one whose suffix is negative.
SomeRanges ==
  {ByteRange(0, 0), ByteRange(1, None), ByteRange(None, 1), ByteRange(2, 4), ByteRange(3, None),
   ByteRange(None, 4), ByteRange(2, 1), ByteRange(None, -1)}

RangeHeaders ==
  {<< >>} \cup {<<r>> : r \in AnyRange \cup {ByteRange(None, -1)}}
    \cup {<<r, s>> : r \in SomeRanges, s \in SomeRanges}

AllRequests ==
  {[kind |-> k, head |-> h, fresh |-> f, specs |-> s] :
     k \in {"plain", "encoded", "unpacked"}, h \in BOOLEAN, f \in {FALSE},
     s \in RangeHeaders}
  \cup {[kind |-> "plain", head |-> FALSE, fresh |-> TRUE, specs |-> << >>]}
=============================================================================
