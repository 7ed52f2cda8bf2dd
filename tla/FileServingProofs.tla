-------------------------- MODULE FileServingProofs --------------------------
(***************************************************************************)
(* Theorems about FileServing, for files of any size, requests with any    *)
(* ranges, and part heads and trailers of any length.                      *)
(***************************************************************************)
EXTENDS FileServing, SequenceTheorems, FiniteSetTheorems, WellFoundedInduction, TLAPS

-----------------------------------------------------------------------------
(* Recursive functions on an interval *)

LEMMA Least ==
  ASSUME NEW T, T \subseteq Nat, T # {}
  PROVE  \E m \in T : \A k \in T : m <= k
  <1>1. PICK m \in T : \A k \in T : <<k, m>> \notin OpToRel(<, Nat)
    BY WFMin, NatLessThanWellFounded, Zenon
  <1>2. \A k \in T : ~(k < m)
    BY <1>1, Zenon DEF OpToRel
  <1> QED
    BY <1>2

LEMMA IntervalInduction ==
  ASSUME NEW n \in Nat, NEW T, 0 \in T, \A m \in 0..(n - 1) : m \in T => m + 1 \in T
  PROVE  0..n \subseteq T
  <1>1. SUFFICES ASSUME (0..n) \ T # {} PROVE FALSE
    OBVIOUS
  <1>2. PICK m \in (0..n) \ T : \A k \in (0..n) \ T : m <= k
    <2>1. (0..n) \ T \subseteq Nat
      OBVIOUS
    <2> QED
      BY <1>1, <2>1, Least
  <1>3. m - 1 \in 0..(n - 1) /\ m - 1 \in T
    BY <1>2
  <1>4. (m - 1) + 1 \in T
    BY <1>3
  <1> QED
    BY <1>2, <1>4

\* A function on 0..n given by its first value and by each from the one before.
Recurs(F, n, V, b, step) ==
  /\ F \in [0..n -> V] /\ F[0] = b
  /\ \A i \in 1..n : F[i] = step[<<i, F[i - 1]>>]

LEMMA RecursionExists ==
  ASSUME NEW V, NEW b \in V, NEW n \in Nat, NEW step \in [(1..n) \X V -> V]
  PROVE  \E F : Recurs(F, n, V, b, step)
  <1> DEFINE T == {m \in 0..n : \E F : Recurs(F, m, V, b, step)}
  <1>1. 0 \in T
    <2>1. Recurs([i \in 0..0 |-> b], 0, V, b, step)
      BY DEF Recurs
    <2> QED
      BY <2>1
  <1>2. ASSUME NEW m \in 0..(n - 1), m \in T
        PROVE  m + 1 \in T
    <2>1. PICK F : Recurs(F, m, V, b, step)
      BY <1>2
    <2> DEFINE G == [i \in 0..(m + 1) |-> IF i = m + 1 THEN step[<<m + 1, F[m]>>] ELSE F[i]]
    <2>2. F[m] \in V /\ m + 1 \in 1..n
      BY <2>1 DEF Recurs
    <2>3. step[<<m + 1, F[m]>>] \in V
      BY <2>2
    <2>4. G \in [0..(m + 1) -> V]
      BY <2>1, <2>3 DEF Recurs
    <2>5. G[0] = b
      BY <2>1 DEF Recurs
    <2>6. ASSUME NEW i \in 1..(m + 1) PROVE G[i] = step[<<i, G[i - 1]>>]
      <3>1. CASE i = m + 1
        <4>1. i - 1 = m /\ m \in 0..(m + 1) /\ m # m + 1 /\ m + 1 \in 0..(m + 1)
          BY <3>1
        <4>2. G[m] = F[m] /\ G[m + 1] = step[<<m + 1, F[m]>>]
          BY <4>1
        <4> QED
          BY <3>1, <4>1, <4>2
      <3>2. CASE i # m + 1
        <4>1. i \in 1..m /\ i - 1 \in 0..m
          BY <3>2
        <4> QED
          BY <2>1, <4>1 DEF Recurs
      <3> QED
        BY <3>1, <3>2
    <2>7. Recurs(G, m + 1, V, b, step)
      BY <2>4, <2>5, <2>6 DEF Recurs
    <2> QED
      BY <2>2, <2>7
  <1> HIDE DEF T
  <1>3. 0..n \subseteq T
    BY <1>1, <1>2, IntervalInduction
  <1>4. n \in T
    BY <1>3
  <1> QED
    BY <1>4 DEF T

-----------------------------------------------------------------------------
(* Sums *)

Lengths == [start : Int, length : Int]

SumsOf(rs) ==
  CHOOSE sum :
    sum = [i \in 0..Len(rs) |-> IF i = 0 THEN 0 ELSE sum[i - 1] + rs[i].length]

LEMMA SumIsLast == \A rs : SumRangesSize(rs) = SumsOf(rs)[Len(rs)]
  BY DEF SumRangesSize, SumsOf

LEMMA SumsAdd ==
  ASSUME NEW rs \in Seq(Lengths)
  PROVE  /\ SumsOf(rs) \in [0..Len(rs) -> Int]
         /\ SumsOf(rs)[0] = 0
         /\ \A i \in 1..Len(rs) : SumsOf(rs)[i] = SumsOf(rs)[i - 1] + rs[i].length
  <1> DEFINE n == Len(rs)
             step == [p \in (1..n) \X Int |-> p[2] + rs[p[1]].length]
  <1>1. n \in Nat /\ \A i \in 1..n : rs[i].length \in Int
    <2>1. n \in Nat /\ \A i \in 1..n : rs[i] \in Lengths
      BY LenProperties, ElementOfSeq
    <2> QED
      BY <2>1 DEF Lengths
  <1>2. step \in [(1..n) \X Int -> Int]
    BY <1>1
  <1>3. PICK F : Recurs(F, n, Int, 0, step)
    <2> HIDE DEF step
    <2>1. 0 \in Int
      OBVIOUS
    <2> QED
      BY <1>1, <1>2, <2>1, RecursionExists
  <1>4. F = [i \in 0..n |-> IF i = 0 THEN 0 ELSE F[i - 1] + rs[i].length]
    <2>1. ASSUME NEW i \in 1..n PROVE F[i] = F[i - 1] + rs[i].length
      <3>1. i - 1 \in 0..n
        BY <1>1
      <3>2. <<i, F[i - 1]>> \in (1..n) \X Int
        BY <1>3, <3>1 DEF Recurs
      <3>3. F[i] = step[<<i, F[i - 1]>>]
        BY <1>3 DEF Recurs
      <3> QED
        BY <3>2, <3>3
    <2> QED
      BY <1>1, <1>3, <2>1 DEF Recurs
  <1>5. SumsOf(rs) = [i \in 0..n |-> IF i = 0 THEN 0 ELSE SumsOf(rs)[i - 1] + rs[i].length]
    BY <1>4 DEF SumsOf
  <1>6. \A i \in 0..n : SumsOf(rs)[i] \in Int
    <2> DEFINE T == {i \in 0..n : SumsOf(rs)[i] \in Int}
    <2>1. 0 \in T
      BY <1>1, <1>5
    <2>2. \A m \in 0..(n - 1) : m \in T => m + 1 \in T
      BY <1>1, <1>5
    <2> HIDE DEF T
    <2>3. 0..n \subseteq T
      BY <1>1, <2>1, <2>2, IntervalInduction
    <2> QED
      BY <2>3 DEF T
  <1> QED
    BY <1>1, <1>5, <1>6

-----------------------------------------------------------------------------
(* The inductive invariant *)

\* What a response is made of.
Items == {"byte", "head", "trailer"} \X Int

\* The variables, and how the pipe and its writer go together.
Inputs == request \in Requests /\ size \in Sizes /\ growth \in Growths

Places ==
  main \in {"checking", "streaming", "parsing", "setting headers", "copying",
            "closing", "done", "panicked"}

Codes == code = None \/ code \in {200, 206, 304, 416, 500}

Amounts == sendSize \in Int /\ (declared = None \/ declared \in Nat)

Flags == client \in BOOLEAN /\ crashed \in BOOLEAN

Streams ==
  /\ position \in Nat /\ offset = position
  /\ pending \in Seq(Items) /\ sent \in Seq(Items)

RangesSound == \A i \in DOMAIN Specs : ~Invalid(Specs[i])
RangesParsed == ranges = << >> \/ (ranges = AllParsed /\ RangesSound)

PipeAndWriter ==
  \/ pipe = "none" /\ writer = "off" /\ part = 0
  \/ /\ pipe \in {"open", "written", "closed"}
     /\ writer \in {"starting part", "writing head", "at part", "writing part",
                    "writing trailer", "ended", "failed", "broken off"}
     /\ part \in 1..Len(Specs) /\ Len(Specs) > 1
     /\ ranges # << >>

Shape == Inputs /\ Places /\ Codes /\ Amounts /\ Flags /\ Streams
         /\ RangesParsed /\ PipeAndWriter

\* The status and the length that have been declared.
Coded ==
  /\ main \in {"checking", "parsing", "setting headers"}
       => code = None /\ declared = None /\ sent = << >>
  /\ main \in {"checking", "parsing", "streaming"}
       => pipe = "none" /\ ranges = << >> /\ declared = None
  /\ main \in {"streaming", "copying", "closing"} \/ sent # << >> => code \in {200, 206}
  /\ code = 200 => ranges = << >>
  /\ code = 206 => ranges # << >>
  /\ declared # None => declared = sendSize

\* Without a pipe, the bytes from one place on.
First == IF ranges = << >> THEN 0 ELSE ranges[1].start

OneRun ==
  pipe = "none" =>
    /\ pending = << >>
    /\ sent = Bytes(First, Len(sent)) /\ offset = First + Len(sent)
    /\ sent # << >> => offset <= size /\ Len(sent) <= sendSize
    /\ IF ranges = << >> THEN sendSize = size
       ELSE Len(Specs) = 1 /\ sendSize = ranges[1].length

\* With one, what its writer has said so far.
Everything == Parts[Len(Specs)] \o Trailer

Said ==
  IF writer = "starting part" THEN Parts[part - 1]
  ELSE IF writer \in {"writing head", "at part", "broken off"}
  THEN Parts[part - 1] \o PartHead(part, HeadLength + growth)
  ELSE IF writer = "writing part" THEN Parts[part]
  ELSE Everything

ManyParts ==
  pipe # "none" =>
    /\ sendSize = RangesMIMESize(ranges)
    /\ sent # << >> => Len(sent) <= sendSize
    /\ IsPrefix(sent, Everything)
    /\ writer # "failed" => sent \o pending = Said
    /\ writer \in {"starting part", "at part", "ended", "failed", "broken off"}
         => pending = << >>
    /\ writer = "at part" => offset = ranges[part].start
    /\ pipe = "written" => writer \in {"ended", "broken off"}

\* A response is not ended before it is due.
EndedWell ==
  main \in {"closing", "done"} /\ code \in {200, 206} /\ client /\ ~request.head
    /\ sound /\ writer # "broken off"
  => Len(sent) >= sendSize \/ (pipe = "none" /\ offset >= size)

\* What was refused, and what was not.
Refused ==
  /\ code = 416 \/ main = "panicked" => \E i \in DOMAIN Specs : Wanted(Specs[i]) = {}
  /\ ranges # << >> => SumRangesSize(ranges) <= size

IInv == Shape /\ Coded /\ OneRun /\ ManyParts /\ EndedWell /\ Refused

-----------------------------------------------------------------------------
(* Ranges and the bytes they name *)

LEMMA Constants ==
  /\ \A n \in Sizes \cup Growths : n \in Nat
  /\ HeadLength \in Nat /\ TrailerLength \in Nat /\ None \notin Int
  BY ServingAssumption

\* parseRange finds the bytes that RFC 2616 means, in whatever form they are asked
\* for, and never goes past the end of the file.
LEMMA ParsedIsWanted ==
  ASSUME size \in Nat, NEW spec \in RangeSpecs, ~Invalid(spec)
  PROVE  LET r == Parsed(spec)
         IN  /\ r \in Lengths /\ r.start \in Nat /\ r.start + r.length <= size
             /\ Wanted(spec) = r.start..(r.start + r.length - 1)
  <1> DEFINE r == Parsed(spec)
  <1>1. /\ spec.start \in Nat \cup {None} /\ spec.end \in Int \cup {None}
        /\ None \notin Int
    BY Constants DEF RangeSpecs
  <1>2. CASE spec.start = None
    <2>1. spec.end \in Int
      BY <1>1, <1>2 DEF Invalid
    <2>2. /\ r.start = (IF spec.end > size THEN 0 ELSE size - spec.end)
          /\ r.length = size - r.start
      BY <1>1, <1>2, <2>1 DEF Parsed
    <2>3. r \in Lengths
      BY <1>2, <2>1, <2>2 DEF Parsed, Lengths
    <2>4. Wanted(spec) = {k \in 0..(size - 1) : k >= size - spec.end}
      BY <1>1, <1>2, <2>1 DEF Wanted
    <2> QED
      BY <2>1, <2>2, <2>3, <2>4
  <1>3. CASE spec.start # None
    <2>1. spec.start \in Nat /\ spec.start <= size
      BY <1>1, <1>3 DEF Invalid
    <2>2. CASE spec.end = None
      <3>1. r.start = spec.start /\ r.length = size - spec.start
        BY <1>3, <2>1, <2>2 DEF Parsed
      <3>2. r \in Lengths
        BY <1>3, <2>1, <2>2 DEF Parsed, Lengths
      <3>3. Wanted(spec) = {k \in 0..(size - 1) : k >= spec.start}
        BY <1>3, <2>2 DEF Wanted
      <3> QED
        BY <2>1, <3>1, <3>2, <3>3
    <2>3. CASE spec.end # None
      <3>1. spec.end \in Int /\ spec.start <= spec.end
        BY <1>1, <1>3, <2>1, <2>3 DEF Invalid
      <3>2. /\ r.start = spec.start
            /\ r.length = (IF spec.end >= size THEN size - 1 ELSE spec.end) - spec.start + 1
        BY <1>3, <2>1, <2>3 DEF Parsed
      <3>3. r \in Lengths
        BY <1>3, <2>1, <2>3, <3>1 DEF Parsed, Lengths
      <3>4. Wanted(spec) = {k \in 0..(size - 1) : k >= spec.start /\ k <= spec.end}
        BY <1>3, <2>3 DEF Wanted
      <3> QED
        BY <2>1, <3>1, <3>2, <3>3, <3>4
    <2> QED
      BY <2>2, <2>3
  <1> QED
    BY <1>2, <1>3

LEMMA BytesAreItems ==
  ASSUME NEW first \in Int, NEW length \in Int
  PROVE  /\ Bytes(first, length) \in Seq(Items)
         /\ Len(Bytes(first, length)) = IF length > 0 THEN length ELSE 0
         /\ \A i \in 1..length : Bytes(first, length)[i] = <<"byte", first + i - 1>>
  BY DEF Bytes, Items

\* The i-th of an interval is the one that many from its start.
LEMMA InOrderOfInterval ==
  ASSUME NEW first \in Int, NEW length \in Int
  PROVE  InOrder(first..(first + length - 1)) = Bytes(first, length)
  <1> DEFINE ks == first..(first + length - 1)
             n == IF length > 0 THEN length ELSE 0
  <1>1. Cardinality(ks) = n
    BY FS_Interval
  <1>2. ASSUME NEW k \in ks PROVE Cardinality({j \in ks : j < k}) = k - first
    <2> DEFINE before == {j \in ks : j < k}
    <2>1. before = first..(k - 1) /\ k \in Int /\ first <= k
      OBVIOUS
    <2>2. Cardinality(first..(k - 1)) = IF first > k - 1 THEN 0 ELSE (k - 1) - first + 1
      <3>1. k - 1 \in Int
        BY <2>1
      <3> QED
        BY <3>1, FS_Interval
    <2> HIDE DEF before
    <2>3. Cardinality(before) = k - first
      BY <2>1, <2>2
    <2> QED
      BY <2>3 DEF before
  <1> DEFINE nth(i) == CHOOSE k \in ks : Cardinality({j \in ks : j < k}) = i - 1
  <1>3. ASSUME NEW i \in 1..n PROVE nth(i) = first + i - 1
    <2>1. first + i - 1 \in ks /\ (first + i - 1) - first = i - 1
      OBVIOUS
    <2>2. \A k \in ks : k - first = i - 1 => k = first + i - 1
      OBVIOUS
    <2> HIDE DEF ks
    <2> QED
      BY <1>2, <2>1, <2>2
  <1>4. InOrder(ks) = [i \in 1..Cardinality(ks) |-> <<"byte", nth(i)>>]
    BY DEF InOrder
  <1> HIDE DEF ks, nth
  <1>5. InOrder(ks) = [i \in 1..n |-> <<"byte", first + i - 1>>]
    BY <1>1, <1>3, <1>4
  <1> QED
    BY <1>5 DEF Bytes, ks

LEMMA RequestFacts ==
  ASSUME Shape
  PROVE  /\ size \in Nat /\ growth \in Nat /\ HeadLength + growth \in Nat
         /\ HeadLength \in Nat /\ TrailerLength \in Nat
         /\ Specs \in Seq(RangeSpecs) /\ Len(Specs) \in Nat
         /\ DOMAIN Specs = 1..Len(Specs)
         /\ \A i \in 1..Len(Specs) : Specs[i] \in RangeSpecs
         /\ request.head \in BOOLEAN
  <1>1. size \in Nat /\ growth \in Nat /\ HeadLength \in Nat /\ TrailerLength \in Nat
    BY Constants DEF Shape, Inputs
  <1>2. request \in [kind : {"plain", "encoded", "unpacked"}, head : BOOLEAN,
                     fresh : BOOLEAN, specs : Seq(RangeSpecs)]
    BY ServingAssumption DEF Shape, Inputs
  <1>3. Specs \in Seq(RangeSpecs) /\ request.head \in BOOLEAN
    BY <1>2 DEF Specs
  <1>4. /\ Len(Specs) \in Nat /\ DOMAIN Specs = 1..Len(Specs)
        /\ \A i \in 1..Len(Specs) : Specs[i] \in RangeSpecs
    BY <1>3, LenProperties, ElementOfSeq
  <1> QED
    BY <1>1, <1>3, <1>4

LEMMA AllParsedFacts ==
  ASSUME Shape, RangesSound
  PROVE  /\ AllParsed \in Seq(Lengths) /\ Len(AllParsed) = Len(Specs)
         /\ \A i \in 1..Len(Specs) :
              LET r == AllParsed[i]
              IN  /\ r = Parsed(Specs[i])
                  /\ r.start \in Nat /\ r.length \in Int /\ r.start + r.length <= size
                  /\ InOrder(Wanted(Specs[i])) = Bytes(r.start, r.length)
  <1>1. ASSUME NEW i \in 1..Len(Specs)
        PROVE  LET r == Parsed(Specs[i])
               IN  /\ r \in Lengths /\ r.start \in Nat /\ r.length \in Int
                   /\ r.start + r.length <= size
                   /\ InOrder(Wanted(Specs[i])) = Bytes(r.start, r.length)
    <2> DEFINE r == Parsed(Specs[i])
    <2>1. Specs[i] \in RangeSpecs /\ ~Invalid(Specs[i]) /\ size \in Nat
      BY RequestFacts DEF RangesSound
    <2>2. /\ r \in Lengths /\ r.start \in Nat /\ r.start + r.length <= size
          /\ Wanted(Specs[i]) = r.start..(r.start + r.length - 1)
      BY <2>1, ParsedIsWanted
    <2> HIDE DEF r
    <2>3. r.start \in Int /\ r.length \in Int
      BY <2>2 DEF Lengths
    <2>4. InOrder(Wanted(Specs[i])) = Bytes(r.start, r.length)
      BY <2>2, <2>3, InOrderOfInterval
    <2>5. r \in Lengths /\ r.start \in Nat /\ r.length \in Int /\ r.start + r.length <= size
      BY <2>2, <2>3
    <2> QED
      BY <2>4, <2>5 DEF r
  <1>2. AllParsed = [i \in 1..Len(Specs) |-> Parsed(Specs[i])] /\ Len(Specs) \in Nat
    BY RequestFacts DEF AllParsed
  <1>3. \A i \in 1..Len(Specs) : Parsed(Specs[i]) \in Lengths
    BY <1>1
  <1>4. AllParsed \in Seq(Lengths) /\ Len(AllParsed) = Len(Specs)
    BY <1>2, <1>3
  <1>5. \A i \in 1..Len(Specs) : AllParsed[i] = Parsed(Specs[i])
    BY <1>2
  <1> QED
    BY <1>1, <1>4, <1>5

LEMMA HeadsAreItems ==
  ASSUME NEW i \in Int, NEW length \in Nat
  PROVE  PartHead(i, length) \in Seq(Items) /\ Len(PartHead(i, length)) = length
  BY DEF PartHead, Items

LEMMA TrailerIsItems == Trailer \in Seq(Items) /\ Len(Trailer) = TrailerLength
  BY Constants DEF Trailer, Items

LEMMA PartsJoin ==
  ASSUME Shape, RangesSound
  PROVE  /\ Parts \in [0..Len(Specs) -> Seq(Items)]
         /\ Parts[0] = << >>
         /\ \A i \in 1..Len(Specs) :
              Parts[i] = Parts[i - 1] \o PartHead(i, HeadLength + growth)
                           \o Bytes(AllParsed[i].start, AllParsed[i].length)
  <1> DEFINE n == Len(Specs)
             head(i) == PartHead(i, HeadLength + growth)
             body(i) == InOrder(Wanted(Specs[i]))
             step == [p \in (1..n) \X Seq(Items) |-> p[2] \o head(p[1]) \o body(p[1])]
  <1>1. n \in Nat /\ \A i \in 1..n : head(i) \in Seq(Items)
    BY RequestFacts, HeadsAreItems
  <1>2. \A i \in 1..n : body(i) = Bytes(AllParsed[i].start, AllParsed[i].length)
                        /\ body(i) \in Seq(Items)
    <2> SUFFICES ASSUME NEW i \in 1..n
                 PROVE  /\ body(i) = Bytes(AllParsed[i].start, AllParsed[i].length)
                        /\ body(i) \in Seq(Items)
      OBVIOUS
    <2>1. /\ body(i) = Bytes(AllParsed[i].start, AllParsed[i].length)
          /\ AllParsed[i].start \in Int /\ AllParsed[i].length \in Int
      BY AllParsedFacts
    <2> QED
      BY <2>1, BytesAreItems
  <1>3. Parts = CHOOSE parts : parts = [i \in 0..n |-> IF i = 0 THEN << >>
                                          ELSE parts[i - 1] \o head(i) \o body(i)]
    BY DEF Parts
  <1> HIDE DEF head, body, n
  <1>4. step \in [(1..n) \X Seq(Items) -> Seq(Items)]
    BY <1>1, <1>2
  <1>5. PICK F : Recurs(F, n, Seq(Items), << >>, step)
    <2> HIDE DEF step
    <2>1. << >> \in Seq(Items)
      BY EmptySeq
    <2> QED
      BY <1>1, <1>4, <2>1, RecursionExists
  <1>6. F = [i \in 0..n |-> IF i = 0 THEN << >> ELSE F[i - 1] \o head(i) \o body(i)]
    <2>1. ASSUME NEW i \in 1..n PROVE F[i] = F[i - 1] \o head(i) \o body(i)
      <3>1. i - 1 \in 0..n
        BY <1>1
      <3>2. <<i, F[i - 1]>> \in (1..n) \X Seq(Items)
        BY <1>5, <3>1 DEF Recurs
      <3>3. F[i] = step[<<i, F[i - 1]>>]
        BY <1>5 DEF Recurs
      <3> QED
        BY <3>2, <3>3
    <2> DEFINE next(i) == F[i - 1] \o head(i) \o body(i)
    <2>2. \A i \in 1..n : F[i] = next(i)
      BY <2>1
    <2> HIDE DEF next
    <2>3. F = [i \in 0..n |-> IF i = 0 THEN << >> ELSE next(i)]
      BY <1>1, <1>5, <2>2 DEF Recurs
    <2> QED
      BY <2>3 DEF next
  <1>7. Parts = [i \in 0..n |-> IF i = 0 THEN << >> ELSE Parts[i - 1] \o head(i) \o body(i)]
    BY <1>3, <1>6
  <1>8. \A i \in 1..n : Parts[i] = Parts[i - 1] \o head(i) \o body(i)
    <2> DEFINE next(i) == Parts[i - 1] \o head(i) \o body(i)
    <2>1. Parts = [i \in 0..n |-> IF i = 0 THEN << >> ELSE next(i)]
      BY <1>7
    <2> HIDE DEF next
    <2>2. \A i \in 1..n : Parts[i] = next(i)
      BY <1>1, <2>1
    <2> QED
      BY <2>2 DEF next
  <1>9. \A i \in 0..n : Parts[i] \in Seq(Items)
    <2> DEFINE T == {i \in 0..n : Parts[i] \in Seq(Items)}
    <2>1. 0 \in T
      BY <1>1, <1>7, EmptySeq
    <2>2. ASSUME NEW m \in 0..(n - 1), m \in T PROVE m + 1 \in T
      <3>1. m + 1 \in 1..n /\ (m + 1) - 1 = m /\ Parts[m] \in Seq(Items)
        BY <1>1, <2>2
      <3>2. Parts[m + 1] = Parts[m] \o head(m + 1) \o body(m + 1)
        BY <1>8, <3>1
      <3>3. head(m + 1) \in Seq(Items) /\ body(m + 1) \in Seq(Items)
        BY <1>1, <1>2, <3>1
      <3>4. Parts[m + 1] \in Seq(Items)
        BY <3>1, <3>2, <3>3, ConcatProperties
      <3> QED
        BY <1>1, <3>1, <3>4
    <2> HIDE DEF T
    <2>3. 0..n \subseteq T
      BY <1>1, <2>1, <2>2, IntervalInduction
    <2> QED
      BY <2>3 DEF T
  <1>10. Parts \in [0..n -> Seq(Items)] /\ Parts[0] = << >>
    BY <1>1, <1>7, <1>9
  <1> QED
    BY <1>2, <1>8, <1>10 DEF head, n

-----------------------------------------------------------------------------
(* What is said of a multipart response, part by part *)

LEMMA PrefixMeans ==
  ASSUME NEW S, NEW s \in Seq(S), NEW t \in Seq(S)
  PROVE  IsPrefix(s, t) <=> Len(s) <= Len(t) /\ \A i \in 1..Len(s) : s[i] = t[i]
  <1>1. Len(s) \in Nat /\ Len(t) \in Nat
    OBVIOUS
  <1>2. ASSUME Len(s) <= Len(t)
        PROVE  /\ SubSeq(s, 1, Len(s)) = s
               /\ SubSeq(t, 1, Len(s)) \in Seq(S) /\ Len(SubSeq(t, 1, Len(s))) = Len(s)
               /\ \A i \in 1..Len(s) : SubSeq(t, 1, Len(s))[i] = t[i]
    <2>1. SubSeq(s, 1, Len(s)) = s
      BY SubSeqFull
    <2>2. \A i \in 1..Len(s) : t[i] \in S
      BY <1>1, <1>2, ElementOfSeq
    <2> QED
      BY <1>1, <2>1, <2>2, SubSeqProperties
  <1>3. IsPrefix(s, t) <=> Len(s) <= Len(t) /\ SubSeq(s, 1, Len(s)) = SubSeq(t, 1, Len(s))
    BY DEF IsPrefix
  <1> QED
    BY <1>1, <1>2, <1>3, SeqEqual

LEMMA PrefixOfConcat ==
  ASSUME NEW S, NEW s \in Seq(S), NEW t \in Seq(S)
  PROVE  IsPrefix(s, s \o t)
  <1>1. /\ s \o t \in Seq(S) /\ Len(s) <= Len(s \o t)
        /\ \A i \in 1..Len(s) : s[i] = (s \o t)[i]
    OBVIOUS
  <1> QED
    BY <1>1, PrefixMeans

LEMMA PrefixTransitive ==
  ASSUME NEW S, NEW s \in Seq(S), NEW t \in Seq(S), NEW v \in Seq(S),
         IsPrefix(s, t), IsPrefix(t, v)
  PROVE  IsPrefix(s, v)
  <1>1. Len(s) \in Nat /\ Len(t) \in Nat /\ Len(v) \in Nat
    OBVIOUS
  <1>2. Len(s) <= Len(t) /\ \A i \in 1..Len(s) : s[i] = t[i]
    BY PrefixMeans
  <1>3. Len(t) <= Len(v) /\ \A i \in 1..Len(t) : t[i] = v[i]
    BY PrefixMeans
  <1>4. Len(s) <= Len(v) /\ \A i \in 1..Len(s) : s[i] = v[i]
    BY <1>1, <1>2, <1>3
  <1> QED
    BY <1>4, PrefixMeans

\* A part in full, and up to its bytes.
LEMMA PartGrows ==
  ASSUME Shape, RangesSound, NEW i \in 1..Len(Specs)
  PROVE  /\ Parts[i - 1] \in Seq(Items) /\ Parts[i] \in Seq(Items)
         /\ Parts[i - 1] \o PartHead(i, HeadLength + growth) \in Seq(Items)
         /\ IsPrefix(Parts[i - 1], Parts[i - 1] \o PartHead(i, HeadLength + growth))
         /\ IsPrefix(Parts[i - 1] \o PartHead(i, HeadLength + growth), Parts[i])
         /\ IsPrefix(Parts[i - 1], Parts[i])
         /\ Len(Parts[i]) >= Len(Parts[i - 1]) + HeadLength + AllParsed[i].length
  <1> DEFINE before == Parts[i - 1]
             head == PartHead(i, HeadLength + growth)
             body == Bytes(AllParsed[i].start, AllParsed[i].length)
  <1>1. i - 1 \in 0..Len(Specs) /\ i \in 0..Len(Specs) /\ i \in Int
    BY RequestFacts
  <1>2. before \in Seq(Items) /\ Parts[i] \in Seq(Items) /\ Parts[i] = before \o head \o body
    BY <1>1, PartsJoin
  <1>3. /\ head \in Seq(Items) /\ Len(head) = HeadLength + growth
        /\ growth \in Nat /\ HeadLength \in Nat
    BY <1>1, RequestFacts, HeadsAreItems
  <1>4. AllParsed[i].start \in Int /\ AllParsed[i].length \in Int
    BY AllParsedFacts
  <1>5. /\ body \in Seq(Items)
        /\ Len(body) = IF AllParsed[i].length > 0 THEN AllParsed[i].length ELSE 0
    BY <1>4, BytesAreItems
  <1> HIDE DEF before, head, body
  <1>6. before \o head \in Seq(Items) /\ Len(before \o head) = Len(before) + Len(head)
    BY <1>2, <1>3
  <1>7. Len(before \o head \o body) = Len(before \o head) + Len(body)
    BY <1>5, <1>6
  <1>8. IsPrefix(before, before \o head) /\ IsPrefix(before \o head, Parts[i])
    BY <1>2, <1>3, <1>5, <1>6, PrefixOfConcat
  <1>9. IsPrefix(before, Parts[i])
    BY <1>2, <1>6, <1>8, PrefixTransitive
  <1>10. Len(Parts[i]) >= Len(before) + HeadLength + AllParsed[i].length
    <2>1. Len(before) \in Nat /\ Len(head) \in Nat /\ Len(body) \in Nat
      BY <1>2, <1>3, <1>5
    <2> QED
      BY <1>2, <1>3, <1>4, <1>5, <1>6, <1>7, <2>1
  <1> QED
    BY <1>2, <1>6, <1>8, <1>9, <1>10 DEF before, head

LEMMA PartsArePrefixes ==
  ASSUME Shape, RangesSound, NEW i \in 0..Len(Specs)
  PROVE  IsPrefix(Parts[i], Parts[Len(Specs)])
  <1> DEFINE n == Len(Specs)
             T == {m \in 0..(n - i) : IsPrefix(Parts[i], Parts[i + m])}
  <1>1. n \in Nat /\ i \in Nat /\ n - i \in Nat
    BY RequestFacts
  <1>2. \A m \in 0..n : Parts[m] \in Seq(Items)
    BY PartsJoin
  <1>3. 0 \in T
    <2>1. i + 0 = i /\ IsPrefix(Parts[i], Parts[i])
      BY <1>1, <1>2, PrefixMeans
    <2> QED
      BY <1>1, <2>1
  <1>4. ASSUME NEW m \in 0..((n - i) - 1), m \in T PROVE m + 1 \in T
    <2>1. /\ i + m \in 0..n /\ i + (m + 1) \in 1..n /\ (i + (m + 1)) - 1 = i + m
          /\ i + (m + 1) \in 0..n /\ m + 1 \in 0..(n - i)
      BY <1>1
    <2>2. IsPrefix(Parts[i + m], Parts[i + (m + 1)])
      BY <2>1, PartGrows
    <2>3. IsPrefix(Parts[i], Parts[i + m])
      BY <1>4
    <2>4. IsPrefix(Parts[i], Parts[i + (m + 1)])
      BY <1>2, <2>1, <2>2, <2>3, PrefixTransitive
    <2> QED
      BY <2>1, <2>4
  <1> HIDE DEF T
  <1>5. 0..(n - i) \subseteq T
    BY <1>1, <1>3, <1>4, IntervalInduction
  <1>6. n - i \in T /\ i + (n - i) = n
    BY <1>1, <1>5
  <1> QED
    BY <1>6 DEF T

LEMMA PartsAreLongEnough ==
  ASSUME Shape, RangesSound
  PROVE  \A i \in 0..Len(Specs) :
           Len(Parts[i]) >= SumsOf(AllParsed)[i] + i * HeadLength
  <1> DEFINE n == Len(Specs)
             sum == SumsOf(AllParsed)
             T == {i \in 0..n : Len(Parts[i]) >= sum[i] + i * HeadLength}
  <1>1. n \in Nat /\ HeadLength \in Nat
    BY RequestFacts
  <1>2. /\ sum \in [0..n -> Int] /\ sum[0] = 0
        /\ \A i \in 1..n : sum[i] = sum[i - 1] + AllParsed[i].length
    BY AllParsedFacts, SumsAdd
  <1> HIDE DEF sum
  <1>3. 0 \in T
    <2>1. Parts[0] = << >> /\ Len(<< >>) = 0 /\ 0 * HeadLength = 0
      BY <1>1, PartsJoin
    <2> QED
      BY <1>1, <1>2, <2>1
  <1>4. ASSUME NEW m \in 0..(n - 1), m \in T PROVE m + 1 \in T
    <2>1. m + 1 \in 1..n /\ m + 1 \in 0..n /\ (m + 1) - 1 = m /\ m \in 0..n
      BY <1>1
    <2>2. /\ Len(Parts[m + 1]) >= Len(Parts[m]) + HeadLength + AllParsed[m + 1].length
          /\ Parts[m] \in Seq(Items) /\ Parts[m + 1] \in Seq(Items)
      BY <2>1, PartGrows
    <2>3. sum[m + 1] = sum[m] + AllParsed[m + 1].length /\ AllParsed[m + 1].length \in Int
      BY <1>2, <2>1, AllParsedFacts
    <2>4. (m + 1) * HeadLength = m * HeadLength + HeadLength
      BY <1>1
    <2>5. m * HeadLength \in Int /\ Len(Parts[m]) >= sum[m] + m * HeadLength
      BY <1>1, <1>4
    <2>6. sum[m] \in Int /\ Len(Parts[m]) \in Int /\ Len(Parts[m + 1]) \in Int
      BY <1>2, <2>1, <2>2
    <2>7. Len(Parts[m + 1]) >= sum[m + 1] + (m + 1) * HeadLength
      BY <1>1, <2>2, <2>3, <2>4, <2>5, <2>6
    <2> QED
      BY <2>1, <2>7
  <1> HIDE DEF T
  <1>5. 0..n \subseteq T
    BY <1>1, <1>3, <1>4, IntervalInduction
  <1> QED
    BY <1>5 DEF T, sum

\* The response is no shorter than the length declared for it.
LEMMA EverythingIsEnough ==
  ASSUME Shape, RangesSound
  PROVE  /\ Everything \in Seq(Items)
         /\ Len(Everything) >= RangesMIMESize(AllParsed)
         /\ RangesMIMESize(AllParsed) \in Int
         /\ IsPrefix(Parts[Len(Specs)], Everything)
  <1> DEFINE n == Len(Specs)
  <1>1. n \in Nat /\ HeadLength \in Nat /\ TrailerLength \in Nat /\ n \in 0..n
    BY RequestFacts
  <1>2. Parts[n] \in Seq(Items)
    BY <1>1, PartsJoin
  <1>3. Len(Everything) = Len(Parts[n]) + TrailerLength /\ Everything \in Seq(Items)
    BY <1>2, TrailerIsItems DEF Everything
  <1>4. SumsOf(AllParsed)[n] \in Int /\ Len(AllParsed) = n
    BY <1>1, AllParsedFacts, SumsAdd
  <1>5. RangesMIMESize(AllParsed) = SumsOf(AllParsed)[n] + n * HeadLength + TrailerLength
    BY <1>4, SumIsLast DEF RangesMIMESize
  <1>6. Len(Parts[n]) >= SumsOf(AllParsed)[n] + n * HeadLength
    BY <1>1, PartsAreLongEnough
  <1>7. n * HeadLength \in Int /\ Len(Parts[n]) \in Int
    BY <1>1, <1>2
  <1>8. IsPrefix(Parts[n], Everything)
    BY <1>2, TrailerIsItems, PrefixOfConcat DEF Everything
  <1> QED
    BY <1>1, <1>3, <1>4, <1>5, <1>6, <1>7, <1>8

LEMMA SaidIsPrefix ==
  ASSUME Shape, RangesSound, pipe # "none"
  PROVE  Said \in Seq(Items) /\ IsPrefix(Said, Everything)
  <1> DEFINE n == Len(Specs)
  <1>1. n \in Nat /\ n \in 0..n /\ part \in 1..n /\ part - 1 \in 0..n /\ part \in 0..n
    <2>1. part \in 1..n
      BY DEF Shape, PipeAndWriter
    <2> QED
      BY <2>1, RequestFacts
  <1>2. /\ Parts[part - 1] \in Seq(Items) /\ Parts[part] \in Seq(Items)
        /\ Parts[part - 1] \o PartHead(part, HeadLength + growth) \in Seq(Items)
        /\ IsPrefix(Parts[part - 1] \o PartHead(part, HeadLength + growth), Parts[part])
    BY <1>1, PartGrows
  <1>3. /\ Everything \in Seq(Items) /\ IsPrefix(Parts[n], Everything)
        /\ Parts[n] \in Seq(Items)
    BY <1>1, EverythingIsEnough, PartsJoin
  <1>4. IsPrefix(Parts[part - 1], Parts[n]) /\ IsPrefix(Parts[part], Parts[n])
    BY <1>1, PartsArePrefixes
  <1>5. IsPrefix(Parts[part - 1], Everything) /\ IsPrefix(Parts[part], Everything)
    BY <1>2, <1>3, <1>4, PrefixTransitive
  <1>6. IsPrefix(Parts[part - 1] \o PartHead(part, HeadLength + growth), Everything)
    BY <1>2, <1>3, <1>5, PrefixTransitive
  <1>7. IsPrefix(Everything, Everything)
    BY <1>3, PrefixMeans
  <1> QED
    BY <1>2, <1>3, <1>5, <1>6, <1>7 DEF Said

-----------------------------------------------------------------------------
(* Steps *)

\* No step changes the request or the file.
LEMMA InputKept ==
  ASSUME [Next]_vars
  PROVE  request' = request /\ size' = size /\ growth' = growth /\ sound' = sound
  <1>1. CASE HandlerStep
    BY <1>1 DEF HandlerStep, input, Finish, NotModified, HeadUnpacked, CannotUnpack,
       StreamUnpacked, EndStream, OpenContent, Refuse, ServeWhole, ServeRange, CannotSeek,
       PanicOnRange, ServeRanges, SetHeaders, CopyByte, CopyFromPipe, EndCopy, ClosePipe
  <1>2. CASE WriterStep
    BY <1>2 DEF WriterStep, input, StartPart, SeekPart, CannotSeekPart, WritePart,
       NextPart, WriteTrailer, EndParts, WriteFails
  <1>3. CASE HeadersRace \/ ClientLeaves \/ UNCHANGED vars
    BY <1>3 DEF HeadersRace, ClientLeaves, vars, input
  <1> QED
    BY <1>1, <1>2, <1>3 DEF Next

\* What depends on nothing else.
WantedIn(spec, n) ==
  {k \in 0..(n - 1) :
     IF spec.start = None THEN spec.end # None /\ k >= n - spec.end
     ELSE k >= spec.start /\ (spec.end # None => k <= spec.end)}

PartsOf(specs, n, length) ==
  CHOOSE parts : parts =
    [i \in 0..Len(specs) |->
       IF i = 0 THEN << >>
       ELSE parts[i - 1] \o PartHead(i, length) \o InOrder(WantedIn(specs[i], n))]

ParsedIn(specs, n) ==
  [i \in DOMAIN specs |->
     LET spec == specs[i]
         start == IF spec.start # None THEN spec.start
                  ELSE IF spec.end > n THEN 0 ELSE n - spec.end
         last == IF spec.start = None \/ spec.end = None \/ spec.end >= n
                 THEN n - 1 ELSE spec.end
     IN [start |-> start, length |-> last - start + 1]]

LEMMA DependKept ==
  ASSUME request' = request, size' = size, growth' = growth
  PROVE  /\ Specs' = Specs /\ Parts' = Parts /\ Everything' = Everything
         /\ AllParsed' = AllParsed /\ (RangesSound' <=> RangesSound)
         /\ \A i : Wanted(Specs[i])' = Wanted(Specs[i])
  <1>1. Specs' = Specs
    BY DEF Specs
  <1>2. Parts = PartsOf(Specs, size, HeadLength + growth)
    BY DEF Parts, PartsOf, Wanted, WantedIn
  <1>3. Parts' = PartsOf(Specs', size', HeadLength + growth')
    BY DEF Parts, PartsOf, Wanted, WantedIn
  <1>4. AllParsed = ParsedIn(Specs, size)
    BY DEF AllParsed, Parsed, ParsedIn
  <1>5. AllParsed' = ParsedIn(Specs', size')
    BY DEF AllParsed, Parsed, ParsedIn
  <1>6. Parts' = Parts /\ AllParsed' = AllParsed
    BY <1>1, <1>2, <1>3, <1>4, <1>5
  <1>7. RangesSound' <=> RangesSound
    BY <1>1 DEF RangesSound, Invalid
  <1>8. \A i : Wanted(Specs[i])' = Wanted(Specs[i])
    BY <1>1 DEF Wanted
  <1> QED
    BY <1>1, <1>6, <1>7, <1>8 DEF Everything

LEMMA InitIInv == Init => IInv
  <1> SUFFICES ASSUME Init PROVE IInv
    OBVIOUS
  <1>1. size \in Nat
    BY Constants DEF Init
  <1>2. PipeAndWriter /\ RangesParsed
    BY DEF Init, PipeAndWriter, RangesParsed
  <1>8. Inputs /\ Places /\ Codes /\ Amounts
    BY <1>1 DEF Init, Inputs, Places, Codes, Amounts
  <1>9. Flags
    BY DEF Init, Flags
  <1>3. Streams
    BY EmptySeq DEF Init, Streams
  <1>4. Coded /\ EndedWell /\ ManyParts
    BY Constants DEF Init, Coded, EndedWell, ManyParts
  <1>5. Bytes(0, 0) = << >> /\ Len(<< >>) = 0
    BY DEF Bytes
  <1>6. OneRun
    BY <1>1, <1>5 DEF Init, OneRun, First
  <1>7. Refused
    BY Constants DEF Init, Refused
  <1> QED
    BY <1>2, <1>3, <1>4, <1>6, <1>7, <1>8, <1>9 DEF IInv, Shape

\* Where a seek leaves the content, for as long as its two readers agree.
LEMMA SeekArrives ==
  ASSUME NEW to \in Nat, Streams, Seek(to)
  PROVE  position' = to /\ offset' = to
  BY DEF Seek, Streams

\* What parsing well leads to.
LEMMA ParsedFacts ==
  ASSUME Shape, ParsesWell
  PROVE  /\ RangesSound
         /\ \A i \in 1..Len(Specs) :
              /\ AllParsed[i] = Parsed(Specs[i])
              /\ AllParsed[i].start \in Nat /\ AllParsed[i].length \in Int
         /\ Len(AllParsed) = Len(Specs)
         /\ Specs # << >> => AllParsed # << >>
         /\ Specs # << >> <=> Len(Specs) # 0
         /\ Len(Specs) \in Nat
  <1>1. RangesSound
    BY DEF ParsesWell, RangesSound
  <1>2. Len(Specs) \in Nat /\ (Specs # << >> <=> Len(Specs) # 0)
    BY RequestFacts
  <1>3. AllParsed \in Seq(Lengths) /\ Len(AllParsed) = Len(Specs)
    BY <1>1, AllParsedFacts
  <1>4. Specs # << >> => AllParsed # << >>
    BY <1>2, <1>3
  <1> QED
    BY <1>1, <1>2, <1>3, <1>4, AllParsedFacts

LEMMA RangesStay ==
  ASSUME RangesParsed, [Next]_vars, ranges' = ranges
  PROVE  RangesParsed'
  BY InputKept, DependKept DEF RangesParsed

\* The byte ranges that the goroutine writes.
LEMMA WriterFacts ==
  ASSUME Shape, pipe # "none"
  PROVE  /\ ranges = AllParsed /\ RangesSound /\ Len(ranges) = Len(Specs)
         /\ part \in 1..Len(Specs) /\ part \in Int /\ Len(Specs) \in Nat
         /\ ranges[part].start \in Nat /\ ranges[part].length \in Int
  <1>1. part \in 1..Len(Specs) /\ ranges # << >>
    BY DEF Shape, PipeAndWriter
  <1>2. ranges = AllParsed /\ RangesSound
    BY <1>1 DEF Shape, RangesParsed
  <1> QED
    BY <1>1, <1>2, AllParsedFacts, RequestFacts

LEMMA StepInputs ==
  ASSUME Inputs, [Next]_vars
  PROVE  Inputs'
  BY InputKept DEF Inputs

LEMMA StepPlaces ==
  ASSUME Places, [Next]_vars
  PROVE  Places'
  BY DEF Places, Next, HandlerStep, WriterStep, NotModified, HeadUnpacked,
     CannotUnpack, StreamUnpacked, EndStream, OpenContent, Refuse, ServeWhole, ServeRange,
     CannotSeek, PanicOnRange, ServeRanges, SetHeaders, CopyByte, CopyFromPipe, EndCopy,
     ClosePipe, StartPart, SeekPart, CannotSeekPart, WritePart, NextPart, WriteTrailer,
     EndParts, WriteFails, HeadersRace, ClientLeaves, Finish, vars

LEMMA StepCodes ==
  ASSUME Codes, [Next]_vars
  PROVE  Codes'
  <1>1. code' = code \/ code' \in {200, 206, 304, 416, 500}
    BY DEF Next, HandlerStep, WriterStep, NotModified, HeadUnpacked, answer,
       CannotUnpack, StreamUnpacked, EndStream, OpenContent, Refuse, ServeWhole, ServeRange,
       CannotSeek, PanicOnRange, ServeRanges, SetHeaders, CopyByte, CopyFromPipe, EndCopy,
       ClosePipe, StartPart, SeekPart, CannotSeekPart, WritePart, NextPart, WriteTrailer,
       EndParts, WriteFails, HeadersRace, ClientLeaves, Finish, vars
  <1> QED
    BY <1>1 DEF Codes

LEMMA StepAmounts ==
  ASSUME Shape, [Next]_vars
  PROVE  Amounts'
  <1> USE DEF input, answer, multipart, content
  <1>0. Amounts
    BY DEF Shape
  <1>1. CASE ServeRange
    <2>1. Parsed(Specs[1]).length \in Int
      <3>1. ParsesWell /\ Len(Specs) = 1
        BY <1>1 DEF ServeRange
      <3>2. 1 \in 1..Len(Specs)
        BY <3>1
      <3> QED
        BY <3>1, <3>2, ParsedFacts
    <2>2. declared' = declared /\ sendSize' = Parsed(Specs[1]).length
      BY <1>1 DEF ServeRange
    <2> QED
      BY <1>0, <2>1, <2>2 DEF Amounts
  <1>2. CASE ServeRanges
    <2>0. ParsesWell /\ declared' = declared /\ sendSize' = RangesMIMESize(AllParsed)
      BY <1>2 DEF ServeRanges
    <2>1. RangesMIMESize(AllParsed) \in Int
      BY <2>0, ParsedFacts, EverythingIsEnough
    <2> QED
      BY <1>0, <2>0, <2>1 DEF Amounts
  <1>3. CASE SetHeaders
    <2>1. /\ sendSize' = sendSize
          /\ declared' = None \/ (declared' = sendSize /\ ~(sendSize < 0))
      BY <1>3 DEF SetHeaders
    <2> QED
      BY <1>0, <2>1 DEF Amounts
  <1>4. CASE ~(ServeRange \/ ServeRanges \/ SetHeaders)
    <2>1. sendSize' = sendSize /\ declared' = declared
      BY <1>4 DEF Next, HandlerStep, WriterStep, NotModified, HeadUnpacked,
         CannotUnpack, StreamUnpacked, EndStream, OpenContent, Refuse, ServeWhole,
         CannotSeek, PanicOnRange, CopyByte, CopyFromPipe, EndCopy, ClosePipe,
         StartPart, SeekPart, CannotSeekPart, WritePart, NextPart, WriteTrailer, EndParts,
         WriteFails, HeadersRace, ClientLeaves, Finish, vars
    <2> QED
      BY <1>0, <2>1 DEF Amounts
  <1> QED
    BY <1>1, <1>2, <1>3, <1>4

LEMMA StepFlags ==
  ASSUME Flags, [Next]_vars
  PROVE  Flags'
  BY DEF Flags, Next, HandlerStep, WriterStep, NotModified, HeadUnpacked,
     CannotUnpack, StreamUnpacked, EndStream, OpenContent, Refuse, ServeWhole, ServeRange,
     CannotSeek, PanicOnRange, ServeRanges, SetHeaders, CopyByte, CopyFromPipe, EndCopy,
     ClosePipe, StartPart, SeekPart, CannotSeekPart, WritePart, NextPart, WriteTrailer,
     EndParts, WriteFails, HeadersRace, ClientLeaves, Finish, vars

LEMMA StepStreams ==
  ASSUME IInv, [Next]_vars
  PROVE  Streams'
  <1> USE DEF IInv, Shape, input, answer, multipart, content
  <1>1. CASE /\ position' = position /\ offset' = offset
             /\ pending' = pending /\ sent' = sent
    BY <1>1 DEF Streams
  <1>2. CASE ServeRange
    <2>1. Parsed(Specs[1]).start \in Nat
      <3>0. ParsesWell /\ Len(Specs) = 1
        BY <1>2 DEF ServeRange
      <3>1. ParsesWell /\ 1 \in 1..Len(Specs)
        BY <3>0
      <3> QED
        BY <3>1, ParsedFacts
    <2>2. /\ position' = Parsed(Specs[1]).start /\ offset' = Parsed(Specs[1]).start
          /\ pending' = pending /\ sent' = sent
      BY <1>2, <2>1, SeekArrives DEF ServeRange
    <2> QED
      BY <2>1, <2>2 DEF Streams
  <1>3. CASE CopyByte
    <2>1. offset \in Nat /\ offset = position
      BY DEF Streams
    <2>2. <<"byte", offset>> \in Items
      BY <2>1 DEF Items
    <2> QED
      BY <1>3, <2>1, <2>2 DEF Streams, CopyByte
  <1>4. CASE CopyFromPipe
    <2>1. pending[1] \in Items /\ Tail(pending) \in Seq(Items)
      BY <1>4 DEF Streams, CopyFromPipe
    <2> QED
      BY <1>4, <2>1 DEF Streams, CopyFromPipe
  <1>5. CASE WriterStep
    <2>0. pipe # "none" /\ sent' = sent
      BY <1>5 DEF WriterStep, StartPart, SeekPart, CannotSeekPart, WritePart, NextPart,
         WriteTrailer, EndParts, WriteFails, PipeAndWriter, Off
    <2>1. CASE StartPart
      <3>1. PartHead(part, HeadLength + growth) \in Seq(Items)
        BY <2>0, WriterFacts, RequestFacts, HeadsAreItems
      <3> QED
        BY <2>1, <3>1 DEF StartPart, Streams
    <2>2. CASE SeekPart
      <3>1. position' \in Nat /\ offset' = position'
        BY <2>0, <2>2, WriterFacts, SeekArrives DEF SeekPart
      <3> QED
        BY <2>2, <3>1 DEF SeekPart, Streams
    <2>3. CASE WritePart
      <3>1. offset \in Int /\ ranges[part].length \in Int
        BY <2>0, WriterFacts DEF Streams
      <3>2. Bytes(offset, ranges[part].length) \in Seq(Items)
        BY <3>1, BytesAreItems
      <3>3. Len(Bytes(offset, ranges[part].length)) \in Nat
        BY <3>2
      <3>4. /\ pending' = Bytes(offset, ranges[part].length)
            /\ offset' = offset + Len(pending') /\ position' = position + Len(pending')
        BY <2>3 DEF WritePart
      <3>5. position' \in Nat /\ offset' = position'
        BY <3>3, <3>4 DEF Streams
      <3> QED
        BY <2>0, <3>2, <3>4, <3>5 DEF Streams
    <2>4. CASE WriteTrailer
      BY <2>4, TrailerIsItems DEF WriteTrailer, Streams
    <2>5. CASE CannotSeekPart \/ NextPart \/ EndParts \/ WriteFails
      BY <2>5, EmptySeq DEF CannotSeekPart, NextPart, EndParts, WriteFails, Streams
    <2> QED
      BY <1>5, <2>1, <2>2, <2>3, <2>4, <2>5 DEF WriterStep
  <1>6. CASE \/ NotModified \/ HeadUnpacked \/ CannotUnpack \/ StreamUnpacked \/ EndStream
             \/ OpenContent \/ Refuse \/ ServeWhole \/ CannotSeek \/ PanicOnRange
             \/ ServeRanges \/ SetHeaders \/ EndCopy \/ ClosePipe
             \/ HeadersRace \/ ClientLeaves \/ UNCHANGED vars
    BY <1>1, <1>6 DEF NotModified, HeadUnpacked, CannotUnpack, StreamUnpacked, EndStream,
       OpenContent, Refuse, ServeWhole, CannotSeek, PanicOnRange, ServeRanges, SetHeaders,
       EndCopy, ClosePipe, HeadersRace, ClientLeaves, Finish, vars
  <1> QED
    BY <1>2, <1>3, <1>4, <1>5, <1>6 DEF Next, HandlerStep

LEMMA StepRangesParsed ==
  ASSUME IInv, [Next]_vars
  PROVE  RangesParsed'
  <1> USE DEF IInv, Shape, input, answer, multipart, content
  <1>1. CASE ranges' = ranges
    BY <1>1, RangesStay
  <1>2. CASE ServeRange \/ ServeRanges
    <2>1. ranges' = AllParsed /\ RangesSound
      BY <1>2, ParsedFacts DEF ServeRange, ServeRanges
    <2> QED
      BY <2>1, InputKept, DependKept DEF RangesParsed
  <1>3. CASE ~(ServeRange \/ ServeRanges)
    BY <1>1, <1>3 DEF Next, HandlerStep, WriterStep, NotModified, HeadUnpacked,
       CannotUnpack, StreamUnpacked, EndStream, OpenContent, Refuse, ServeWhole,
       CannotSeek, PanicOnRange, SetHeaders, CopyByte, CopyFromPipe, EndCopy, ClosePipe,
       StartPart, SeekPart, CannotSeekPart, WritePart, NextPart, WriteTrailer, EndParts,
       WriteFails, HeadersRace, ClientLeaves, Finish, vars
  <1> QED
    BY <1>2, <1>3

LEMMA StepPipeAndWriter ==
  ASSUME IInv, [Next]_vars
  PROVE  PipeAndWriter'
  <1> USE DEF input, answer, multipart, content
  <1>0. Shape /\ Coded /\ PipeAndWriter
    BY DEF IInv, Shape
  <1>1. Specs' = Specs
    BY InputKept, DependKept
  <1>2. CASE ServeRange
    BY <1>0, <1>2 DEF ServeRange, ParsesWell, Coded, PipeAndWriter
  <1>3. CASE ServeRanges
    <2>1. /\ ranges' = AllParsed /\ pipe' = "open" /\ writer' = "starting part"
          /\ part' = 1 /\ Len(Specs) > 1 /\ ParsesWell
      BY <1>3 DEF ServeRanges
    <2>2. Len(Specs) \in Nat
      BY <1>0, RequestFacts
    <2>3. AllParsed # << >> /\ 1 \in 1..Len(Specs)
      <3>1. Len(AllParsed) = Len(Specs) /\ Len(<< >>) = 0
        BY <1>0, <2>1, ParsedFacts
      <3>2. Len(Specs) > 1
        BY <2>1
      <3>3. 1 \in 1..Len(Specs) /\ Len(Specs) # 0
        BY <2>2, <3>2
      <3> QED
        BY <3>1, <3>3
    <2>4. part' \in 1..Len(Specs')
      BY <1>1, <2>1, <2>3
    <2> QED
      BY <1>1, <2>1, <2>3, <2>4 DEF PipeAndWriter
  <1>4. CASE WriterStep
    <2>1. ranges' = ranges
      BY <1>4 DEF WriterStep, StartPart, SeekPart, CannotSeekPart, WritePart, NextPart,
         WriteTrailer, EndParts, WriteFails
    <2>2. pipe # "none"
      BY <1>0, <1>4 DEF WriterStep, StartPart, SeekPart, CannotSeekPart, WritePart, NextPart,
         WriteTrailer, EndParts, WriteFails, PipeAndWriter, Off
    <2>3. /\ Len(ranges) = Len(Specs) /\ part \in 1..Len(Specs) /\ Len(Specs) \in Nat
          /\ Len(Specs) > 1 /\ ranges # << >>
      BY <1>0, <2>2, WriterFacts DEF PipeAndWriter
    <2>4. /\ pipe' \in {"open", "written", "closed"}
          /\ writer' \in {"starting part", "writing head", "at part", "writing part",
                          "writing trailer", "ended", "failed", "broken off"}
      BY <1>0, <1>4, <2>2 DEF WriterStep, StartPart, SeekPart, CannotSeekPart, WritePart,
         NextPart, WriteTrailer, EndParts, WriteFails, PipeAndWriter
    <2>5. part' \in 1..Len(Specs)
      <3>1. CASE NextPart
        <4>1. part' = part + 1 /\ part < Len(ranges)
          BY <3>1 DEF NextPart
        <4> QED
          BY <2>3, <4>1
      <3>2. CASE ~NextPart
        BY <1>4, <2>3, <3>2 DEF WriterStep, StartPart, SeekPart, CannotSeekPart, WritePart,
           WriteTrailer, EndParts, WriteFails
      <3> QED
        BY <3>1, <3>2
    <2> QED
      BY <1>1, <2>1, <2>3, <2>4, <2>5 DEF PipeAndWriter
  <1>5. CASE ClosePipe
    BY <1>0, <1>1, <1>5 DEF ClosePipe, PipeAndWriter
  <1>6. CASE \/ NotModified \/ HeadUnpacked \/ CannotUnpack \/ StreamUnpacked \/ EndStream
             \/ OpenContent \/ Refuse \/ ServeWhole \/ CannotSeek \/ PanicOnRange
             \/ SetHeaders \/ CopyByte \/ CopyFromPipe \/ EndCopy
             \/ HeadersRace \/ ClientLeaves \/ UNCHANGED vars
    <2>1. pipe' = pipe /\ writer' = writer /\ part' = part /\ ranges' = ranges
      BY <1>6 DEF NotModified, HeadUnpacked, CannotUnpack, StreamUnpacked, EndStream,
         OpenContent, Refuse, ServeWhole, CannotSeek, PanicOnRange, SetHeaders, CopyByte,
         CopyFromPipe, EndCopy, HeadersRace, ClientLeaves, Finish, vars
    <2> QED
      BY <1>0, <1>1, <2>1 DEF PipeAndWriter
  <1> QED
    BY <1>2, <1>3, <1>4, <1>5, <1>6 DEF Next, HandlerStep

\* A writer step is one of a writer that is there.
LEMMA WriterIsThere ==
  ASSUME PipeAndWriter, WriterStep
  PROVE  pipe # "none" /\ pipe' # "none"
  BY DEF WriterStep, StartPart, SeekPart, CannotSeekPart, WritePart, NextPart, multipart,
     WriteTrailer, EndParts, WriteFails, PipeAndWriter, Off

LEMMA StepCoded ==
  ASSUME Shape, Coded, [Next]_vars
  PROVE  Coded'
  <1> USE DEF input, answer, multipart, content
  <1>0. None # 200 /\ None # 206
    BY Constants
  <1>1. CASE NotModified \/ HeadUnpacked \/ CannotUnpack \/ Refuse \/ CannotSeek
    <2>1. /\ main \in {"checking", "parsing"} /\ main' = "done"
          /\ code' \in {200, 304, 416, 500}
          /\ ranges' = ranges /\ sendSize' = sendSize /\ declared' = declared
          /\ sent' = sent
      BY <1>1 DEF NotModified, HeadUnpacked, CannotUnpack, Refuse, CannotSeek, ParsesWell,
         Finish
    <2>2. ranges = << >> /\ declared = None /\ sent = << >>
      BY <2>1 DEF Coded
    <2>3. code' # 206
      BY <2>1
    <2> QED
      BY <2>1, <2>2, <2>3 DEF Coded
  <1>2. CASE StreamUnpacked
    BY <1>2 DEF StreamUnpacked, Coded
  <1>3. CASE EndStream \/ OpenContent \/ ServeWhole \/ PanicOnRange \/ EndCopy
    <2>1. /\ \/ main = "streaming" /\ main' = "done"
             \/ main = "checking" /\ main' = "parsing"
             \/ main = "parsing" /\ main' \in {"setting headers", "panicked"}
             \/ main = "copying" /\ main' = "closing"
          /\ code' = code /\ ranges' = ranges /\ sendSize' = sendSize
          /\ declared' = declared /\ pipe' = pipe /\ sent' = sent
      BY <1>3 DEF EndStream, OpenContent, ServeWhole, PanicOnRange, EndCopy, ParsesWell
    <2> QED
      BY <2>1 DEF Coded
  <1>4. CASE ServeRange \/ ServeRanges
    <2>1. /\ main = "parsing" /\ main' = "setting headers"
          /\ code' = code /\ declared' = declared /\ sent' = sent
      BY <1>4 DEF ServeRange, ServeRanges, ParsesWell
    <2> QED
      BY <1>0, <2>1 DEF Coded
  <1>5. CASE SetHeaders
    <2>1. /\ main = "setting headers" /\ main' \in {"closing", "copying"}
          /\ declared' = None \/ declared' = sendSize
          /\ ranges' = ranges /\ sendSize' = sendSize /\ sent' = sent
      BY <1>5 DEF SetHeaders
    <2>2. sent = << >>
      BY <2>1 DEF Coded
    <2>3. /\ code' \in {200, 206}
          /\ code' = 200 => ranges = << >>
          /\ code' = 206 => ranges # << >>
      <3>1. code' = IF ranges = << >> THEN 200 ELSE 206
        BY <1>5 DEF SetHeaders
      <3> QED
        BY <3>1
    <2> QED
      BY <2>1, <2>2, <2>3 DEF Coded
  <1>6. CASE CopyByte \/ CopyFromPipe
    <2>1. /\ main \in {"streaming", "copying"} /\ main' = main
          /\ code' = code /\ ranges' = ranges /\ sendSize' = sendSize
          /\ declared' = declared /\ pipe' = pipe
      BY <1>6 DEF CopyByte, CopyFromPipe
    <2> QED
      BY <2>1 DEF Coded
  <1>7. CASE ClosePipe
    <2>1. /\ main = "closing" /\ main' = "done"
          /\ code' = code /\ ranges' = ranges /\ sendSize' = sendSize
          /\ declared' = declared /\ sent' = sent
      BY <1>7 DEF ClosePipe
    <2> QED
      BY <2>1 DEF Coded
  <1>8. CASE WriterStep
    <2>1. pipe # "none"
      BY <1>8, WriterIsThere DEF Shape
    <2>2. /\ main' = main /\ code' = code /\ ranges' = ranges /\ sendSize' = sendSize
          /\ declared' = declared /\ sent' = sent
      BY <1>8 DEF WriterStep, StartPart, SeekPart, CannotSeekPart, WritePart, NextPart,
         WriteTrailer, EndParts, WriteFails
    <2> QED
      BY <2>1, <2>2 DEF Coded
  <1>9. CASE HeadersRace \/ ClientLeaves \/ UNCHANGED vars
    <2>1. /\ main' = main /\ code' = code /\ ranges' = ranges /\ sendSize' = sendSize
          /\ declared' = declared /\ sent' = sent /\ pipe' = pipe
      BY <1>9 DEF HeadersRace, ClientLeaves, vars
    <2> QED
      BY <2>1 DEF Coded
  <1> QED
    BY <1>1, <1>2, <1>3, <1>4, <1>5, <1>6, <1>7, <1>8, <1>9 DEF Next, HandlerStep

\* What serveContent refuses, for whichever reason, names no byte of the file.
LEMMA NothingThere ==
  ASSUME Shape, NEW i \in DOMAIN Specs,
         \/ Invalid(Specs[i])
         \/ ~Invalid(Specs[i]) /\ Parsed(Specs[i]).start >= size
  PROVE  Wanted(Specs[i]) = {}
  <1>1. Specs[i] \in RangeSpecs /\ size \in Nat
    BY RequestFacts
  <1>2. CASE Invalid(Specs[i])
    <2> DEFINE spec == Specs[i]
    <2>1. spec.start = None \/ spec.start \in Nat
      BY <1>1 DEF RangeSpecs
    <2>2. spec.end = None \/ spec.end \in Int
      BY <1>1 DEF RangeSpecs
    <2>3. /\ spec.start = None => spec.end = None
          /\ spec.start # None =>
               spec.start > size \/ (spec.end # None /\ spec.start > spec.end)
      BY <1>2 DEF Invalid
    <2> HIDE DEF spec
    <2>4. Wanted(spec) = {}
      BY <1>1, <2>1, <2>2, <2>3 DEF Wanted
    <2> QED
      BY <2>4 DEF spec
  <1>3. CASE ~Invalid(Specs[i]) /\ Parsed(Specs[i]).start >= size
    <2> DEFINE r == Parsed(Specs[i])
    <2>1. /\ r \in Lengths /\ r.start \in Nat /\ r.start + r.length <= size
          /\ Wanted(Specs[i]) = r.start..(r.start + r.length - 1)
          /\ r.start >= size
      BY <1>1, <1>3, ParsedIsWanted
    <2> HIDE DEF r
    <2>2. r.start \in Int /\ r.length \in Int
      BY <2>1 DEF Lengths
    <2>3. r.start..(r.start + r.length - 1) = {}
      BY <1>1, <2>1, <2>2
    <2> QED
      BY <2>1, <2>3
  <1> QED
    BY <1>2, <1>3

LEMMA StepRefused ==
  ASSUME IInv, [Next]_vars
  PROVE  Refused'
  <1> USE DEF input, answer, multipart, content
  <1>0. Shape /\ Refused /\ Coded
    BY DEF IInv
  <1>1. /\ Specs' = Specs /\ size' = size /\ size \in Nat /\ DOMAIN Specs = 1..Len(Specs)
        /\ \A i : Wanted(Specs[i])' = Wanted(Specs[i])
    BY <1>0, InputKept, DependKept, RequestFacts
  <1> DEFINE Empty == \E i \in DOMAIN Specs : Wanted(Specs[i]) = {}
  <1>2. Empty' <=> Empty
    BY <1>1
  <1>3. CASE Refuse \/ CannotSeek \/ PanicOnRange
    <2>1. ranges' = ranges
      BY <1>3 DEF Refuse, CannotSeek, PanicOnRange, Finish
    <2>2. Empty
      <3>1. CASE Refuse
        BY <1>0, <3>1, NothingThere DEF Refuse
      <3>2. CASE CannotSeek
        <4>1. /\ ParsesWell /\ Len(Specs) = 1 /\ Parsed(Specs[1]).start >= size
          BY <3>2 DEF CannotSeek, SeekMayFail
        <4>2. 1 \in DOMAIN Specs
          BY <1>1, <4>1
        <4>3. ~Invalid(Specs[1])
          BY <4>1, <4>2 DEF ParsesWell
        <4> QED
          BY <1>0, <4>1, <4>2, <4>3, NothingThere
      <3>3. CASE PanicOnRange
        <4>1. PICK i \in DOMAIN Specs : Parsed(Specs[i]).start > size
          BY <3>3 DEF PanicOnRange
        <4>2. ~Invalid(Specs[i])
          BY <3>3 DEF PanicOnRange, ParsesWell
        <4>3. Parsed(Specs[i]).start \in Nat
          BY <1>0, <1>1, <4>2, RequestFacts, ParsedIsWanted
        <4>4. Parsed(Specs[i]).start >= size
          BY <1>1, <4>1, <4>3
        <4> QED
          BY <1>0, <4>2, <4>4, NothingThere
      <3> QED
        BY <1>3, <3>1, <3>2, <3>3
    <2> QED
      BY <1>0, <1>1, <1>2, <2>1, <2>2 DEF Refused
  <1>4. CASE ServeRange \/ ServeRanges
    <2>1. /\ ranges' = AllParsed /\ SumRangesSize(AllParsed) <= size
          /\ code' = code /\ main' = "setting headers"
      BY <1>4 DEF ServeRange, ServeRanges
    <2>2. SumRangesSize(ranges') <= size
      BY <2>1
    <2> QED
      BY <1>0, <1>1, <1>2, <2>1, <2>2 DEF Refused
  <1>5. CASE ~(Refuse \/ CannotSeek \/ PanicOnRange \/ ServeRange \/ ServeRanges)
    <2>1. ranges' = ranges
      BY <1>5 DEF Next, HandlerStep, WriterStep, NotModified, HeadUnpacked,
         CannotUnpack, StreamUnpacked, EndStream, OpenContent, ServeWhole, SetHeaders,
         CopyByte, CopyFromPipe, EndCopy, ClosePipe,
         StartPart, SeekPart, CannotSeekPart, WritePart, NextPart, WriteTrailer, EndParts,
         WriteFails, HeadersRace, ClientLeaves, Finish, vars
    <2>2. code' = code \/ code' \in {200, 206, 304, 500}
      BY <1>5 DEF Next, HandlerStep, WriterStep, NotModified, HeadUnpacked,
         CannotUnpack, StreamUnpacked, EndStream, OpenContent, ServeWhole, SetHeaders,
         CopyByte, CopyFromPipe, EndCopy, ClosePipe,
         StartPart, SeekPart, CannotSeekPart, WritePart, NextPart, WriteTrailer, EndParts,
         WriteFails, HeadersRace, ClientLeaves, Finish, vars
    <2>3. main' = "panicked" => main = "panicked"
      BY <1>5 DEF Next, HandlerStep, WriterStep, NotModified, HeadUnpacked,
         CannotUnpack, StreamUnpacked, EndStream, OpenContent, ServeWhole, SetHeaders,
         CopyByte, CopyFromPipe, EndCopy, ClosePipe,
         StartPart, SeekPart, CannotSeekPart, WritePart, NextPart, WriteTrailer, EndParts,
         WriteFails, HeadersRace, ClientLeaves, Finish, vars
    <2>4. code' = 416 => code = 416
      BY <2>2
    <2> QED
      BY <1>0, <1>1, <1>2, <2>1, <2>3, <2>4 DEF Refused
  <1> QED
    BY <1>3, <1>4, <1>5

LEMMA BytesGrow ==
  ASSUME NEW first \in Int, NEW n \in Nat
  PROVE  Append(Bytes(first, n), <<"byte", first + n>>) = Bytes(first, n + 1)
  <1> DEFINE s == Bytes(first, n)
             t == Bytes(first, n + 1)
             last == <<"byte", first + n>>
  <1>1. /\ s \in Seq(Items) /\ Len(s) = n /\ \A i \in 1..n : s[i] = <<"byte", first + i - 1>>
        /\ t \in Seq(Items) /\ Len(t) = n + 1
        /\ \A i \in 1..(n + 1) : t[i] = <<"byte", first + i - 1>>
    <2>1. (IF n > 0 THEN n ELSE 0) = n /\ (IF n + 1 > 0 THEN n + 1 ELSE 0) = n + 1
      OBVIOUS
    <2>2. n + 1 \in Int /\ n \in Int
      OBVIOUS
    <2>3. s \in Seq(Items) /\ Len(s) = n /\ t \in Seq(Items) /\ Len(t) = n + 1
      BY <2>1, <2>2, BytesAreItems
    <2>4. s = [i \in 1..n |-> <<"byte", first + i - 1>>]
      BY <2>1 DEF Bytes
    <2>5. t = [i \in 1..(n + 1) |-> <<"byte", first + i - 1>>]
      BY <2>1 DEF Bytes
    <2> QED
      BY <2>3, <2>4, <2>5
  <1>2. last \in Items /\ t[n + 1] = last
    <2>1. n + 1 \in 1..(n + 1) /\ first + (n + 1) - 1 = first + n /\ first + n \in Int
      OBVIOUS
    <2> QED
      BY <1>1, <2>1 DEF Items
  <1> HIDE DEF s, t, last
  <1>3. /\ Append(s, last) \in Seq(Items) /\ Len(Append(s, last)) = n + 1
        /\ \A i \in 1..n : Append(s, last)[i] = s[i]
        /\ Append(s, last)[n + 1] = last
    <2>1. s \in Seq(Items) /\ last \in Items /\ Len(s) = n
      BY <1>1, <1>2
    <2> QED
      BY <2>1, AppendProperties
  <1>4. \A i \in 1..(n + 1) : Append(s, last)[i] = t[i]
    <2> TAKE i \in 1..(n + 1)
    <2>1. CASE i \in 1..n
      BY <1>1, <1>3, <2>1
    <2>2. CASE i = n + 1
      BY <1>2, <1>3, <2>2
    <2>3. i \in 1..n \/ i = n + 1
      OBVIOUS
    <2> QED
      BY <2>1, <2>2, <2>3
  <1>5. Append(s, last) = t
    BY <1>1, <1>3, <1>4, SeqEqual
  <1> QED
    BY <1>5 DEF s, t, last

LEMMA FirstIsPlace ==
  ASSUME Shape, OneRun, pipe = "none"
  PROVE  First \in Nat
  <1>1. CASE ranges = << >>
    BY <1>1 DEF First
  <1>2. CASE ranges # << >>
    <2>1. ranges = AllParsed /\ RangesSound /\ Len(Specs) = 1
      BY <1>2 DEF Shape, RangesParsed, OneRun
    <2>2. 1 \in 1..Len(Specs)
      BY <2>1
    <2> QED
      BY <1>2, <2>1, <2>2, AllParsedFacts DEF First
  <1> QED
    BY <1>1, <1>2

LEMMA StepOneRun ==
  ASSUME IInv, [Next]_vars
  PROVE  OneRun'
  <1> USE DEF input, answer, multipart, content
  <1>0. Shape /\ OneRun /\ Coded /\ Streams /\ PipeAndWriter
    BY DEF IInv, Shape
  <1>1. Specs' = Specs /\ size' = size /\ size \in Nat
    BY <1>0, InputKept, DependKept, RequestFacts
  <1>2. CASE ServeRange
    <2> DEFINE r == Parsed(Specs[1])
    <2>1. /\ ParsesWell /\ main = "parsing" /\ Len(Specs) = 1 /\ Seek(r.start)
          /\ sendSize' = r.length /\ ranges' = AllParsed /\ sent' = sent
          /\ pending' = pending /\ pipe' = pipe
      BY <1>2 DEF ServeRange, ParsesWell
    <2>2. 1 \in 1..Len(Specs)
      BY <2>1
    <2>3. AllParsed[1] = r /\ r.start \in Nat /\ AllParsed # << >>
      BY <1>0, <2>1, <2>2, ParsedFacts
    <2>4. offset' = r.start
      BY <1>0, <2>1, <2>3, SeekArrives
    <2>5. sent' = << >> /\ pipe = "none" /\ pending' = << >>
      BY <1>0, <2>1 DEF Coded, OneRun
    <2> HIDE DEF r
    <2>6. First' = r.start
      BY <2>1, <2>3 DEF First
    <2>7. Bytes(r.start, 0) = << >> /\ Len(<< >>) = 0 /\ r.start + 0 = r.start
      BY <2>3 DEF Bytes
    <2> QED
      BY <1>1, <2>1, <2>3, <2>4, <2>5, <2>6, <2>7 DEF OneRun
  <1>3. CASE CopyByte
    <2>1. /\ offset < size /\ sent' = Append(sent, <<"byte", offset>>)
          /\ offset' = offset + 1 /\ ranges' = ranges /\ sendSize' = sendSize
          /\ pipe' = pipe /\ pending' = pending /\ main \in {"streaming", "copying"}
          /\ main = "copying" => pipe = "none" /\ Len(sent) < sendSize
      BY <1>3 DEF CopyByte
    <2>2. pipe = "none" /\ (main = "streaming" => ranges = << >>)
      BY <1>0, <2>1 DEF Coded
    <2>3. First' = First /\ First \in Nat
      BY <1>0, <2>1, <2>2, FirstIsPlace DEF First
    <2>4. /\ pending = << >> /\ sent = Bytes(First, Len(sent)) /\ offset = First + Len(sent)
          /\ IF ranges = << >> THEN sendSize = size
             ELSE Len(Specs) = 1 /\ sendSize = ranges[1].length
      BY <1>0, <2>2 DEF OneRun
    <2>5. sent \in Seq(Items) /\ Len(sent) \in Nat /\ offset \in Nat
      BY <1>0 DEF Streams
    <2>6. <<"byte", offset>> \in Items
      BY <2>5 DEF Items
    <2>7. Len(sent') = Len(sent) + 1
      BY <2>1, <2>5, <2>6, AppendProperties
    <2>8. sent' = Bytes(First, Len(sent) + 1)
      <3>1. First \in Int /\ Len(sent) \in Nat
        BY <2>3, <2>5
      <3>2. Append(Bytes(First, Len(sent)), <<"byte", First + Len(sent)>>)
              = Bytes(First, Len(sent) + 1)
        BY <3>1, BytesGrow
      <3>3. /\ sent' = Append(sent, <<"byte", offset>>)
            /\ sent = Bytes(First, Len(sent)) /\ offset = First + Len(sent)
        BY <2>1, <2>4
      <3> QED
        BY <3>2, <3>3, Zenon
    <2>9. offset' = First + (Len(sent) + 1) /\ offset' <= size
      BY <1>1, <2>1, <2>3, <2>4, <2>5
    <2>10. Len(sent) + 1 <= sendSize
      <3>1. CASE main = "streaming"
        <4>1. First = 0 /\ sendSize = size
          BY <2>2, <2>4, <3>1 DEF First
        <4> QED
          BY <1>1, <2>1, <2>3, <2>4, <2>5, <4>1
      <3>2. CASE main = "copying"
        <4>1. sendSize \in Int /\ Len(sent) < sendSize
          BY <1>0, <2>1, <3>2 DEF Shape, Amounts
        <4> QED
          BY <2>5, <4>1
      <3> QED
        BY <2>1, <3>1, <3>2
    <2> QED
      BY <1>1, <2>1, <2>3, <2>4, <2>7, <2>8, <2>9, <2>10 DEF OneRun
  <1>4. CASE ServeRanges \/ CopyFromPipe \/ WriterStep
    <2>1. pipe' # "none"
      BY <1>0, <1>4, WriterIsThere DEF ServeRanges, CopyFromPipe
    <2> QED
      BY <2>1 DEF OneRun
  <1>5. CASE \/ NotModified \/ HeadUnpacked \/ CannotUnpack \/ StreamUnpacked \/ EndStream
             \/ OpenContent \/ Refuse \/ ServeWhole \/ CannotSeek \/ PanicOnRange
             \/ SetHeaders \/ EndCopy \/ ClosePipe \/ HeadersRace \/ ClientLeaves
             \/ UNCHANGED vars
    <2>1. /\ ranges' = ranges /\ sendSize' = sendSize /\ sent' = sent
          /\ pending' = pending /\ offset' = offset
          /\ pipe' = "none" => pipe = "none"
      BY <1>5 DEF NotModified, HeadUnpacked, CannotUnpack, StreamUnpacked, EndStream,
         OpenContent, Refuse, ServeWhole, CannotSeek, PanicOnRange, SetHeaders, EndCopy,
         ClosePipe, HeadersRace, ClientLeaves, Finish, vars
    <2>2. First' = First
      BY <2>1 DEF First
    <2> QED
      BY <1>0, <1>1, <2>1, <2>2 DEF OneRun
  <1> QED
    BY <1>2, <1>3, <1>4, <1>5 DEF Next, HandlerStep

\* What the writer has said depends on where it is.
LEMMA SaidKept ==
  ASSUME [Next]_vars, writer' = writer, part' = part
  PROVE  Said' = Said
  BY InputKept, DependKept DEF Said, PartHead

\* The writer of the parts says next what belongs there.
LEMMA WriterSays ==
  ASSUME IInv, WriterStep
  PROVE  /\ writer' # "failed" => sent' \o pending' = Said'
         /\ writer' \in {"starting part", "at part", "ended", "failed", "broken off"}
              => pending' = << >>
         /\ writer' = "at part" => offset' = ranges'[part'].start
         /\ pipe' = "written" => writer' \in {"ended", "broken off"}
  <1> USE DEF input, answer, multipart, content
  <1>0. Shape /\ Streams /\ PipeAndWriter /\ ManyParts /\ pipe # "none" /\ [Next]_vars
    <2>1. Shape /\ Streams /\ PipeAndWriter /\ ManyParts /\ [Next]_vars
      BY DEF IInv, Shape, Next
    <2> QED
      BY <2>1, WriterIsThere
  <1>1. /\ ranges = AllParsed /\ RangesSound /\ Len(ranges) = Len(Specs)
        /\ part \in 1..Len(Specs) /\ part \in Int /\ Len(Specs) \in Nat
        /\ ranges[part].start \in Nat /\ ranges[part].length \in Int
    BY <1>0, WriterFacts
  <1>2. /\ growth' = growth /\ Parts' = Parts /\ Everything' = Everything
        /\ Specs' = Specs
    BY <1>0, InputKept, DependKept
  <1>3. sent \in Seq(Items) /\ pending \in Seq(Items)
    BY <1>0 DEF Streams
  <1>4. ASSUME pending = << >> PROVE sent \o pending = sent
    BY <1>3, <1>4
  <1>5. sent' = sent /\ ranges' = ranges
    BY DEF WriterStep, StartPart, SeekPart, CannotSeekPart, WritePart,
       NextPart, WriteTrailer, EndParts, WriteFails
  <1>7. CASE StartPart
    <2>1. /\ writer = "starting part" /\ writer' = "writing head"
          /\ pending' = PartHead(part, HeadLength + growth)
          /\ part' = part /\ pipe' = "open"
      BY <1>7 DEF StartPart
    <2>2. pending = << >> /\ sent \o pending = Parts[part - 1]
      BY <1>0, <2>1 DEF ManyParts, Said
    <2>3. sent = Parts[part - 1]
      BY <1>4, <2>2
    <2>4. Said' = Parts[part - 1] \o PartHead(part, HeadLength + growth)
      BY <1>2, <2>1 DEF Said, PartHead
    <2> QED
      BY <1>5, <2>1, <2>3, <2>4
  <1>8. CASE SeekPart
    <2>1. /\ writer = "writing head" /\ pending = << >> /\ writer' = "at part"
          /\ Seek(ranges[part].start) /\ pending' = pending /\ part' = part /\ pipe' = "open"
      BY <1>8 DEF SeekPart
    <2>2. offset' = ranges[part].start
      BY <1>0, <1>1, <2>1, SeekArrives
    <2>3. sent \o pending = Parts[part - 1] \o PartHead(part, HeadLength + growth)
      BY <1>0, <2>1 DEF ManyParts, Said
    <2>4. Said' = Parts[part - 1] \o PartHead(part, HeadLength + growth)
      BY <1>2, <2>1 DEF Said, PartHead
    <2> QED
      BY <1>5, <2>1, <2>2, <2>3, <2>4
  <1>9. CASE CannotSeekPart
    <2>1. /\ writer = "writing head" /\ pending = << >> /\ writer' = "broken off"
          /\ pending' = pending /\ part' = part /\ pipe' = "written"
      BY <1>9 DEF CannotSeekPart
    <2>2. sent \o pending = Parts[part - 1] \o PartHead(part, HeadLength + growth)
      BY <1>0, <2>1 DEF ManyParts, Said
    <2>3. Said' = Parts[part - 1] \o PartHead(part, HeadLength + growth)
      BY <1>2, <2>1 DEF Said, PartHead
    <2> QED
      BY <1>5, <2>1, <2>2, <2>3
  <1>10. CASE WritePart
    <2>1. /\ writer = "at part" /\ writer' = "writing part"
          /\ pending' = Bytes(offset, ranges[part].length)
          /\ part' = part /\ pipe' = "open"
      BY <1>10 DEF WritePart
    <2>2. /\ pending = << >> /\ offset = ranges[part].start
          /\ sent \o pending = Parts[part - 1] \o PartHead(part, HeadLength + growth)
      BY <1>0, <2>1 DEF ManyParts, Said
    <2>3. sent = Parts[part - 1] \o PartHead(part, HeadLength + growth)
      BY <1>4, <2>2
    <2>4. Parts[part] = Parts[part - 1] \o PartHead(part, HeadLength + growth)
                          \o Bytes(ranges[part].start, ranges[part].length)
      BY <1>0, <1>1, PartsJoin
    <2>5. Said' = Parts[part]
      BY <1>2, <2>1 DEF Said
    <2> QED
      BY <1>5, <2>1, <2>2, <2>3, <2>4, <2>5
  <1>11. CASE NextPart
    <2>1. /\ writer = "writing part" /\ pending = << >> /\ writer' = "starting part"
          /\ pending' = pending /\ part' = part + 1 /\ pipe' = "open"
      BY <1>11 DEF NextPart
    <2>2. sent \o pending = Parts[part]
      BY <1>0, <2>1 DEF ManyParts, Said
    <2>3. Said' = Parts[part' - 1]
      BY <1>2, <2>1 DEF Said
    <2>4. part' - 1 = part
      <3>1. part' = part + 1 /\ part \in Int
        BY <1>1, <2>1
      <3> QED
        BY <3>1
    <2> QED
      BY <1>5, <2>1, <2>2, <2>3, <2>4
  <1>12. CASE WriteTrailer
    <2>1. /\ writer = "writing part" /\ pending = << >> /\ writer' = "writing trailer"
          /\ pending' = Trailer /\ part = Len(ranges) /\ part' = part /\ pipe' = "open"
      BY <1>12 DEF WriteTrailer
    <2>2. sent \o pending = Parts[part]
      BY <1>0, <2>1 DEF ManyParts, Said
    <2>3. sent = Parts[Len(Specs)]
      BY <1>1, <1>4, <2>1, <2>2
    <2>4. Said' = Everything
      BY <1>2, <2>1 DEF Said
    <2> QED
      BY <1>5, <2>1, <2>3, <2>4 DEF Everything
  <1>13. CASE EndParts
    <2>1. /\ writer = "writing trailer" /\ pending = << >> /\ writer' = "ended"
          /\ pending' = pending /\ part' = part /\ pipe' = "written"
      BY <1>13 DEF EndParts
    <2>2. sent \o pending = Everything
      BY <1>0, <2>1 DEF ManyParts, Said
    <2>3. Said' = Everything
      BY <1>2, <2>1 DEF Said
    <2> QED
      BY <1>5, <2>1, <2>2, <2>3
  <1>14. CASE WriteFails
    <2>1. pipe' = "closed" /\ writer' = "failed" /\ pending' = << >>
      BY <1>14 DEF WriteFails
    <2> QED
      BY <2>1
  <1> QED
    BY <1>7, <1>8, <1>9, <1>10, <1>11, <1>12, <1>13, <1>14 DEF WriterStep

LEMMA StepManyParts ==
  ASSUME IInv, [Next]_vars
  PROVE  ManyParts'
  <1> USE DEF input, answer, multipart, content
  <1>0. Shape /\ Streams /\ PipeAndWriter /\ ManyParts /\ OneRun /\ Coded
    BY DEF IInv, Shape
  <1>1. Specs' = Specs /\ Parts' = Parts /\ Everything' = Everything
    BY InputKept, DependKept
  <1>2. CASE ServeRanges
    <2>1. /\ ParsesWell /\ main = "parsing" /\ ranges' = AllParsed
          /\ sendSize' = RangesMIMESize(AllParsed)
          /\ pipe' = "open" /\ writer' = "starting part" /\ part' = 1
          /\ pending' = pending /\ sent' = sent
      BY <1>2 DEF ServeRanges, ParsesWell
    <2>2. sent = << >> /\ pending = << >>
      BY <1>0, <2>1 DEF Coded, OneRun
    <2>3. RangesSound /\ Everything \in Seq(Items)
      BY <1>0, <2>1, ParsedFacts, EverythingIsEnough
    <2>4. IsPrefix(<< >>, Everything)
      <3>1. << >> \in Seq(Items) /\ << >> \o Everything = Everything
        BY <2>3
      <3>2. IsPrefix(<< >>, << >> \o Everything)
        BY <2>3, <3>1, PrefixOfConcat
      <3> QED
        BY <3>1, <3>2
    <2>5. Parts[0] = << >>
      BY <1>0, <2>3, PartsJoin
    <2>6. Said' = << >>
      <3>1. Said' = Parts[1 - 1]
        BY <1>1, <2>1 DEF Said
      <3> QED
        BY <2>5, <3>1
    <2>7. << >> \o << >> = << >>
      OBVIOUS
    <2>8. sent' \o pending' = Said' /\ IsPrefix(sent', Everything')
      BY <1>1, <2>1, <2>2, <2>4, <2>6, <2>7
    <2>9. sendSize' = RangesMIMESize(ranges')
      BY <2>1
    <2> QED
      BY <2>1, <2>2, <2>8, <2>9 DEF ManyParts
  <1>3. CASE CopyFromPipe
    <2>1. /\ pipe # "none" /\ pending # << >> /\ Len(sent) < sendSize
          /\ sent' = Append(sent, pending[1]) /\ pending' = Tail(pending)
          /\ writer' = writer /\ part' = part /\ pipe' = pipe /\ ranges' = ranges
          /\ sendSize' = sendSize /\ position' = position /\ offset' = offset
      BY <1>3 DEF CopyFromPipe
    <2>2. /\ writer \notin {"starting part", "at part", "ended", "failed", "broken off"}
          /\ sent \o pending = Said
          /\ sendSize = RangesMIMESize(ranges)
          /\ pipe = "written" => writer \in {"ended", "broken off"}
      BY <1>0, <2>1 DEF ManyParts
    <2>3. sent \in Seq(Items) /\ pending \in Seq(Items) /\ pending # << >>
      BY <1>0, <2>1 DEF Streams
    <2>4. /\ Append(sent, pending[1]) \in Seq(Items) /\ Tail(pending) \in Seq(Items)
          /\ Len(Append(sent, pending[1])) = Len(sent) + 1
          /\ Append(sent, pending[1]) \o Tail(pending) = sent \o pending
      BY <2>3
    <2>5. sent' \o pending' = Said' /\ sent' \in Seq(Items) /\ pending' \in Seq(Items)
          /\ Len(sent') = Len(sent) + 1
      BY <2>1, <2>2, <2>4, SaidKept
    <2>6. Said \in Seq(Items) /\ IsPrefix(Said, Everything) /\ Everything \in Seq(Items)
      BY <1>0, <2>1, WriterFacts, SaidIsPrefix, EverythingIsEnough
    <2>7. IsPrefix(sent', Said')
      BY <2>5, PrefixOfConcat
    <2>8. Said' = Said
      BY <2>1, SaidKept
    <2>9. IsPrefix(sent', Everything')
      BY <1>1, <2>5, <2>6, <2>7, <2>8, PrefixTransitive
    <2>10. Len(sent') <= sendSize'
      <3>1. sendSize \in Int
        BY <1>0 DEF Shape, Amounts
      <3>2. Len(sent) \in Nat /\ Len(sent) < sendSize /\ sendSize' = sendSize
        BY <2>1, <2>3
      <3> QED
        BY <2>5, <3>1, <3>2
    <2> QED
      BY <2>1, <2>2, <2>5, <2>9, <2>10 DEF ManyParts
  <1>4. CASE WriterStep
    <2>1. pipe # "none" /\ pipe' # "none"
      BY <1>0, <1>4, WriterIsThere
    <2>2. sent' = sent /\ ranges' = ranges /\ sendSize' = sendSize
      BY <1>4 DEF WriterStep, StartPart, SeekPart, CannotSeekPart, WritePart,
         NextPart, WriteTrailer, EndParts, WriteFails
    <2>3. /\ sendSize = RangesMIMESize(ranges) /\ IsPrefix(sent, Everything)
          /\ sent # << >> => Len(sent) <= sendSize
      BY <1>0, <2>1 DEF ManyParts
    <2>4. /\ sendSize' = RangesMIMESize(ranges') /\ IsPrefix(sent', Everything')
          /\ sent' # << >> => Len(sent') <= sendSize'
      BY <1>1, <2>2, <2>3
    <2> QED
      BY <1>4, <2>4, WriterSays DEF ManyParts
  <1>5. CASE \/ NotModified \/ HeadUnpacked \/ CannotUnpack \/ StreamUnpacked \/ EndStream
             \/ OpenContent \/ Refuse \/ ServeWhole \/ CannotSeek \/ PanicOnRange
             \/ SetHeaders \/ EndCopy \/ ClosePipe \/ HeadersRace \/ ClientLeaves
             \/ UNCHANGED vars
    <2>1. /\ ranges' = ranges /\ sendSize' = sendSize /\ sent' = sent
          /\ pending' = pending /\ offset' = offset /\ writer' = writer /\ part' = part
          /\ pipe' # "none" => pipe # "none"
          /\ pipe' = "written" => pipe = "written"
      BY <1>5 DEF NotModified, HeadUnpacked, CannotUnpack, StreamUnpacked, EndStream,
         OpenContent, Refuse, ServeWhole, CannotSeek, PanicOnRange, SetHeaders, EndCopy,
         ClosePipe, HeadersRace, ClientLeaves, Finish, vars
    <2>2. Said' = Said
      BY <2>1, SaidKept
    <2> QED
      BY <1>0, <1>1, <2>1, <2>2 DEF ManyParts
  <1>6. CASE ServeRange \/ CopyByte
    <2>1. pipe' = "none"
      <3>1. pipe' = pipe /\ (main \in {"parsing", "streaming"} \/ pipe = "none")
        BY <1>6 DEF ServeRange, CopyByte, ParsesWell
      <3>2. main \in {"parsing", "streaming"} => pipe = "none"
        BY <1>0 DEF Coded
      <3> QED
        BY <3>1, <3>2
    <2> QED
      BY <2>1 DEF ManyParts
  <1> QED
    BY <1>2, <1>3, <1>4, <1>5, <1>6 DEF Next, HandlerStep

LEMMA StepEndedWell ==
  ASSUME IInv, [Next]_vars
  PROVE  EndedWell'
  <1> USE DEF input, answer, multipart, content
  <1>0. Shape /\ Streams /\ PipeAndWriter /\ ManyParts /\ Coded /\ EndedWell
    BY DEF IInv, Shape
  <1>1. request' = request /\ size' = size /\ sound' = sound
    BY InputKept
  <1>2. CASE NotModified \/ HeadUnpacked \/ CannotUnpack \/ Refuse \/ CannotSeek
    <2>1. request.head \/ code' \in {304, 416, 500}
      BY <1>2 DEF NotModified, HeadUnpacked, CannotUnpack, Refuse, CannotSeek, Finish
    <2>2. request.head \/ code' \notin {200, 206}
      BY <2>1
    <2> QED
      BY <1>1, <2>2 DEF EndedWell
  <1>3. CASE EndStream
    <2>1. /\ ~client \/ ~sound \/ offset = size
          /\ main = "streaming" /\ client' = client /\ pipe' = pipe /\ offset' = offset
      BY <1>3 DEF EndStream
    <2>2. pipe = "none"
      BY <1>0, <2>1 DEF Coded
    <2>3. size \in Nat
      BY <1>0, RequestFacts
    <2>4. ~client' \/ ~sound' \/ (pipe' = "none" /\ offset' >= size')
      BY <1>1, <2>1, <2>2, <2>3
    <2> QED
      BY <2>4 DEF EndedWell
  <1>4. CASE SetHeaders
    <2>1. main' = "closing" => request.head
      BY <1>4 DEF SetHeaders
    <2>2. main' # "done"
      BY <1>4 DEF SetHeaders
    <2> QED
      BY <1>1, <2>1, <2>2 DEF EndedWell
  <1>5. CASE EndCopy
    <2>1. /\ \/ ~client \/ Len(sent) >= sendSize
             \/ pipe = "none" /\ offset >= size
             \/ pipe = "written" /\ pending = << >>
          /\ sent' = sent /\ sendSize' = sendSize /\ pipe' = pipe /\ offset' = offset
          /\ writer' = writer /\ client' = client
      BY <1>5 DEF EndCopy
    <2>2. ASSUME pipe = "written", pending = << >>, writer # "broken off"
          PROVE  Len(sent) >= sendSize
      <3>1. /\ writer = "ended" /\ sent \o pending = Everything
            /\ sendSize = RangesMIMESize(ranges)
        BY <1>0, <2>2 DEF ManyParts, Said
      <3>2. sent \in Seq(Items)
        BY <1>0 DEF Streams
      <3>3. sent = Everything
        BY <2>2, <3>1, <3>2
      <3>4. /\ ranges = AllParsed
            /\ Len(Everything) >= RangesMIMESize(AllParsed)
        BY <1>0, <2>2, WriterFacts, EverythingIsEnough
      <3> QED
        BY <3>1, <3>3, <3>4
    <2>3. \/ ~client' \/ Len(sent') >= sendSize' \/ (pipe' = "none" /\ offset' >= size')
          \/ writer' = "broken off"
      BY <1>1, <2>1, <2>2
    <2> QED
      BY <2>3 DEF EndedWell
  <1>6. CASE ClosePipe
    <2>1. /\ main = "closing" /\ code' = code /\ client' = client /\ writer' = writer
          /\ sent' = sent /\ sendSize' = sendSize /\ offset' = offset
          /\ pipe = "none" => pipe' = "none"
      BY <1>6 DEF ClosePipe
    <2> QED
      BY <1>0, <1>1, <2>1 DEF EndedWell
  <1>7. CASE WriterStep
    <2>1. /\ main' = main /\ code' = code /\ client' = client /\ sent' = sent
          /\ sendSize' = sendSize
      BY <1>7 DEF WriterStep, StartPart, SeekPart, CannotSeekPart, WritePart,
         NextPart, WriteTrailer, EndParts, WriteFails
    <2>2. writer # "broken off"
      BY <1>7 DEF WriterStep, StartPart, SeekPart, CannotSeekPart, WritePart,
         NextPart, WriteTrailer, EndParts, WriteFails, Off
    <2>3. pipe # "none"
      BY <1>0, <1>7, WriterIsThere
    <2> QED
      BY <1>0, <1>1, <2>1, <2>2, <2>3 DEF EndedWell
  <1>8. CASE HeadersRace \/ ClientLeaves \/ UNCHANGED vars
    <2>1. /\ main' = main /\ code' = code /\ sent' = sent
          /\ sendSize' = sendSize /\ writer' = writer /\ pipe' = pipe /\ offset' = offset
      BY <1>8 DEF HeadersRace, ClientLeaves, vars
    <2>2. client' = client \/ client' = FALSE
      BY <1>8 DEF HeadersRace, ClientLeaves, vars
    <2> QED
      BY <1>0, <1>1, <2>1, <2>2 DEF EndedWell
  <1>9. CASE \/ StreamUnpacked \/ OpenContent \/ ServeWhole \/ ServeRange \/ PanicOnRange
             \/ ServeRanges \/ CopyByte \/ CopyFromPipe
    <2>1. main' \notin {"closing", "done"}
      BY <1>9 DEF StreamUnpacked, OpenContent, ServeWhole, ServeRange, PanicOnRange,
         ServeRanges, CopyByte, CopyFromPipe
    <2> QED
      BY <2>1 DEF EndedWell
  <1> QED
    BY <1>2, <1>3, <1>4, <1>5, <1>6, <1>7, <1>8, <1>9 DEF Next, HandlerStep

LEMMA StepIInv ==
  ASSUME IInv, [Next]_vars
  PROVE  IInv'
  <1>1. Shape /\ Coded
    BY DEF IInv
  <1>2. Inputs /\ Places /\ Codes /\ Flags
    BY <1>1 DEF Shape
  <1>3. Shape'
    BY <1>1, <1>2, StepInputs, StepPlaces, StepCodes, StepAmounts, StepFlags, StepStreams,
       StepRangesParsed, StepPipeAndWriter DEF Shape
  <1> QED
    BY <1>1, <1>3, StepCoded, StepOneRun, StepManyParts, StepEndedWell, StepRefused DEF IInv

\* The inductive invariant of a whole answer: what the handler, the goroutine that
\* writes the parts and the client's end have in common at every step.
THEOREM Invariance == Spec => []IInv
  <1>1. IInv /\ [Next]_vars => IInv'
    BY StepIInv
  <1> QED
    BY <1>1, InitIInv, PTL DEF Spec

-----------------------------------------------------------------------------
(* What is proved of every answer *)

\* Whatever the request, the file and the lengths of what goes around the parts,
\* the variables have their types; the goroutine that writes a multipart response
\* is never at a part that was not asked for.
THEOREM ServingTypeCorrect == Spec => []TypeOK
  <1>1. IInv => TypeOK
    <2> SUFFICES ASSUME IInv PROVE TypeOK
      OBVIOUS
    <2>1. Shape /\ PipeAndWriter /\ Streams /\ Amounts /\ Flags /\ Places /\ Codes
      BY DEF IInv, Shape
    <2>2. /\ writer \in {"off", "starting part", "writing head", "at part", "writing part",
                         "writing trailer"} \cup Off
          /\ pipe \in {"none", "open", "written", "closed"}
      BY <2>1 DEF PipeAndWriter, Off
    <2>3. part \in 0..Len(Specs)
      <3>1. Len(Specs) \in Nat
        BY <2>1, RequestFacts
      <3>2. part = 0 \/ part \in 1..Len(Specs)
        BY <2>1 DEF PipeAndWriter
      <3> QED
        BY <3>1, <3>2
    <2>4. position \in Nat /\ offset \in Nat
      BY <2>1 DEF Streams
    <2>5. code \in {None, 200, 206, 304, 416, 500}
      BY <2>1 DEF Codes
    <2>6. /\ main \in {"checking", "streaming", "parsing", "setting headers", "copying",
                       "closing", "done", "panicked"}
          /\ declared = None \/ declared \in Nat
      BY <2>1 DEF Places, Amounts
    <2> QED
      BY <2>1, <2>2, <2>3, <2>4, <2>5, <2>6 DEF TypeOK, Flags
  <1> QED
    BY <1>1, Invariance, PTL

\* serveContent refuses a request, or falls over it, only if one of its ranges
\* names no byte of the file, and serves no ranges that add up to more than it.
THEOREM RefusalsHaveCause == Spec => []RefusedForCause
  <1>1. IInv => RefusedForCause
    <2> SUFFICES ASSUME IInv PROVE RefusedForCause
      OBVIOUS
    <2>1. Shape /\ Refused
      BY DEF IInv
    <2>2. CASE ranges = << >>
      <3>1. << >> \in Seq(Lengths) /\ Len(<< >>) = 0
        BY EmptySeq
      <3>2. SumRangesSize(<< >>) = 0
        BY <3>1, SumIsLast, SumsAdd
      <3>3. size \in Nat
        BY <2>1, RequestFacts
      <3> QED
        BY <2>1, <2>2, <3>2, <3>3 DEF Refused, RefusedForCause
    <2>3. CASE ranges # << >>
      BY <2>1, <2>3 DEF Refused, RefusedForCause
    <2> QED
      BY <2>2, <2>3
  <1> QED
    BY <1>1, Invariance, PTL

\* A run of bytes is the beginning of a longer one.
LEMMA BytesArePrefix ==
  ASSUME NEW first \in Int, NEW n \in Nat, NEW length \in Int, n <= length \/ n = 0
  PROVE  IsPrefix(Bytes(first, n), Bytes(first, length))
  <1> DEFINE s == Bytes(first, n)
             t == Bytes(first, length)
             most == IF length > 0 THEN length ELSE 0
  <1>1. most \in Nat /\ n <= most
    OBVIOUS
  <1>2. s \in Seq(Items) /\ Len(s) = n /\ t \in Seq(Items) /\ Len(t) = most
    <2>1. n \in Int /\ (IF n > 0 THEN n ELSE 0) = n
      OBVIOUS
    <2> QED
      BY <2>1, BytesAreItems
  <1>3. s = [i \in 1..n |-> <<"byte", first + i - 1>>]
    <2>1. (IF n > 0 THEN n ELSE 0) = n
      OBVIOUS
    <2> QED
      BY <2>1 DEF Bytes
  <1>4. t = [i \in 1..most |-> <<"byte", first + i - 1>>]
    BY DEF Bytes
  <1>5. \A i \in 1..n : i \in 1..most
    BY <1>1
  <1>6. \A i \in 1..n : s[i] = t[i]
    BY <1>3, <1>4, <1>5
  <1> HIDE DEF s, t, most
  <1>7. IsPrefix(s, t)
    BY <1>1, <1>2, <1>6, PrefixMeans
  <1> QED
    BY <1>7 DEF s, t

LEMMA EmptyRun ==
  ASSUME NEW first \in Int, NEW length \in Int, length <= 0
  PROVE  Bytes(first, length) = Bytes(first, 0)
  <1>1. (IF length > 0 THEN length ELSE 0) = 0 /\ (IF 0 > 0 THEN 0 ELSE 0) = 0
    OBVIOUS
  <1> QED
    BY <1>1 DEF Bytes

Served == code \in {200, 206}

\* What the client is due, in terms of what has been parsed.
LEMMA Due ==
  ASSUME IInv, Served
  PROVE  /\ pipe = "none" =>
              /\ Expected = Bytes(First, sendSize) /\ sent = Bytes(First, Len(sent))
              /\ First \in Nat /\ sendSize \in Int /\ Len(sent) \in Nat
              /\ First + sendSize <= size /\ size \in Nat
              /\ offset = First + Len(sent)
              /\ sent # << >> => Len(sent) <= sendSize
         /\ pipe # "none" =>
              /\ Expected = Everything /\ IsPrefix(sent, Everything)
              /\ Len(ranges) > 1
              /\ sendSize \in Int /\ Len(sent) \in Nat
              /\ sent # << >> => Len(sent) <= sendSize
  <1>1. Shape /\ Coded /\ OneRun /\ ManyParts /\ Streams /\ PipeAndWriter
    BY DEF IInv, Shape
  <1>2. sendSize \in Int
    BY <1>1 DEF Shape, Amounts
  <1>3. Len(sent) \in Nat
    BY <1>1 DEF Streams
  <1>4. size \in Nat /\ Len(Specs) \in Nat
    BY <1>1, RequestFacts
  <1>5. code = 200 <=> ranges = << >>
    BY <1>1 DEF Coded, Served
  <1>6. CASE pipe = "none"
    <2>1. /\ sent = Bytes(First, Len(sent)) /\ offset = First + Len(sent)
          /\ sent # << >> => Len(sent) <= sendSize
          /\ IF ranges = << >> THEN sendSize = size
             ELSE Len(Specs) = 1 /\ sendSize = ranges[1].length
      BY <1>1, <1>6 DEF OneRun
    <2>2. First \in Nat
      BY <1>1, <1>6, FirstIsPlace
    <2>3. Expected = Bytes(First, sendSize) /\ First + sendSize <= size
      <3>1. CASE ranges = << >>
        <4>1. First = 0 /\ sendSize = size /\ code = 200
          BY <1>5, <2>1, <3>1 DEF First
        <4>2. Expected = Bytes(0, size)
          BY <4>1 DEF Expected
        <4> QED
          BY <1>4, <4>1, <4>2
      <3>2. CASE ranges # << >>
        <4>1. /\ First = ranges[1].start /\ sendSize = ranges[1].length /\ code # 200
              /\ Len(Specs) = 1
          BY <1>5, <2>1, <3>2 DEF First
        <4>2. ranges = AllParsed /\ RangesSound
          BY <1>1, <3>2 DEF Shape, RangesParsed
        <4>3. 1 \in 1..Len(Specs)
          BY <4>1
        <4>4. /\ InOrder(Wanted(Specs[1])) = Bytes(ranges[1].start, ranges[1].length)
              /\ ranges[1].start + ranges[1].length <= size
          BY <1>1, <4>2, <4>3, AllParsedFacts
        <4>5. Expected = InOrder(Wanted(Specs[1]))
          BY <4>1 DEF Expected
        <4> QED
          BY <4>1, <4>4, <4>5
      <3> QED
        BY <3>1, <3>2
    <2> QED
      BY <1>2, <1>3, <1>4, <1>6, <2>1, <2>2, <2>3
  <1>7. CASE pipe # "none"
    <2>1. IsPrefix(sent, Everything) /\ (sent # << >> => Len(sent) <= sendSize)
      BY <1>1, <1>7 DEF ManyParts
    <2>2. ranges # << >> /\ Len(Specs) > 1
      BY <1>1, <1>7 DEF PipeAndWriter
    <2>3. Len(ranges) = Len(Specs)
      BY <1>1, <1>7, WriterFacts
    <2>4. code # 200 /\ Len(Specs) # 1
      <3>1. Len(Specs) > 1
        BY <2>2
      <3>2. Len(Specs) # 1
        <4>1. \A n \in Nat : n > 1 => n # 1
          OBVIOUS
        <4> QED
          BY <1>4, <3>1, <4>1, Zenon
      <3> QED
        BY <1>5, <2>2, <3>2
    <2>5. Expected = Everything
      BY <2>4 DEF Expected, Everything
    <2>6. Len(ranges) > 1
      BY <2>2, <2>3
    <2> QED
      BY <1>2, <1>3, <1>7, <2>1, <2>5, <2>6
  <1> QED
    BY <1>6, <1>7

\* What a client is sent, and when, is the bytes it asked for, each in its place,
\* for files and ranges of any size: through a range that is clamped to the file, a
\* seek in a gzip stream, and the goroutine that writes the parts.
THEOREM BytesAlwaysAsAsked == Spec => []BytesAsAsked
  <1>1. IInv => BytesAsAsked
    <2> SUFFICES ASSUME IInv, sent # << >>
                 PROVE  code \in {200, 206} /\ IsPrefix(sent, Expected)
      BY DEF BytesAsAsked
    <2>1. Served
      BY DEF IInv, Coded, Served
    <2>2. ASSUME pipe = "none" PROVE IsPrefix(sent, Expected)
      <3>1. /\ Expected = Bytes(First, sendSize) /\ sent = Bytes(First, Len(sent))
            /\ First \in Int /\ sendSize \in Int /\ Len(sent) \in Nat
            /\ Len(sent) <= sendSize
        BY <2>1, <2>2, Due
      <3>2. IsPrefix(Bytes(First, Len(sent)), Bytes(First, sendSize))
        BY <3>1, BytesArePrefix
      <3> QED
        BY <3>1, <3>2
    <2>3. ASSUME pipe # "none" PROVE IsPrefix(sent, Expected)
      BY <2>1, <2>3, Due
    <2> QED
      BY <2>1, <2>2, <2>3 DEF Served
  <1> QED
    BY <1>1, Invariance, PTL

\* A client that stays gets all of the file or of its range, and as many bytes of a
\* multipart response as were declared, whatever their number.
THEOREM AnswersAreComplete == Spec => []AnswerComplete
  <1>1. IInv => AnswerComplete
    <2> DEFINE Ended == /\ main = "done" /\ client /\ ~request.head /\ sound
                        /\ writer # "broken off" /\ code \in {200, 206}
    <2> SUFFICES ASSUME IInv, Ended
                 PROVE  /\ Len(ranges) <= 1 => sent = Expected
                        /\ declared # None => Len(sent) = declared
      BY DEF AnswerComplete
    <2>1. Len(sent) >= sendSize \/ (pipe = "none" /\ offset >= size)
      BY DEF IInv, EndedWell
    <2>0. Served
      BY DEF Served
    <2> HIDE DEF Ended
    <2>2. declared # None => declared = sendSize
      BY DEF IInv, Coded
    <2>3. declared # None => declared \in Nat
      BY DEF IInv, Shape, Amounts
    <2>4. sent = << >> => Len(sent) = 0
      BY EmptySeq
    <2> DEFINE n == Len(sent)
    <2>5. CASE pipe = "none"
      <3>1. /\ Expected = Bytes(First, sendSize) /\ sent = Bytes(First, n)
            /\ First \in Nat /\ sendSize \in Int /\ n \in Nat
        BY <2>0, <2>5, Due
      <3>2. First + sendSize <= size /\ size \in Nat /\ offset = First + n
        BY <2>0, <2>5, Due
      <3>3. n = 0 \/ n <= sendSize
        BY <2>0, <2>4, <2>5, Due
      <3> HIDE DEF n
      <3>4. n >= sendSize
        <4>1. n >= sendSize \/ offset >= size
          BY <2>1 DEF n
        <4> QED
          BY <3>1, <3>2, <4>1
      <3>5. n = sendSize \/ (n = 0 /\ sendSize <= 0)
        BY <3>1, <3>3, <3>4
      <3>6. Bytes(First, n) = Bytes(First, sendSize)
        BY <3>1, <3>5, EmptyRun
      <3>7. sendSize \in Nat => n = sendSize
        BY <3>1, <3>5
      <3> QED
        BY <2>2, <2>3, <3>1, <3>6, <3>7 DEF n
    <2>6. CASE pipe # "none"
      <3>1. sendSize \in Int /\ n \in Nat /\ (n = 0 \/ n <= sendSize)
        BY <2>0, <2>4, <2>6, Due
      <3>2. n >= sendSize
        BY <2>1, <2>6
      <3>3. ~(Len(ranges) <= 1)
        <4>1. Len(ranges) = Len(Specs) /\ Len(Specs) \in Nat
          <5>1. Shape
            BY DEF IInv
          <5> QED
            BY <2>6, <5>1, WriterFacts
        <4>2. Len(ranges) > 1
          BY <2>0, <2>6, Due
        <4> QED
          BY <4>1, <4>2
      <3> HIDE DEF n
      <3>4. sendSize \in Nat => n = sendSize
        BY <3>1, <3>2
      <3> QED
        BY <2>2, <2>3, <3>3, <3>4 DEF n
    <2> QED
      BY <2>5, <2>6
  <1> QED
    BY <1>1, Invariance, PTL
=============================================================================
