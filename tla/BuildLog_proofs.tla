--------------------------- MODULE BuildLog_proofs ---------------------------
(***************************************************************************)
(* Proofs about BuildLog, for any number of attempts, any outputs, slices, *)
(* frame and page limits.                                                  *)
(***************************************************************************)
EXTENDS BuildLog, FiniteSetTheorems, SequenceTheorems, TLAPS

-----------------------------------------------------------------------------
\* The inductive invariant.

DrainState == [offset : Nat, tail : Seq(Byte), discarding : BOOLEAN]
Child == [at : {"none", "running", "exited"}, out : Seq(Byte), written : Nat]
Drain == [at : {"none", "active", "final", "drained", "reconcile", "done"},
          state : DrainState, sequence : Nat, boundary : Nat]
Chunk == [attempt : Attempts, sequence : Nat, number : Nat,
          frame : Seq(Byte) \cup {Oversized, Diagnostic}]
Client == [at : {"watching", "awaiting", "polling", "uncertain", "finished",
                 "paging", "read", "stuck"},
           cursor : Nat, got : Seq(Chunk), settled : SUBSET Attempts]

LogTypeOK ==
    /\ attempts \in [Attempts -> {"absent", "queued", "running", "terminal",
                                  "reconciliation_required"}]
    /\ leased \in [Attempts -> BOOLEAN]
    /\ child \in [Attempts -> Child]
    /\ drain \in [Attempts -> Drain]
    /\ log \subseteq Chunk
    /\ next_log_sequence \in Nat
    /\ client \in Client

\* The build's numbers have no gap and no duplicate.
Dense ==
    /\ IsFiniteSet(log)
    /\ \A c \in log : c.number < next_log_sequence
    /\ \A c, d \in log : c.number = d.number => c = d
    /\ \A n \in Nat : n < next_log_sequence => \E c \in log : c.number = n

\* Newlines up to position n.
Count(bytes, n) == Cardinality({i \in NewLines(bytes) : i <= n})

\* What the drain keeps of the frame it is in, since the last newline.
ParsedTo(out, state) ==
    LET start == End(out, Count(out, state.offset)) IN
    /\ start \in Nat /\ start <= state.offset /\ state.offset <= Len(out)
    /\ start # 0 => out[start] = NewLine
    /\ IF state.discarding
       THEN state.tail = <<>> /\ state.offset - start > MaxFrameBytes
       ELSE /\ state.tail = SubSeq(out, start + 1, state.offset)
            /\ state.offset - start <= MaxFrameBytes

\* The attempt's chunks are the first n frames of its stream, each once.
PublishedTo(a, n) ==
    /\ \A c \in Published(a) :
          c.sequence < n /\ c.frame = Frame(child[a].out, c.sequence + 1)
    /\ \A c, d \in Published(a) : c.sequence = d.sequence => c = d
    /\ \A k \in Nat : k < n => \E c \in Published(a) : c.sequence = k

StreamOK(a) ==
    /\ child[a].written <= Len(child[a].out)
    /\ drain[a].boundary <= child[a].written
    /\ drain[a].state.offset <= child[a].written
    /\ ParsedTo(child[a].out, drain[a].state)
    /\ \E n \in Nat : n <= Count(child[a].out, child[a].written) /\ PublishedTo(a, n)
    /\ drain[a].at \in {"active", "final", "drained"} =>
          /\ drain[a].sequence = Count(child[a].out, drain[a].state.offset)
          /\ drain[a].sequence <= next_log_sequence
          /\ PublishedTo(a, drain[a].sequence)

\* An attempt that has not started has no chunk; one whose stream was drained to
\* the boundary, and one that is terminal, have all its frames.
StagesOK(a) ==
    /\ attempts[a] \in {"absent", "queued"} =>
          child[a] = NoChild /\ drain[a] = NoDrain /\ \A c \in log : c.attempt # a
    /\ drain[a].at = "drained" => EndOfStream(a)
    /\ attempts[a] = "terminal" =>
          /\ drain[a].at = "done" /\ EndOfStream(a)
          /\ PublishedTo(a, Count(child[a].out, drain[a].boundary))

\* What a client was given are the chunks below its cursor.
ClientOK ==
    /\ client.cursor <= next_log_sequence
    /\ Len(client.got) = client.cursor
    /\ \A i \in 1..client.cursor : client.got[i] \in log /\ client.got[i].number = i - 1
    /\ client.at # "stuck"
    /\ \A a \in client.settled : attempts[a] = "terminal"
    /\ client.at = "read" =>
          \A c \in log : c.attempt \in client.settled => c.number < client.cursor

LogInvariant ==
    /\ LogTypeOK
    /\ Dense
    /\ \A a \in Attempts : StreamOK(a) /\ StagesOK(a)
    /\ ClientOK
-----------------------------------------------------------------------------
\* Counting.

LEMMA Least ==
    ASSUME NEW S, S \subseteq Nat, S # {}
    PROVE  \E n \in S : \A m \in S : n <= m
<1> DEFINE R == OpToRel(<, Nat)
<1>1. \A x, y \in Nat : y < x => <<y, x>> \in R
  BY DEF OpToRel
<1>2. IsWellFoundedOn(R, Nat)
  BY NatLessThanWellFounded
<1> HIDE DEF R
<1>3. PICK x \in S : \A y \in S : ~(<<y, x>> \in R)
  BY <1>2, WFMin
<1>4. \A y \in S : ~(y < x)
  BY <1>1, <1>3
<1> QED
  BY <1>4, SMT

UpTo(bytes, n) == {i \in NewLines(bytes) : i <= n}

LEMMA UpToFacts ==
    ASSUME NEW out \in Seq(Byte), NEW n \in Nat
    PROVE  /\ IsFiniteSet(UpTo(out, n)) /\ Count(out, n) = Cardinality(UpTo(out, n))
           /\ Count(out, n) \in Nat
           /\ UpTo(out, n) \subseteq 1..Len(out)
<1>1. UpTo(out, n) \subseteq 1..Len(out) /\ Len(out) \in Nat
  BY DEF UpTo, NewLines
<1>2. IsFiniteSet(1..Len(out))
  BY <1>1, FS_Interval
<1>3. IsFiniteSet(UpTo(out, n))
  BY <1>1, <1>2, FS_Subset
<1>4. Count(out, n) = Cardinality(UpTo(out, n))
  BY DEF Count, UpTo
<1> QED
  BY <1>1, <1>3, <1>4, FS_CardinalityType

\* One more byte: one more newline, or none.
LEMMA CountStep ==
    ASSUME NEW out \in Seq(Byte), NEW n \in Nat, n + 1 <= Len(out)
    PROVE  Count(out, n + 1) = IF out[n + 1] = NewLine THEN Count(out, n) + 1 ELSE Count(out, n)
<1>1. n + 1 \in DOMAIN out /\ \A i \in DOMAIN out : i \in Nat
  OBVIOUS
<1>2. CASE out[n + 1] = NewLine
  <2>1. UpTo(out, n + 1) = UpTo(out, n) \cup {n + 1} /\ n + 1 \notin UpTo(out, n)
    BY <1>1, <1>2 DEF UpTo, NewLines
  <2>2. Cardinality(UpTo(out, n + 1)) = Cardinality(UpTo(out, n)) + 1
    BY <2>1, UpToFacts, FS_AddElement
  <2> QED
    BY <1>2, <2>2, UpToFacts
<1>3. CASE out[n + 1] # NewLine
  <2>1. UpTo(out, n + 1) = UpTo(out, n)
    BY <1>1, <1>3 DEF UpTo, NewLines
  <2> QED
    BY <1>3, <2>1, UpToFacts
<1> QED
  BY <1>2, <1>3

LEMMA CountBounds ==
    ASSUME NEW out \in Seq(Byte), NEW m \in Nat, NEW n \in Nat, m <= n
    PROVE  /\ Count(out, 0) = 0
           /\ Count(out, m) <= Count(out, n)
           /\ (n \in NewLines(out) /\ m < n) => Count(out, m) < Count(out, n)
<1>1. UpTo(out, 0) = {}
  BY DEF UpTo, NewLines
<1>2. UpTo(out, m) \subseteq UpTo(out, n) /\ (n \in NewLines(out) /\ m < n =>
          n \in UpTo(out, n) /\ n \notin UpTo(out, m))
  BY DEF UpTo, NewLines
<1>3. Cardinality(UpTo(out, m)) <= Cardinality(UpTo(out, n))
      /\ (Cardinality(UpTo(out, m)) = Cardinality(UpTo(out, n)) => UpTo(out, m) = UpTo(out, n))
  BY <1>2, UpToFacts, FS_Subset
<1> QED
  BY <1>1, <1>2, <1>3, UpToFacts, FS_EmptySet, SMTT(20)

\* The newline at i is the one its count says it is.
LEMMA EndIs ==
    ASSUME NEW out \in Seq(Byte), NEW i \in NewLines(out)
    PROVE  Count(out, i) \in Nat \ {0} /\ End(out, Count(out, i)) = i
<1>1. \A j \in NewLines(out) : j \in Nat \ {0} /\ Count(out, j) \in Nat
  BY UpToFacts, SMTT(20) DEF NewLines
<1>2. 0 < Count(out, i)
  BY <1>1, CountBounds, UpToFacts
<1>3. \A j \in NewLines(out) : Count(out, j) = Count(out, i) => j = i
  <2> SUFFICES ASSUME NEW j \in NewLines(out), Count(out, j) = Count(out, i), j # i PROVE FALSE
    OBVIOUS
  <2>1. CASE j < i
    BY <1>1, <2>1, CountBounds
  <2>2. CASE i < j
    BY <1>1, <2>2, CountBounds
  <2> QED
    BY <1>1, <2>1, <2>2
<1> DEFINE k == Count(out, i)
<1>4. \A j : Count(out, j) = Cardinality({x \in NewLines(out) : x <= j})
  BY DEF Count
<1>5. k # 0 /\ Cardinality({x \in NewLines(out) : x <= i}) = k
  BY <1>1, <1>2, <1>4
<1> HIDE DEF k
<1>6. /\ End(out, k) \in NewLines(out)
      /\ Cardinality({x \in NewLines(out) : x <= End(out, k)}) = k
  BY <1>5, Zenon DEF End
<1>7. Count(out, End(out, k)) = k
  BY <1>4, <1>6
<1> QED
  BY <1>1, <1>2, <1>3, <1>6, <1>7 DEF k

\* There is a k-th newline while there are k.
LEMMA Kth ==
    ASSUME NEW out \in Seq(Byte), NEW w \in Nat, w <= Len(out),
           NEW k \in Nat \ {0}, k <= Count(out, w)
    PROVE  \E i \in NewLines(out) : i <= w /\ Count(out, i) = k
<1> DEFINE S == {i \in Nat : k <= Count(out, i)}
<1>1. PICK i \in S : \A j \in S : i <= j
  BY Least
<1>2. w \in S /\ i \in Nat /\ i <= w /\ k <= Count(out, i)
  BY <1>1
<1>3. i # 0
  BY <1>2, CountBounds
<1>4. i - 1 \in Nat /\ ~(k <= Count(out, i - 1))
  BY <1>1, <1>2, <1>3
<1>5. Count(out, i) = IF out[i] = NewLine THEN Count(out, i - 1) + 1 ELSE Count(out, i - 1)
  BY <1>2, <1>4, CountStep
<1>6. Count(out, i) \in Nat /\ Count(out, i - 1) \in Nat
  BY <1>2, <1>4, UpToFacts
<1>7. out[i] = NewLine /\ Count(out, i) = k
  BY <1>2, <1>4, <1>5, <1>6
<1>8. i \in NewLines(out)
  BY <1>2, <1>3, <1>7 DEF NewLines
<1> QED
  BY <1>2, <1>7, <1>8

\* What was written so far is a prefix of the output.
LEMMA Prefix ==
    ASSUME NEW out \in Seq(Byte), NEW w \in Nat, w <= Len(out)
    PROVE  /\ SubSeq(out, 1, w) \in Seq(Byte) /\ Len(SubSeq(out, 1, w)) = w
           /\ \A i \in 1..w : SubSeq(out, 1, w)[i] = out[i]
           /\ NewLines(SubSeq(out, 1, w)) = UpTo(out, w)
           /\ \A n \in Nat : n <= w => Count(SubSeq(out, 1, w), n) = Count(out, n)
<1> DEFINE p == SubSeq(out, 1, w)
<1>1. p \in Seq(Byte) /\ Len(p) = w /\ \A i \in 1..w : p[i] = out[i]
  OBVIOUS
<1> HIDE DEF p
<1>2. NewLines(p) = UpTo(out, w)
  BY <1>1 DEF NewLines, UpTo
<1>3. ASSUME NEW n \in Nat, n <= w PROVE Count(p, n) = Count(out, n)
  <2>1. UpTo(p, n) = UpTo(out, n)
    BY <1>2, <1>3 DEF UpTo, NewLines
  <2> QED
    BY <1>1, <2>1, UpToFacts
<1> QED
  BY <1>1, <1>2, <1>3 DEF p

LEMMA FramePrefix ==
    ASSUME NEW out \in Seq(Byte), NEW w \in Nat, w <= Len(out)
    PROVE  /\ Len(FramesOf(SubSeq(out, 1, w))) = Count(out, w)
           /\ \A k \in 1..Count(out, w) : FramesOf(SubSeq(out, 1, w))[k] = Frame(out, k)
<1> DEFINE p == SubSeq(out, 1, w)
<1>1. p \in Seq(Byte) /\ Len(p) = w /\ NewLines(p) = UpTo(out, w)
      /\ \A n \in Nat : n <= w => Count(p, n) = Count(out, n)
  BY Prefix
<1>b. \A i \in 1..w : p[i] = out[i]
  BY Prefix
<1> HIDE DEF p
<1>2. Cardinality(NewLines(p)) = Count(out, w) /\ Count(out, w) \in Nat
  BY <1>1, UpToFacts
<1>3. ASSUME NEW k \in Nat, k <= Count(out, w)
      PROVE  End(p, k) = End(out, k) /\ End(out, k) \in Nat /\ End(out, k) <= w
  <2>1. CASE k = 0
    BY <2>1 DEF End
  <2>2. CASE k # 0
    <3>1. PICK i \in NewLines(out) : i <= w /\ Count(out, i) = k
      BY <1>3, <2>2, Kth
    <3>2. i \in NewLines(p) /\ i \in Nat
      BY <1>1, <3>1 DEF UpTo, NewLines
    <3>3. Count(p, i) = k
      BY <1>1, <3>1, <3>2
    <3> QED
      BY <1>1, <3>1, <3>2, <3>3, EndIs
  <2> QED
    BY <2>1, <2>2
<1>4. ASSUME NEW k \in 1..Count(out, w) PROVE Frame(p, k) = Frame(out, k)
  <2>1. /\ End(p, k) = End(out, k) /\ End(out, k) \in Nat /\ End(out, k) <= w
        /\ End(p, k - 1) = End(out, k - 1) /\ End(out, k - 1) \in Nat
    BY <1>2, <1>3
  <2>2. ASSUME NEW m \in Nat, NEW n \in Nat, n <= w
        PROVE  SubSeq(p, m + 1, n - 1) = SubSeq(out, m + 1, n - 1)
    BY <1>1, <1>b, <2>2
  <2>3. SubSeq(p, End(p, k - 1) + 1, End(p, k) - 1)
           = SubSeq(out, End(out, k - 1) + 1, End(out, k) - 1)
    BY <2>1, <2>2
  <2> QED
    BY <2>3 DEF Frame
<1>5. FramesOf(p) = [k \in 1..Count(out, w) |-> Frame(p, k)]
  BY <1>2 DEF FramesOf
<1> QED
  BY <1>2, <1>4, <1>5 DEF p
-----------------------------------------------------------------------------
\* The drain.

Body == Seq(Byte) \cup {Oversized}

\* One byte.
LEMMA InspectByte ==
    ASSUME NEW out \in Seq(Byte), NEW state \in DrainState, NEW frames \in Seq(Body),
           ParsedTo(out, state), state.offset + 1 <= Len(out)
    PROVE  LET byte == out[state.offset + 1]
               next == Inspect([state |-> state, frames |-> frames], byte)
           IN  /\ next.state \in DrainState /\ next.frames \in Seq(Body)
               /\ next.state.offset = state.offset + 1
               /\ ParsedTo(out, next.state)
               /\ next.frames = IF byte = NewLine
                                THEN Append(frames, Frame(out, Count(out, state.offset) + 1))
                                ELSE frames
<1>a. PICK n, byte, start, body, next :
         /\ n = state.offset /\ byte = out[n + 1]
         /\ start = End(out, Count(out, n))
         /\ body = SubSeq(out, start + 1, n)
         /\ next = Inspect([state |-> state, frames |-> frames], byte)
  OBVIOUS
<1>t. /\ n \in Nat /\ state.tail \in Seq(Byte) /\ state.discarding \in BOOLEAN
      /\ MaxFrameBytes \in Nat \ {0} /\ Len(out) \in Nat /\ n + 1 <= Len(out)
      /\ byte \in Byte
  BY <1>a, LogBounds DEF DrainState
<1>1. /\ start \in Nat /\ start <= n
      /\ start # 0 => out[start] = NewLine
      /\ IF state.discarding
         THEN state.tail = <<>> /\ n - start > MaxFrameBytes
         ELSE state.tail = body /\ n - start <= MaxFrameBytes
  BY <1>a DEF ParsedTo
<1>2. Len(body) = n - start /\ body \in Seq(Byte)
  BY <1>a, <1>t, <1>1
<1>3. n + 1 \in NewLines(out) <=> byte = NewLine
  BY <1>a, <1>t DEF NewLines
<1>4. /\ Count(out, n) \in Nat
      /\ Count(out, n + 1) = IF byte = NewLine THEN Count(out, n) + 1 ELSE Count(out, n)
  BY <1>a, <1>t, CountStep, UpToFacts
<1>5. CASE byte = NewLine
  <2>a. PICK moved, frame :
           /\ moved = [offset |-> n + 1, tail |-> <<>>, discarding |-> FALSE]
           /\ frame = IF state.discarding THEN Oversized ELSE state.tail
    OBVIOUS
  <2>1. next = [state |-> moved, frames |-> Append(frames, frame)]
    BY <1>a, <1>5, <2>a DEF Inspect
  <2>2. End(out, Count(out, n) + 1) = n + 1
    BY <1>3, <1>4, <1>5, EndIs
  <2>3. Frame(out, Count(out, n) + 1) = IF Len(body) > MaxFrameBytes THEN Oversized ELSE body
    <3>1. (Count(out, n) + 1) - 1 = Count(out, n) /\ (n + 1) - 1 = n
      BY <1>t, <1>4
    <3> QED
      BY <1>a, <2>2, <3>1 DEF Frame
  <2>4. frame = Frame(out, Count(out, n) + 1) /\ frame \in Body
    <3>1. CASE state.discarding
      BY <1>t, <1>1, <1>2, <2>a, <2>3, <3>1 DEF Body
    <3>2. CASE ~state.discarding
      BY <1>t, <1>1, <1>2, <2>a, <2>3, <3>2 DEF Body
    <3> QED
      BY <3>1, <3>2
  <2>5. /\ moved \in DrainState /\ moved.offset = n + 1 /\ moved.tail = <<>>
        /\ ~moved.discarding
    BY <1>t, <2>a DEF DrainState
  <2>6. SubSeq(out, (n + 1) + 1, n + 1) = <<>>
    BY <1>t
  <2>7. ParsedTo(out, moved)
    <3>1. End(out, Count(out, n + 1)) = n + 1
      BY <1>4, <1>5, <2>2
    <3>2. (n + 1) - (n + 1) <= MaxFrameBytes /\ out[n + 1] = NewLine
      BY <1>a, <1>t, <1>5
    <3> QED
      BY <1>t, <2>5, <2>6, <3>1, <3>2 DEF ParsedTo
  <2>8. next.state = moved /\ next.frames = Append(frames, frame)
    BY <2>1
  <2>9. Append(frames, frame) \in Seq(Body)
    BY <2>4
  <2> QED
    BY <1>a, <1>5, <2>4, <2>5, <2>7, <2>8, <2>9
<1>6. CASE byte # NewLine
  <2>a. PICK moved :
           moved = IF state.discarding \/ Len(state.tail) >= MaxFrameBytes
                   THEN [offset |-> n + 1, tail |-> <<>>, discarding |-> TRUE]
                   ELSE [offset |-> n + 1, tail |-> Append(state.tail, byte),
                         discarding |-> FALSE]
    OBVIOUS
  <2>1. next = [state |-> moved, frames |-> frames]
    BY <1>a, <1>6, <2>a DEF Inspect
  <2>2. moved \in DrainState /\ moved.offset = n + 1
    BY <1>t, <2>a DEF DrainState
  <2>3. End(out, Count(out, n + 1)) = start
    BY <1>a, <1>4, <1>6
  <2>4. ParsedTo(out, moved)
    <3>1. CASE state.discarding \/ Len(state.tail) >= MaxFrameBytes
      <4>1. n + 1 - start > MaxFrameBytes
        <5>1. CASE state.discarding
          BY <1>t, <1>1, <5>1
        <5>2. CASE ~state.discarding
          BY <1>t, <1>1, <1>2, <3>1, <5>2
        <5> QED
          BY <5>1, <5>2
      <4>2. moved.tail = <<>> /\ moved.discarding
        BY <2>a, <3>1
      <4> QED
        BY <1>t, <1>1, <2>2, <2>3, <4>1, <4>2 DEF ParsedTo
    <3>2. CASE ~(state.discarding \/ Len(state.tail) >= MaxFrameBytes)
      <4>0. ~state.discarding /\ state.tail = body /\ Len(body) < MaxFrameBytes
        BY <1>t, <1>1, <1>2, <3>2
      <4>1. n + 1 - start <= MaxFrameBytes
        BY <1>t, <1>1, <1>2, <4>0
      <4>2. Append(body, byte) = SubSeq(out, start + 1, n + 1)
        <5>1. /\ start + 1 \in 1..Len(out) /\ n + 1 \in (start + 1)..Len(out)
              /\ (n + 1) - 1 = n
          BY <1>t, <1>1
        <5>2. SubSeq(out, start + 1, n + 1) = SubSeq(out, start + 1, n) \o <<out[n + 1]>>
          BY <5>1, SubSeqRecursiveSecond
        <5>3. Append(body, byte) = body \o <<byte>>
          BY <1>t, <1>2, AppendIsConcat
        <5> QED
          BY <1>a, <5>2, <5>3
      <4>3. moved.tail = SubSeq(out, start + 1, n + 1) /\ ~moved.discarding
        BY <2>a, <3>2, <4>0, <4>2
      <4>4. moved.offset - start <= MaxFrameBytes /\ start <= moved.offset
            /\ moved.offset <= Len(out)
        BY <1>t, <1>1, <2>2, <4>1
      <4>5. /\ End(out, Count(out, moved.offset)) = start
            /\ moved.tail = SubSeq(out, start + 1, moved.offset)
        BY <2>2, <2>3, <4>3
      <4> QED
        BY <1>1, <4>3, <4>4, <4>5 DEF ParsedTo
    <3> QED
      BY <3>1, <3>2
  <2>5. next.state = moved /\ next.frames = frames
    BY <2>1
  <2> QED
    BY <1>a, <1>6, <2>2, <2>4, <2>5
<1> QED
  BY <1>5, <1>6

\* A drain is what its bytes do, one after the other.
LEMMA DrainedIs ==
    ASSUME NEW state, NEW slice \in Seq(Byte)
    PROVE  \E run : /\ run = [n \in 0..Len(slice) |->
                                 IF n = 0 THEN [state |-> state, frames |-> <<>>]
                                 ELSE Inspect(run[n - 1], slice[n])]
                    /\ Drained(state, slice) = run[Len(slice)]
<1> DEFINE Is(g, m) == g = [n \in 0..m |->
                               IF n = 0 THEN [state |-> state, frames |-> <<>>]
                               ELSE Inspect(g[n - 1], slice[n])]
           S == {m \in Nat : ~\E g : Is(g, m)}
<1>1. S = {}
  <2> SUFFICES ASSUME S # {} PROVE FALSE
    OBVIOUS
  <2>1. PICK m \in S : \A n \in S : m <= n
    BY Least
  <2>2. m \in Nat /\ ~\E g : Is(g, m)
    BY <2>1
  <2>3. CASE m = 0
    <3>1. \A n \in 0..0 : n = 0
      OBVIOUS
    <3>2. PICK base : base = [n \in 0..0 |-> [state |-> state, frames |-> <<>>]]
      OBVIOUS
    <3>3. base = [n \in 0..0 |-> IF n = 0 THEN [state |-> state, frames |-> <<>>]
                                 ELSE Inspect(base[n - 1], slice[n])]
      BY <3>1, <3>2, Zenon
    <3>4. Is(base, 0)
      BY <3>3
    <3>5. 0 \notin S
      BY <3>4, Zenon
    <3> HIDE DEF S
    <3> QED
      BY <2>1, <2>3, <3>5
  <2>4. CASE m # 0
    <3>1. m - 1 \in Nat /\ m - 1 \notin S
      <4> HIDE DEF S
      <4>1. m - 1 \in Nat /\ ~(m <= m - 1)
        BY <2>2, <2>4
      <4> QED
        BY <2>1, <4>1
    <3>2. PICK g : Is(g, m - 1)
      BY <3>1
    <3> DEFINE h == [n \in 0..m |-> IF n = 0 THEN [state |-> state, frames |-> <<>>]
                                    ELSE Inspect(g[n - 1], slice[n])]
    <3>3. \A n \in 0..(m - 1) : g[n] = IF n = 0 THEN [state |-> state, frames |-> <<>>]
                                       ELSE Inspect(g[n - 1], slice[n])
      BY <3>2
    <3>4. \A n \in 0..m : h[n] = IF n = 0 THEN [state |-> state, frames |-> <<>>]
                                 ELSE Inspect(g[n - 1], slice[n])
      OBVIOUS
    <3>5. \A n \in 0..(m - 1) : n \in 0..m /\ h[n] = g[n]
      BY <2>2, <3>3, <3>4
    <3>6. \A n \in 0..m : n # 0 => n - 1 \in 0..(m - 1)
      BY <2>2
    <3>7. \A n \in 0..m : n # 0 => Inspect(h[n - 1], slice[n]) = Inspect(g[n - 1], slice[n])
      BY <3>5, <3>6
    <3>8. h = [n \in 0..m |-> IF n = 0 THEN [state |-> state, frames |-> <<>>]
                              ELSE Inspect(h[n - 1], slice[n])]
      BY <3>7, Zenon
    <3> HIDE DEF h
    <3>9. \E x : Is(x, m)
      BY <3>8
    <3> QED
      BY <2>2, <3>9
  <2> QED
    BY <2>3, <2>4
<1>2. Len(slice) \in Nat
  OBVIOUS
<1>3. \E g : Is(g, Len(slice))
  BY <1>1, <1>2
<1> DEFINE run == CHOOSE g : Is(g, Len(slice))
<1>4. Is(run, Len(slice))
  BY <1>3, Zenon
<1>5. Drained(state, slice) = run[Len(slice)]
  BY DEF Drained
<1> QED
  BY <1>4, <1>5

LEMMA SliceIs ==
    ASSUME NEW bytes \in Seq(Byte)
    PROVE  \E m \in 0..Len(bytes) : SliceOf(bytes) = SubSeq(bytes, 1, m)
<1> DEFINE Fits(n) == /\ n <= ByteBudget
                      /\ \/ n = 0
                         \/ Cardinality(NewLines(SubSeq(bytes, 1, n - 1))) < FrameBudget
           S == {n \in 0..Len(bytes) : Fits(n)}
           T == {Len(bytes) - n : n \in S}
<1>1. 0 \in S
  BY LogBounds
<1>2. Len(bytes) \in Nat /\ S \subseteq 0..Len(bytes)
  OBVIOUS
<1>3. SliceOf(bytes) = SubSeq(bytes, 1, Max(S))
  BY DEF SliceOf
<1> HIDE DEF S
<1>4. T \subseteq Nat /\ T # {}
  BY <1>1, <1>2
<1>5. PICK t \in T : \A u \in T : t <= u
  BY <1>4, Least
<1>6. PICK m \in S : t = Len(bytes) - m
  BY <1>5
<1>7. \A n \in S : Len(bytes) - n \in T
  OBVIOUS
<1> HIDE DEF T
<1>8. \A n \in S : m >= n
  BY <1>2, <1>5, <1>6, <1>7
<1>9. Max(S) \in S
  BY <1>8 DEF Max
<1> QED
  BY <1>2, <1>3, <1>9

\* What a slice leaves the drain with, and the frames that end in it.
LEMMA BatchIs ==
    ASSUME NEW out \in Seq(Byte), NEW w \in Nat, w <= Len(out),
           NEW state \in DrainState, ParsedTo(out, state), state.offset <= w
    PROVE  LET batch == Batch(state, SubSeq(out, 1, w))
               n == batch.state.offset
               before == Count(out, state.offset)
           IN  /\ batch.state \in DrainState /\ ParsedTo(out, batch.state)
               /\ state.offset <= n /\ n <= w
               /\ batch.frames \in Seq(Body)
               /\ Len(batch.frames) = Count(out, n) - before
               /\ \A j \in 1..Len(batch.frames) : batch.frames[j] = Frame(out, before + j)
<1>a. PICK p, rest, slice, off, before :
         /\ p = SubSeq(out, 1, w) /\ off = state.offset
         /\ rest = SubSeq(p, off + 1, Len(p))
         /\ slice = SliceOf(rest)
         /\ before = Count(out, off)
  OBVIOUS
<1>b. off \in Nat /\ off <= w /\ Len(out) \in Nat /\ before \in Nat
  BY <1>a, UpToFacts DEF DrainState
<1>1. p \in Seq(Byte) /\ Len(p) = w /\ \A i \in 1..w : p[i] = out[i]
  BY <1>a, Prefix
<1>2. /\ rest \in Seq(Byte) /\ Len(rest) = w - off
      /\ \A i \in 1..(w - off) : rest[i] = out[off + i]
  <2>1. \A i \in (off + 1)..w : p[i] \in Byte
    BY <1>b, <1>1
  <2>2. off + 1 \in Int /\ w \in Int
    BY <1>b
  <2>3. /\ rest \in Seq(Byte)
        /\ Len(rest) = IF off + 1 <= w THEN w - (off + 1) + 1 ELSE 0
        /\ \A i \in 1..(w - (off + 1) + 1) : rest[i] = p[off + 1 + i - 1]
    <3>1. rest = SubSeq(p, off + 1, w)
      BY <1>a, <1>1
    <3>2. /\ SubSeq(p, off + 1, w) \in Seq(Byte)
          /\ Len(SubSeq(p, off + 1, w)) = IF off + 1 <= w THEN w - (off + 1) + 1 ELSE 0
          /\ \A i \in 1..(w - (off + 1) + 1) :
                SubSeq(p, off + 1, w)[i] = p[off + 1 + i - 1]
      BY <2>1, <2>2, SubSeqProperties
    <3> QED
      BY <3>1, <3>2, Zenon
  <2>4. \A i \in 1..(w - off) : off + 1 + i - 1 = off + i /\ off + i \in 1..w
    BY <1>b
  <2>5. w - (off + 1) + 1 = w - off
    BY <1>b
  <2> QED
    BY <1>b, <1>1, <2>3, <2>4, <2>5
<1>3. PICK m \in 0..Len(rest) : slice = SubSeq(rest, 1, m)
  BY <1>a, <1>2, SliceIs
<1>4. /\ slice \in Seq(Byte) /\ Len(slice) = m /\ m \in Nat /\ off + m <= w
      /\ \A i \in 1..m : slice[i] = out[off + i]
  <2>1. m \in Nat /\ m <= Len(rest) /\ off + m <= w
    BY <1>b, <1>2, <1>3
  <2>2. slice \in Seq(Byte) /\ Len(slice) = m /\ \A i \in 1..m : slice[i] = rest[i]
    BY <1>2, <1>3, <2>1, Prefix
  <2>3. \A i \in 1..m : i \in 1..(w - off)
    BY <1>b, <1>2, <2>1
  <2> QED
    BY <1>2, <2>1, <2>2, <2>3
<1>5. PICK run : /\ run = [n \in 0..Len(slice) |->
                              IF n = 0 THEN [state |-> state, frames |-> <<>>]
                              ELSE Inspect(run[n - 1], slice[n])]
                 /\ Drained(state, slice) = run[Len(slice)]
  BY <1>4, DrainedIs
<1>6. /\ run[0] = [state |-> state, frames |-> <<>>]
      /\ \A n \in 0..m : n # 0 => run[n] = Inspect(run[n - 1], out[off + n])
  <2>1. \A n \in 0..m : run[n] = IF n = 0 THEN [state |-> state, frames |-> <<>>]
                                 ELSE Inspect(run[n - 1], slice[n])
    BY <1>4, <1>5
  <2>2. 0 \in 0..m /\ \A n \in 0..m : n # 0 => n \in 1..m
    BY <1>4
  <2> QED
    BY <1>4, <2>1, <2>2
<1> DEFINE Good(n) ==
              /\ run[n] = [state |-> run[n].state, frames |-> run[n].frames]
              /\ run[n].state \in DrainState /\ ParsedTo(out, run[n].state)
              /\ run[n].state.offset = off + n
              /\ run[n].frames \in Seq(Body)
              /\ Len(run[n].frames) = Count(out, off + n) - before
              /\ \A j \in 1..Len(run[n].frames) : run[n].frames[j] = Frame(out, before + j)
<1>7. Good(0)
  <2>1. run[0].state = state /\ run[0].frames = <<>>
    BY <1>6
  <2>2. off + 0 = off /\ before - before = 0
    BY <1>b
  <2>3. <<>> \in Seq(Body) /\ Len(<<>>) = 0
    OBVIOUS
  <2> QED
    BY <1>a, <1>6, <2>1, <2>2, <2>3
<1>8. ASSUME NEW n \in Nat, n + 1 <= m, Good(n) PROVE Good(n + 1)
  <2>a. PICK now, frames, byte, next :
           /\ now = run[n].state /\ frames = run[n].frames
           /\ byte = out[now.offset + 1] /\ next = run[n + 1]
    OBVIOUS
  <2>1. /\ run[n] = [state |-> now, frames |-> frames]
        /\ now \in DrainState /\ ParsedTo(out, now) /\ now.offset = off + n
        /\ frames \in Seq(Body)
        /\ Len(frames) = Count(out, off + n) - before
        /\ \A j \in 1..Len(frames) : frames[j] = Frame(out, before + j)
    BY <1>8, <2>a
  <2>2. next = Inspect([state |-> now, frames |-> frames], byte)
    <3>1. n + 1 \in 0..m /\ n + 1 # 0 /\ (n + 1) - 1 = n /\ off + (n + 1) = now.offset + 1
      BY <1>4, <1>8, <1>b, <2>1
    <3> QED
      BY <1>6, <2>a, <2>1, <3>1
  <2>3. now.offset + 1 <= Len(out) /\ (off + n) + 1 = off + (n + 1) /\ off + n \in Nat
    BY <1>4, <1>8, <1>b, <2>1
  <2>4. /\ next.state \in DrainState /\ next.frames \in Seq(Body)
        /\ next.state.offset = now.offset + 1
        /\ ParsedTo(out, next.state)
        /\ next.frames = IF byte = NewLine
                         THEN Append(frames, Frame(out, Count(out, now.offset) + 1))
                         ELSE frames
    BY <2>a, <2>1, <2>2, <2>3, InspectByte, SMTT(20)
  <2>5. next = [state |-> next.state, frames |-> next.frames]
    BY <2>2, Zenon DEF Inspect
  <2>6. Count(out, off + (n + 1)) = IF byte = NewLine THEN Count(out, off + n) + 1
                                    ELSE Count(out, off + n)
    BY <2>a, <2>1, <2>3, CountStep
  <2>7. Count(out, off + n) \in Nat /\ before <= Count(out, off + n)
    <3>1. off <= off + n
      BY <1>b, <1>8
    <3> QED
      BY <1>a, <1>b, <2>3, <3>1, UpToFacts, CountBounds
  <2>8. CASE byte = NewLine
    <3>1. PICK frame : frame = Frame(out, Count(out, now.offset) + 1)
      OBVIOUS
    <3>2. next.frames = Append(frames, frame) /\ Len(next.frames) = Len(frames) + 1
      <4>1. next.frames = Append(frames, frame) /\ frames \in Seq(Body)
        BY <2>1, <2>4, <2>8, <3>1, Zenon
      <4> QED
        BY <4>1
    <3>3. Len(next.frames) = Count(out, off + (n + 1)) - before
      BY <1>b, <2>1, <2>6, <2>7, <2>8, <3>2
    <3>4. before + (Len(frames) + 1) = Count(out, now.offset) + 1
      BY <1>b, <2>1, <2>7
    <3>5. \A j \in 1..Len(next.frames) : next.frames[j] = Frame(out, before + j)
      <4> SUFFICES ASSUME NEW j \in 1..Len(next.frames)
                   PROVE  next.frames[j] = Frame(out, before + j)
        OBVIOUS
      <4>1. CASE j = Len(frames) + 1
        BY <2>1, <3>1, <3>2, <3>4, <4>1
      <4>2. CASE j # Len(frames) + 1
        <5>1. j \in 1..Len(frames)
          BY <2>1, <3>2, <4>2
        <5> QED
          BY <2>1, <3>2, <5>1
      <4> QED
        BY <4>1, <4>2
    <3> QED
      BY <2>a, <2>1, <2>3, <2>4, <2>5, <3>3, <3>5
  <2>9. CASE byte # NewLine
    BY <2>a, <2>1, <2>3, <2>4, <2>5, <2>6, <2>9
  <2> QED
    BY <2>8, <2>9
<1> HIDE DEF Good
<1>9. Good(m)
  <2> DEFINE S == {n \in Nat : n <= m /\ ~Good(n)}
  <2> SUFFICES ASSUME S # {} PROVE FALSE
    BY <1>4
  <2>1. PICK n \in S : \A k \in S : n <= k
    BY Least
  <2>2. n \in Nat /\ n <= m /\ ~Good(n)
    BY <2>1
  <2>3. n # 0
    BY <1>7, <2>2
  <2>4. n - 1 \in Nat /\ n - 1 <= m /\ (n - 1) + 1 = n /\ ~(n <= n - 1)
    BY <1>4, <2>2, <2>3
  <2>5. Good(n - 1)
    BY <2>1, <2>4
  <2> HIDE DEF S
  <2>6. Good((n - 1) + 1)
    BY <1>8, <2>2, <2>4, <2>5
  <2> QED
    BY <2>2, <2>4, <2>6
<1>10. Batch(state, SubSeq(out, 1, w)) = run[m]
  BY <1>a, <1>4, <1>5 DEF Batch
<1>11. PICK batch : batch = Batch(state, SubSeq(out, 1, w))
  OBVIOUS
<1>12. /\ batch.state \in DrainState /\ ParsedTo(out, batch.state)
       /\ batch.state.offset = off + m
       /\ batch.frames \in Seq(Body)
       /\ Len(batch.frames) = Count(out, batch.state.offset) - before
       /\ \A j \in 1..Len(batch.frames) : batch.frames[j] = Frame(out, before + j)
  BY <1>9, <1>10, <1>11 DEF Good
<1>13. off <= batch.state.offset /\ batch.state.offset <= w
  BY <1>b, <1>4, <1>12
<1> QED
  BY <1>a, <1>11, <1>12, <1>13
-----------------------------------------------------------------------------
\* Numbers without gaps.

\* f numbers S from a to b, each number once: they are that many.
Numbers(f, S, a, b) ==
    /\ \A c \in S : f[c] \in a..b
    /\ \A c, d \in S : f[c] = f[d] => c = d
    /\ \A n \in a..b : \E c \in S : f[c] = n

LEMMA Numbered ==
    ASSUME NEW S, NEW a \in Int, NEW b \in Int, NEW f, Numbers(f, S, a, b)
    PROVE  IsFiniteSet(S) /\ Cardinality(S) = IF a > b THEN 0 ELSE b - a + 1
<1> DEFINE g == [n \in a..b |-> CHOOSE c \in S : f[c] = n]
<1>1. \A n \in a..b : g[n] \in S /\ f[g[n]] = n
  BY DEF Numbers
<1>2. g \in [a..b -> S]
  BY <1>1
<1>3. DOMAIN g = a..b
  OBVIOUS
<1> HIDE DEF g
<1>4. \A m, n \in a..b : g[m] = g[n] => m = n
  BY <1>1
<1>5. \A c \in S : \E n \in a..b : g[n] = c
  BY <1>1 DEF Numbers
<1>6. g \in Bijection(a..b, S)
  BY <1>2, <1>3, <1>4, <1>5 DEF Bijection, Injection, IsInjective, Surjection
<1>7. ExistsBijection(a..b, S)
  BY <1>6 DEF ExistsBijection
<1> QED
  BY <1>7, FS_Bijection, FS_Interval

\* The chunks with the numbers of a span, in order.
Within(from, to) == {c \in log : from <= c.number /\ c.number < to}

LEMMA Span ==
    ASSUME log \subseteq Chunk, next_log_sequence \in Nat, Dense,
           NEW from \in Nat, NEW to \in Nat, from <= to, to <= next_log_sequence
    PROVE  /\ InOrder(Within(from, to)) \in Seq(Chunk)
           /\ Len(InOrder(Within(from, to))) = to - from
           /\ \A i \in 1..(to - from) : /\ InOrder(Within(from, to))[i] \in log
                                         /\ InOrder(Within(from, to))[i].number = from + i - 1
<1>0. PICK S : S = Within(from, to)
  OBVIOUS
<1>s. S = {c \in log : from <= c.number /\ c.number < to}
  BY <1>0 DEF Within
<1> DEFINE f == [c \in log |-> c.number]
           Below(c) == {d \in S : d.number < c.number}
           UpThrough(b) == {d \in S : d.number <= b}
           rank(i) == CHOOSE c \in S : Cardinality(Below(c)) = i - 1
<1>1. \A c \in log : c.number \in Nat /\ f[c] = c.number
  BY DEF Chunk
<1>2. S \subseteq log
  BY <1>s
<1>3. ASSUME NEW b \in Int, b < to
      PROVE  Cardinality(UpThrough(b)) = IF from > b THEN 0 ELSE b - from + 1
  <2>p. PICK P, h : P = UpThrough(b) /\ h = f
    OBVIOUS
  <2>1. \A d \in P : h[d] \in from..b
    BY <1>1, <1>3, <1>s, <2>p
  <2>2. \A c, d \in P : h[c] = h[d] => c = d
    BY <1>1, <1>s, <2>p DEF Dense
  <2>3. ASSUME NEW n \in from..b PROVE \E c \in P : h[c] = n
    <3>1. n \in Nat /\ from <= n /\ n <= b /\ n < to /\ n < next_log_sequence
      BY <1>3
    <3>2. PICK c \in log : c.number = n
      BY <3>1 DEF Dense
    <3>3. c \in P /\ h[c] = n
      BY <1>1, <1>s, <2>p, <3>1, <3>2
    <3> QED
      BY <3>3
  <2>4. from \in Int
    OBVIOUS
  <2>5. \A n \in from..b : \E c \in P : h[c] = n
    BY <2>3
  <2>6. b \in Int
    BY <1>3
  <2>7. Numbers(h, P, from, b)
    BY <2>1, <2>2, <2>5 DEF Numbers
  <2>8. Cardinality(P) = IF from > b THEN 0 ELSE b - from + 1
    BY <2>4, <2>6, <2>7, Numbered
  <2> QED
    BY <2>p, <2>8
<1>4. Cardinality(S) = to - from
  <2>1. UpThrough(to - 1) = S
    BY <1>1, <1>s
  <2>2. to - 1 \in Int /\ to - 1 < to
    OBVIOUS
  <2> HIDE DEF UpThrough
  <2>3. Cardinality(UpThrough(to - 1)) = IF from > to - 1 THEN 0 ELSE to - 1 - from + 1
    BY <1>3, <2>2
  <2> QED
    BY <2>1, <2>3
<1>5. ASSUME NEW c \in S PROVE Cardinality(Below(c)) = c.number - from
  <2>1. c.number \in Nat /\ from <= c.number /\ c.number < to
    BY <1>1, <1>s
  <2>2. UpThrough(c.number - 1) = Below(c)
    BY <1>1, <1>s, <2>1
  <2>3. c.number - 1 \in Int /\ c.number - 1 < to
    BY <2>1
  <2> HIDE DEF UpThrough, Below
  <2>4. Cardinality(UpThrough(c.number - 1))
           = IF from > c.number - 1 THEN 0 ELSE c.number - 1 - from + 1
    BY <1>3, <2>3
  <2> QED
    BY <2>1, <2>2, <2>4
<1>6. ASSUME NEW i \in 1..(to - from)
      PROVE  rank(i) \in log /\ rank(i).number = from + i - 1
  <2>1. from + i - 1 \in Nat /\ from <= from + i - 1 /\ from + i - 1 < to
    OBVIOUS
  <2>2. PICK c \in log : c.number = from + i - 1
    BY <2>1 DEF Dense
  <2>3. c \in S /\ c.number - from = i - 1
    BY <1>s, <2>1, <2>2
  <2>4. \E x \in S : Cardinality(Below(x)) = i - 1
    BY <1>5, <2>3
  <2>5. rank(i) \in S /\ Cardinality(Below(rank(i))) = i - 1
    BY <2>4, Zenon
  <2>6. PICK r : r = rank(i)
    OBVIOUS
  <2>7. r \in S /\ r.number - from = i - 1 /\ r.number \in Nat
    BY <1>1, <1>2, <1>5, <2>5, <2>6
  <2> QED
    BY <1>2, <2>6, <2>7
<1>7. InOrder(S) = [i \in 1..(to - from) |-> rank(i)]
  BY <1>4 DEF InOrder
<1> HIDE DEF rank
<1>8. to - from \in Nat
  OBVIOUS
<1>9. InOrder(S) \in [1..(to - from) -> Chunk]
  BY <1>6, <1>7
<1>10. PICK s : s = InOrder(S)
  OBVIOUS
<1>11. s \in Seq(Chunk) /\ Len(s) = to - from
  BY <1>8, <1>9, <1>10
<1>12. \A i \in 1..(to - from) : s[i] = rank(i)
  BY <1>7, <1>10
<1> QED
  BY <1>0, <1>6, <1>10, <1>11, <1>12
-----------------------------------------------------------------------------
\* Pages.

\* A page is the next chunks, one at least if more are said to follow and all
\* there are if none.
LEMMA Feedback ==
    ASSUME log \subseteq Chunk, next_log_sequence \in Nat, Dense,
           NEW from \in Nat, from <= next_log_sequence, NEW limit \in Nat \ {0}
    PROVE  LET answer == ReadFeedback(from, limit) IN
           /\ answer.page \in Seq(Chunk) /\ answer.next \in Nat
           /\ answer.next = from + Len(answer.page)
           /\ answer.next <= next_log_sequence
           /\ \A i \in 1..Len(answer.page) :
                 answer.page[i] \in log /\ answer.page[i].number = from + i - 1
           /\ answer.more => answer.next > from
           /\ ~answer.more => answer.next = next_log_sequence
<1>a. PICK S, rows, n : S = {c \in log : c.number >= from} /\ rows = InOrder(S)
                        /\ n = next_log_sequence - from
  OBVIOUS
<1>1. S = Within(from, next_log_sequence)
  BY <1>a DEF Dense, Chunk, Within
<1>2. /\ rows \in Seq(Chunk) /\ Len(rows) = n
      /\ \A i \in 1..n : rows[i] \in log /\ rows[i].number = from + i - 1
  <2>1. from <= next_log_sequence /\ next_log_sequence <= next_log_sequence
    OBVIOUS
  <2>2. /\ InOrder(S) \in Seq(Chunk) /\ Len(InOrder(S)) = next_log_sequence - from
        /\ \A i \in 1..(next_log_sequence - from) :
              InOrder(S)[i] \in log /\ InOrder(S)[i].number = from + i - 1
    BY <1>1, <2>1, Span
  <2> QED
    BY <1>a, <2>2
<1>b. PICK more, page, k :
         /\ more = (Len(rows) > limit)
         /\ page = IF more THEN SubSeq(rows, 1, limit) ELSE rows
         /\ k = IF more THEN limit ELSE n
  OBVIOUS
<1>3. n \in Nat /\ k \in Nat /\ k <= n /\ from + k <= next_log_sequence
      /\ (more => k > 0) /\ (~more => from + k = next_log_sequence)
  <2>1. n \in Nat /\ from + n = next_log_sequence
    BY <1>a
  <2>2. CASE Len(rows) > limit
    <3>1. more /\ k = limit
      BY <1>b, <2>2
    <3> QED
      BY <1>2, <2>1, <2>2, <3>1
  <2>3. CASE ~(Len(rows) > limit)
    <3>1. ~more /\ k = n
      BY <1>b, <2>3
    <3> QED
      BY <1>2, <2>1, <2>3, <3>1
  <2> QED
    BY <2>2, <2>3
<1>4. /\ page \in Seq(Chunk) /\ Len(page) = k
      /\ \A i \in 1..k : page[i] \in log /\ page[i].number = from + i - 1
  <2>1. CASE more
    <3>1. limit \in Nat /\ limit <= Len(rows)
      BY <1>b, <1>2, <1>3, <2>1
    <3>2. /\ SubSeq(rows, 1, limit) \in Seq(Chunk) /\ Len(SubSeq(rows, 1, limit)) = limit
          /\ \A i \in 1..limit : SubSeq(rows, 1, limit)[i] = rows[i]
      BY <1>2, <3>1
    <3>3. \A i \in 1..limit : i \in 1..n
      BY <1>2, <1>3, <3>1
    <3> QED
      BY <1>b, <1>2, <2>1, <3>2, <3>3
  <2>2. CASE ~more
    BY <1>b, <1>2, <2>2
  <2> QED
    BY <2>1, <2>2
<1>5. NextSequence(from, rows, page) = from + k
  <2>1. CASE k = 0
    <3>1. page = <<>>
      BY <1>4, <2>1
    <3> QED
      BY <2>1, <3>1 DEF NextSequence
  <2>2. CASE k # 0
    <3>1. page # <<>> /\ Last(page) = page[k] /\ page[k].number = from + k - 1
      BY <1>3, <1>4, <2>2 DEF Last
    <3>2. (from + k - 1) + 1 = from + k
      BY <1>3
    <3> QED
      BY <3>1, <3>2 DEF NextSequence
  <2> QED
    BY <2>1, <2>2
<1>6. ReadFeedback(from, limit) = [more |-> more, page |-> page, next |-> from + k]
  BY <1>a, <1>b, <1>5 DEF ReadFeedback
<1>7. PICK answer : answer = ReadFeedback(from, limit)
  OBVIOUS
<1>8. answer.more = more /\ answer.page = page /\ answer.next = from + k
  BY <1>6, <1>7
<1>9. /\ answer.page \in Seq(Chunk) /\ answer.next \in Nat
      /\ answer.next = from + Len(answer.page) /\ answer.next <= next_log_sequence
      /\ \A i \in 1..Len(answer.page) :
            answer.page[i] \in log /\ answer.page[i].number = from + i - 1
      /\ answer.more => answer.next > from
      /\ ~answer.more => answer.next = next_log_sequence
  BY <1>3, <1>4, <1>8
<1> QED
  BY <1>7, <1>9

LEMMA ClientType ==
    ASSUME LogTypeOK
    PROVE  /\ client.cursor \in Nat /\ client.got \in Seq(Chunk)
           /\ client.settled \subseteq Attempts
           /\ log \subseteq Chunk /\ next_log_sequence \in Nat
           /\ client = [at |-> client.at, cursor |-> client.cursor, got |-> client.got,
                        settled |-> client.settled]
BY DEF LogTypeOK, Client

\* Only the client moves.
LEMMA ClientMoves ==
    ASSUME LogInvariant, UNCHANGED <<attempts, leased, child, drain, table>>,
           client' \in Client, ClientOK'
    PROVE  LogInvariant'
<1>1. UNCHANGED <<attempts, leased, child, drain, log, next_log_sequence>>
  BY DEF table
<1>2. LogTypeOK'
  BY <1>1 DEF LogInvariant, LogTypeOK
<1>3. Dense'
  BY <1>1 DEF LogInvariant, Dense
<1>4. ASSUME NEW a \in Attempts PROVE StreamOK(a)' /\ StagesOK(a)'
  <2>1. StreamOK(a) /\ StagesOK(a)
    BY DEF LogInvariant
  <2>2. \A n : PublishedTo(a, n)' <=> PublishedTo(a, n)
    BY <1>1 DEF PublishedTo, Published
  <2>3. EndOfStream(a)' <=> EndOfStream(a)
    BY <1>1 DEF EndOfStream
  <2> QED
    BY <1>1, <2>1, <2>2, <2>3 DEF StreamOK, StagesOK
<1> QED
  BY <1>2, <1>3, <1>4 DEF LogInvariant

\* A client that goes on from its cursor.
LEMMA Follows ==
    ASSUME LogInvariant, NEW limit \in Nat \ {0}, NEW at,
           at \in {"watching", "uncertain", "finished", "paging", "read"},
           at = "read" => ~ReadFeedback(client.cursor, limit).more,
           Receives(Onwards(at, ReadFeedback(client.cursor, limit)))
    PROVE  LogInvariant'
<1>a. PICK answer : answer = ReadFeedback(client.cursor, limit)
  OBVIOUS
<1>t. LogTypeOK /\ Dense /\ ClientOK
  BY DEF LogInvariant
<1>1. /\ answer.page \in Seq(Chunk) /\ answer.next \in Nat
      /\ answer.next = client.cursor + Len(answer.page)
      /\ answer.next <= next_log_sequence
      /\ \A i \in 1..Len(answer.page) :
            answer.page[i] \in log /\ answer.page[i].number = client.cursor + i - 1
      /\ ~answer.more => answer.next = next_log_sequence
  BY <1>a, <1>t, ClientType, Feedback DEF ClientOK
<1>2. client' = [client EXCEPT !.at = at, !.got = @ \o answer.page, !.cursor = answer.next]
  BY <1>a DEF Receives, Onwards
<1>3. UNCHANGED <<attempts, leased, child, drain, table>>
  BY DEF Receives
<1>b. PICK got : got = client.got \o answer.page
  OBVIOUS
<1>4. /\ client.cursor \in Nat /\ client.got \in Seq(Chunk) /\ Len(client.got) = client.cursor
      /\ \A i \in 1..client.cursor : client.got[i] \in log /\ client.got[i].number = i - 1
      /\ \A a \in client.settled : attempts[a] = "terminal"
  BY <1>t, ClientType DEF ClientOK
<1>5. /\ got \in Seq(Chunk) /\ Len(got) = answer.next
      /\ \A i \in 1..answer.next : got[i] = IF i <= client.cursor THEN client.got[i]
                                            ELSE answer.page[i - client.cursor]
  <2>1. /\ got \in Seq(Chunk) /\ Len(got) = Len(client.got) + Len(answer.page)
        /\ \A i \in 1..Len(client.got) + Len(answer.page) :
              got[i] = IF i <= Len(client.got) THEN client.got[i]
                       ELSE answer.page[i - Len(client.got)]
    <3>1. client.got \in Seq(Chunk) /\ answer.page \in Seq(Chunk)
      BY <1>1, <1>4
    <3> QED
      BY <3>1, <1>b, ConcatProperties
  <2> QED
    BY <1>1, <1>4, <2>1
<1>6. /\ client'.at = at /\ client'.got = got /\ client'.cursor = answer.next
      /\ client'.settled = client.settled
  BY <1>t, <1>2, <1>b DEF LogTypeOK, Client
<1>7. client' \in Client
  BY <1>t, <1>1, <1>2, <1>5, <1>b DEF LogTypeOK, Client
<1>8. UNCHANGED <<attempts, log, next_log_sequence>>
  BY <1>3 DEF table
<1>9. ASSUME NEW i \in 1..answer.next PROVE got[i] \in log /\ got[i].number = i - 1
  <2>1. CASE i <= client.cursor
    <3>1. i \in 1..client.cursor /\ got[i] = client.got[i]
      BY <1>1, <1>4, <1>5, <1>9, <2>1
    <3> QED
      BY <1>4, <3>1
  <2>2. CASE ~(i <= client.cursor)
    <3>1. i - client.cursor \in 1..Len(answer.page) /\ client.cursor + (i - client.cursor) - 1 = i - 1
      BY <1>1, <1>4, <2>2, SMTT(20)
    <3>2. got[i] = answer.page[i - client.cursor]
      BY <1>5, <2>2
    <3> QED
      BY <1>1, <3>1, <3>2
  <2> QED
    BY <2>1, <2>2
<1>10. at = "read" => \A c \in log : c.number < answer.next
  BY <1>a, <1>1, <1>t DEF Dense
<1>11. ClientOK'
  BY <1>1, <1>4, <1>5, <1>6, <1>8, <1>9, <1>10 DEF ClientOK
<1> QED
  BY <1>3, <1>7, <1>11, ClientMoves

LEMMA Limits ==
    ASSUME NEW limit \in 1..PageLimit
    PROVE  limit \in Nat \ {0}
BY LogBounds

LEMMA WatchStep == ASSUME LogInvariant, Watch PROVE LogInvariant'
<1>1. PICK limit \in 1..PageLimit :
         LET answer == ReadFeedback(client.cursor, limit) IN
         Receives(Onwards(CASE Status = "reconciliation_required" -> "uncertain"
                            [] Status = "terminal" /\ ~answer.more -> "finished"
                            [] OTHER -> "watching", answer))
  BY DEF Watch
<1>2. PICK at : at = CASE Status = "reconciliation_required" -> "uncertain"
                       [] Status = "terminal" /\ ~ReadFeedback(client.cursor, limit).more -> "finished"
                       [] OTHER -> "watching"
  OBVIOUS
<1>3. at \in {"uncertain", "finished", "watching"}
  BY <1>2
<1>4. Receives(Onwards(at, ReadFeedback(client.cursor, limit)))
  BY <1>1, <1>2
<1> QED
  BY <1>3, <1>4, Limits, Follows

LEMMA ReadPageStep == ASSUME LogInvariant, ReadPage PROVE LogInvariant'
<1>t. LogTypeOK /\ Dense /\ ClientOK
  BY DEF LogInvariant
<1>1. PICK limit \in 1..PageLimit :
         LET answer == ReadFeedback(client.cursor, limit) IN
         Receives(Onwards(IF ~answer.more THEN "read"
                          ELSE IF answer.next > client.cursor THEN "paging"
                          ELSE "stuck", answer))
  BY DEF ReadPage
<1>2. PICK answer : answer = ReadFeedback(client.cursor, limit)
  OBVIOUS
<1>3. answer.more => answer.next > client.cursor
  BY <1>2, <1>t, ClientType, Limits, Feedback DEF ClientOK
<1>4. PICK at : at = IF ~answer.more THEN "read" ELSE "paging"
  OBVIOUS
<1>5. Receives(Onwards(at, answer))
  BY <1>1, <1>2, <1>3, <1>4
<1>6. at \in {"read", "paging"} /\ (at = "read" => ~answer.more)
  BY <1>4
<1> QED
  BY <1>2, <1>5, <1>6, Limits, Follows

LEMMA AwaitStep == ASSUME LogInvariant, AwaitTerminal PROVE LogInvariant'
<1>t. LogTypeOK /\ ClientOK
  BY DEF LogInvariant
<1>1. client' = [client EXCEPT !.at = "paging", !.settled = Settled]
      /\ UNCHANGED <<attempts, leased, child, drain, table>>
  BY DEF AwaitTerminal, Receives
<1>2. Settled \subseteq Attempts /\ \A a \in Settled : attempts[a] = "terminal"
  BY DEF Settled
<1>3. client' \in Client
  BY <1>t, <1>1, <1>2 DEF LogTypeOK, Client
<1>4. /\ client'.at = "paging" /\ client'.settled = Settled
      /\ client'.cursor = client.cursor /\ client'.got = client.got
  BY <1>t, <1>1 DEF LogTypeOK, Client
<1>5. ClientOK'
  BY <1>t, <1>1, <1>2, <1>4 DEF ClientOK, table
<1> QED
  BY <1>1, <1>3, <1>5, ClientMoves

LEMMA PollStep == ASSUME LogInvariant, Poll PROVE LogInvariant'
<1>t. LogTypeOK /\ Dense /\ ClientOK
  BY DEF LogInvariant
<1>1. PICK limit \in 1..PageLimit :
         LET answer == ReadFeedback(0, limit) IN
         /\ ~answer.more
         /\ Receives([at |-> "read", cursor |-> answer.next, got |-> answer.page,
                      settled |-> Settled])
  BY DEF Poll
<1>2. PICK answer : answer = ReadFeedback(0, limit)
  OBVIOUS
<1>3. /\ client' = [at |-> "read", cursor |-> answer.next, got |-> answer.page,
                    settled |-> Settled]
      /\ UNCHANGED <<attempts, leased, child, drain, table>> /\ ~answer.more
  BY <1>1, <1>2 DEF Receives
<1>4. /\ answer.page \in Seq(Chunk) /\ answer.next \in Nat
      /\ answer.next = 0 + Len(answer.page)
      /\ \A i \in 1..Len(answer.page) :
            answer.page[i] \in log /\ answer.page[i].number = 0 + i - 1
      /\ answer.next = next_log_sequence
  <2>1. 0 \in Nat /\ 0 <= next_log_sequence
    BY <1>t, ClientType
  <2> QED
    BY <1>2, <1>3, <1>t, <2>1, ClientType, Limits, Feedback
<1>5. Settled \subseteq Attempts /\ \A a \in Settled : attempts[a] = "terminal"
  BY DEF Settled
<1>6. client' \in Client
  BY <1>3, <1>4, <1>5 DEF Client
<1>7. UNCHANGED <<attempts, log, next_log_sequence>>
  BY <1>3 DEF table
<1>8. /\ client'.at = "read" /\ client'.cursor = answer.next /\ client'.got = answer.page
      /\ client'.settled = Settled
  BY <1>3
<1>9. ClientOK'
  <2>1. client'.cursor <= next_log_sequence' /\ Len(client'.got) = client'.cursor
    BY <1>4, <1>7, <1>8
  <2>2. \A i \in 1..client'.cursor : client'.got[i] \in log' /\ client'.got[i].number = i - 1
    BY <1>4, <1>7, <1>8
  <2>3. \A c \in log' : c.number < client'.cursor
    BY <1>t, <1>4, <1>7, <1>8 DEF Dense
  <2> QED
    BY <1>5, <1>7, <1>8, <2>1, <2>2, <2>3 DEF ClientOK
<1> QED
  BY <1>3, <1>6, <1>9, ClientMoves
-----------------------------------------------------------------------------
\* Steps of an attempt.

ChunksOf(a) == {c \in log : c.attempt = a}

\* The log grows at its end, by chunks of attempts that are not terminal.
Grows ==
    /\ log \subseteq log' /\ next_log_sequence <= next_log_sequence'
    /\ \A c \in log' \ log :
          next_log_sequence <= c.number /\ attempts[c.attempt] # "terminal"
    /\ \A a \in Attempts : attempts[a] = "terminal" => attempts'[a] = "terminal"
    /\ client' = client

LEMMA ClientKept ==
    ASSUME LogTypeOK, ClientOK, next_log_sequence' \in Nat, Grows
    PROVE  ClientOK'
<1>1. /\ client.cursor \in Nat /\ next_log_sequence \in Nat /\ client.settled \subseteq Attempts
      /\ client.cursor <= next_log_sequence
  BY ClientType DEF ClientOK
<1>2. client.cursor <= next_log_sequence'
  BY <1>1 DEF Grows
<1>3. ASSUME client.at = "read", NEW c \in log', c.attempt \in client.settled
      PROVE  c.number < client.cursor
  <2>1. attempts[c.attempt] = "terminal"
    BY <1>3 DEF ClientOK
  <2>2. c \in log
    BY <1>3, <2>1 DEF Grows
  <2> QED
    BY <1>3, <2>2 DEF ClientOK
<1>4. \A i \in 1..client.cursor : client.got[i] \in log' /\ client.got[i].number = i - 1
  BY DEF ClientOK, Grows
<1>5. \A a \in client.settled : attempts'[a] = "terminal"
  BY <1>1 DEF ClientOK, Grows
<1> QED
  BY <1>2, <1>3, <1>4, <1>5 DEF ClientOK, Grows

\* An attempt that a step leaves alone.
Kept(a) ==
    /\ attempts'[a] = attempts[a] /\ child'[a] = child[a] /\ drain'[a] = drain[a]
    /\ ChunksOf(a)' = ChunksOf(a)

LEMMA PublishedKept ==
    ASSUME NEW a \in Attempts, ChunksOf(a)' = ChunksOf(a), child'[a].out = child[a].out, NEW n
    PROVE  PublishedTo(a, n)' <=> PublishedTo(a, n)
<1>1. Published(a)' = Published(a)
  <2>1. Published(a) = {c \in ChunksOf(a) : c.frame # Diagnostic}
    BY DEF Published, ChunksOf
  <2>2. Published(a)' = {c \in ChunksOf(a)' : c.frame # Diagnostic}
    BY DEF Published, ChunksOf
  <2> QED
    BY <2>1, <2>2
<1> QED
  BY <1>1 DEF PublishedTo

LEMMA KeptOK ==
    ASSUME NEW a \in Attempts, LogTypeOK, next_log_sequence' \in Nat,
           next_log_sequence <= next_log_sequence',
           StreamOK(a), StagesOK(a), Kept(a)
    PROVE  StreamOK(a)' /\ StagesOK(a)'
<1>1. \A n : PublishedTo(a, n)' <=> PublishedTo(a, n)
  BY PublishedKept DEF Kept
<1>2. EndOfStream(a)' <=> EndOfStream(a)
  BY DEF Kept, EndOfStream
<1>3. (\A c \in log : c.attempt # a) => \A c \in log' : c.attempt # a
  BY DEF Kept, ChunksOf
<1>4. drain[a].sequence \in Nat /\ next_log_sequence \in Nat
  BY DEF LogTypeOK, Drain
<1>5. drain[a].sequence <= next_log_sequence => drain[a].sequence <= next_log_sequence'
  BY <1>4
<1> QED
  BY <1>1, <1>2, <1>3, <1>5 DEF StreamOK, StagesOK, Kept

LEMMA OneMoves ==
    ASSUME LogInvariant, NEW a \in Attempts, LogTypeOK', Dense', Grows,
           \A b \in Attempts \ {a} : Kept(b), StreamOK(a)', StagesOK(a)'
    PROVE  LogInvariant'
<1>1. next_log_sequence' \in Nat /\ next_log_sequence <= next_log_sequence'
  BY DEF LogTypeOK, Grows
<1>2. \A b \in Attempts \ {a} : StreamOK(b)' /\ StagesOK(b)'
  BY <1>1, KeptOK DEF LogInvariant
<1>3. ClientOK'
  BY <1>1, ClientKept DEF LogInvariant
<1> QED
  BY <1>2, <1>3 DEF LogInvariant

\* Nothing is appended.
LEMMA NoAppend ==
    ASSUME LogInvariant, UNCHANGED <<table, client>>
    PROVE  /\ Dense' /\ log' \subseteq Chunk /\ next_log_sequence' \in Nat
           /\ client' \in Client
           /\ \A a \in Attempts : ChunksOf(a)' = ChunksOf(a)
           /\ (\A a \in Attempts : attempts[a] = "terminal" => attempts'[a] = "terminal") => Grows
<1>1. UNCHANGED <<log, next_log_sequence, client>>
  BY DEF table
<1>2. next_log_sequence <= next_log_sequence'
  BY <1>1 DEF LogInvariant, LogTypeOK
<1> QED
  BY <1>1, <1>2 DEF LogInvariant, LogTypeOK, Dense, ChunksOf, Grows

\* Chunks are appended, numbered from the build's next number on.
LEMMA Appends ==
    ASSUME LogInvariant, NEW New, New \subseteq Chunk, NEW m \in Nat,
           NEW f, f = [c \in New |-> c.number],
           Numbers(f, New, next_log_sequence, next_log_sequence + m - 1),
           log' = log \cup New, next_log_sequence' = next_log_sequence + m
    PROVE  /\ Dense' /\ log' \subseteq Chunk /\ next_log_sequence' \in Nat
           /\ next_log_sequence <= next_log_sequence'
           /\ \A c \in log' \ log : next_log_sequence <= c.number
<1>t. /\ Dense /\ log \subseteq Chunk /\ next_log_sequence \in Nat
  BY DEF LogInvariant, LogTypeOK
<1>1. next_log_sequence' \in Nat /\ next_log_sequence <= next_log_sequence'
      /\ next_log_sequence \in Int /\ next_log_sequence + m - 1 \in Int
  BY <1>t
<1>2. /\ \A c \in New : /\ c.number \in Nat /\ next_log_sequence <= c.number
                        /\ c.number < next_log_sequence'
      /\ \A c, d \in New : c.number = d.number => c = d
      /\ \A n \in Nat : next_log_sequence <= n /\ n < next_log_sequence' =>
            \E c \in New : c.number = n
  <2>1. \A c \in New : f[c] = c.number /\ c.number \in Nat
    BY DEF Chunk
  <2>2. \A n \in Nat : next_log_sequence <= n /\ n < next_log_sequence' =>
            n \in next_log_sequence..(next_log_sequence + m - 1)
    BY <1>t
  <2>3. \A c \in New : f[c] \in next_log_sequence..(next_log_sequence + m - 1)
    BY DEF Numbers
  <2> QED
    BY <1>t, <2>1, <2>2, <2>3 DEF Numbers
<1>3. IsFiniteSet(New)
  BY <1>1, Numbered
<1>4. IsFiniteSet(log')
  BY <1>3, FS_Union DEF LogInvariant, Dense
<1>5. \A c \in log : c.number \in Nat /\ c.number < next_log_sequence
  BY <1>t DEF Dense, Chunk
<1>6. \A c \in log' : c.number < next_log_sequence'
  BY <1>1, <1>2, <1>5, <1>t
<1>7. \A c, d \in log' : c.number = d.number => c = d
  <2>1. \A c, d \in log : c.number = d.number => c = d
    BY <1>t DEF Dense
  <2>2. \A c \in log, d \in New : c.number # d.number
    BY <1>2, <1>5, <1>t
  <2> QED
    BY <1>2, <2>1, <2>2
<1>8. ASSUME NEW n \in Nat, n < next_log_sequence' PROVE \E c \in log' : c.number = n
  <2>1. CASE n < next_log_sequence
    BY <1>t, <2>1 DEF Dense
  <2>2. CASE ~(n < next_log_sequence)
    BY <1>t, <1>2, <1>8, <2>2
  <2> QED
    BY <2>1, <2>2
<1>9. Dense'
  BY <1>4, <1>6, <1>7, <1>8 DEF Dense
<1> QED
  BY <1>t, <1>1, <1>2, <1>9

LEMMA AttemptType ==
    ASSUME LogTypeOK, NEW a \in Attempts
    PROVE  /\ child[a].out \in Seq(Byte) /\ child[a].written \in Nat
           /\ drain[a].state \in DrainState /\ drain[a].state.offset \in Nat
           /\ drain[a].sequence \in Nat /\ drain[a].boundary \in Nat
           /\ next_log_sequence \in Nat /\ log \subseteq Chunk
BY DEF LogTypeOK, Child, Drain, DrainState

\* What an active supervisor, and a child, say of their attempt.
LEMMA Started ==
    ASSUME LogInvariant, NEW a \in Attempts
    PROVE  /\ StreamOK(a) /\ StagesOK(a)
           /\ drain[a].at \notin {"none", "done"} =>
                 attempts[a] \notin {"absent", "queued", "terminal"}
           /\ child[a].at # "none" => attempts[a] \notin {"absent", "queued"}
BY DEF LogInvariant, StagesOK, NoChild, NoDrain

LEMMA LoseLeaseStep ==
    ASSUME LogInvariant, NEW a \in Attempts, LoseLease(a)
    PROVE  LogInvariant'
<1>1. UNCHANGED <<attempts, child, drain, table, client>>
  BY DEF LoseLease
<1>2. LogTypeOK'
  BY NoAppend DEF LogInvariant, LogTypeOK, LoseLease
<1>3. Dense' /\ Grows /\ next_log_sequence' \in Nat /\ \A b \in Attempts : Kept(b)
  BY <1>1, NoAppend DEF Kept
<1>4. StreamOK(a)' /\ StagesOK(a)'
  BY <1>3, KeptOK, Started DEF Grows, LogInvariant
<1> QED
  BY <1>2, <1>3, <1>4, OneMoves

LEMMA GoesStep ==
    ASSUME LogInvariant, NEW a \in Attempts, NEW at, Goes(a, at),
           drain[a].at \notin {"none", "done"},
           \/ at \in {"reconcile", "done"}
           \/ at = "drained" /\ drain[a].at = "final" /\ EndOfStream(a)
    PROVE  LogInvariant'
<1>t. LogTypeOK
  BY DEF LogInvariant
<1>1. drain' = [drain EXCEPT ![a].at = at]
      /\ UNCHANGED <<attempts, leased, child, table, client>>
  BY DEF Goes
<1>2. at \in {"reconcile", "done", "drained"}
  OBVIOUS
<1>3. /\ drain'[a].at = at /\ drain'[a].state = drain[a].state
      /\ drain'[a].sequence = drain[a].sequence /\ drain'[a].boundary = drain[a].boundary
      /\ \A b \in Attempts \ {a} : drain'[b] = drain[b]
  BY <1>t, <1>1 DEF LogTypeOK, Drain
<1>4. drain' \in [Attempts -> Drain]
  BY <1>t, <1>1, <1>2 DEF LogTypeOK, Drain
<1>5. /\ Dense' /\ log' \subseteq Chunk /\ next_log_sequence' \in Nat /\ client' \in Client
      /\ \A b \in Attempts : ChunksOf(b)' = ChunksOf(b)
      /\ Grows
  BY <1>1, NoAppend
<1>6. LogTypeOK'
  BY <1>t, <1>1, <1>4, <1>5 DEF LogTypeOK
<1>7. \A b \in Attempts \ {a} : Kept(b)
  BY <1>1, <1>3, <1>5 DEF Kept
<1>8. \A n : PublishedTo(a, n)' <=> PublishedTo(a, n)
  BY <1>1, <1>5, PublishedKept
<1>9. EndOfStream(a)' <=> EndOfStream(a)
  BY <1>3 DEF EndOfStream
<1>10. StreamOK(a)'
  BY <1>1, <1>2, <1>3, <1>8, Started DEF StreamOK, table
<1>11. StagesOK(a)'
  BY <1>1, <1>2, <1>3, <1>9, Started DEF StagesOK
<1> QED
  BY <1>5, <1>6, <1>7, <1>10, <1>11, OneMoves

LEMMA ExitedStep ==
    ASSUME LogInvariant, NEW a \in Attempts, Exited(a)
    PROVE  LogInvariant'
<1>t. LogTypeOK
  BY DEF LogInvariant
<1>1. drain' = [drain EXCEPT ![a].at = "final", ![a].boundary = child[a].written]
      /\ UNCHANGED <<attempts, leased, child, table, client>> /\ drain[a].at = "active"
  BY DEF Exited
<1>2. child[a].written \in Nat
  BY <1>t, AttemptType
<1>3. /\ drain'[a].at = "final" /\ drain'[a].state = drain[a].state
      /\ drain'[a].sequence = drain[a].sequence /\ drain'[a].boundary = child[a].written
      /\ \A b \in Attempts \ {a} : drain'[b] = drain[b]
  BY <1>t, <1>1 DEF LogTypeOK, Drain
<1>4. drain' \in [Attempts -> Drain]
  <2>1. PICK g : g = [drain EXCEPT ![a].at = "final"]
    OBVIOUS
  <2>2. g \in [Attempts -> Drain]
    BY <1>t, <2>1, Zenon DEF LogTypeOK, Drain
  <2>3. drain' = [g EXCEPT ![a].boundary = child[a].written]
    BY <1>1, <2>1
  <2> QED
    BY <1>2, <2>2, <2>3, Zenon DEF Drain
<1>5. /\ Dense' /\ log' \subseteq Chunk /\ next_log_sequence' \in Nat /\ client' \in Client
      /\ \A b \in Attempts : ChunksOf(b)' = ChunksOf(b)
      /\ Grows
  BY <1>1, NoAppend
<1>6. LogTypeOK'
  BY <1>t, <1>1, <1>4, <1>5 DEF LogTypeOK
<1>7. \A b \in Attempts \ {a} : Kept(b)
  BY <1>1, <1>3, <1>5 DEF Kept
<1>8. \A n : PublishedTo(a, n)' <=> PublishedTo(a, n)
  BY <1>1, <1>5, PublishedKept
<1>9. StreamOK(a)'
  BY <1>1, <1>2, <1>3, <1>8, Started DEF StreamOK, table
<1>10. StagesOK(a)'
  BY <1>1, <1>3, Started DEF StagesOK
<1> QED
  BY <1>5, <1>6, <1>7, <1>9, <1>10, OneMoves

\* The child goes on: it writes a byte, or exits.
LEMMA ChildStep ==
    ASSUME LogInvariant, NEW a \in Attempts, Write(a) \/ Exit(a)
    PROVE  LogInvariant'
<1>t. LogTypeOK
  BY DEF LogInvariant
<1>a. PICK at, w :
         /\ at = IF Exit(a) THEN "exited" ELSE child[a].at
         /\ w = IF Exit(a) THEN child[a].written ELSE child[a].written + 1
  OBVIOUS
<1>1. child' = [child EXCEPT ![a] = [at |-> at, out |-> child[a].out, written |-> w]]
  <2>1. child \in [Attempts -> Child]
    BY <1>t DEF LogTypeOK
  <2> QED
    BY <1>a, <2>1 DEF Write, Exit, Child
<1>2. UNCHANGED <<attempts, leased, drain, table, client>> /\ child[a].at # "none"
  BY DEF Write, Exit
<1>3. /\ w \in Nat /\ child[a].written <= w /\ w <= Len(child[a].out)
      /\ child[a].out \in Seq(Byte)
  BY <1>a, <1>t, Started, AttemptType DEF StreamOK, Write, Exit
<1>4. at \in {"none", "running", "exited"}
  BY <1>a, <1>t DEF LogTypeOK, Child
<1>5. /\ child'[a].out = child[a].out /\ child'[a].written = w
      /\ \A b \in Attempts \ {a} : child'[b] = child[b]
  BY <1>t, <1>1 DEF LogTypeOK
<1>6. child' \in [Attempts -> Child]
  BY <1>t, <1>1, <1>3, <1>4 DEF LogTypeOK, Child
<1>7. /\ Dense' /\ log' \subseteq Chunk /\ next_log_sequence' \in Nat /\ client' \in Client
      /\ \A b \in Attempts : ChunksOf(b)' = ChunksOf(b)
      /\ Grows
  BY <1>2, NoAppend
<1>8. LogTypeOK'
  BY <1>t, <1>2, <1>6, <1>7 DEF LogTypeOK
<1>9. \A b \in Attempts \ {a} : Kept(b)
  BY <1>2, <1>5, <1>7 DEF Kept
<1>10. \A n : PublishedTo(a, n)' <=> PublishedTo(a, n)
  BY <1>5, <1>7, PublishedKept
<1>11. EndOfStream(a)' <=> EndOfStream(a)
  BY <1>2 DEF EndOfStream
<1>12. StreamOK(a)'
  <2>1. /\ StreamOK(a) /\ drain[a].boundary \in Nat /\ drain[a].state.offset \in Nat
        /\ child[a].written \in Nat
    BY <1>t, Started, AttemptType
  <2>2. drain[a].boundary <= w /\ drain[a].state.offset <= w
    BY <1>3, <2>1 DEF StreamOK
  <2>3. Count(child[a].out, child[a].written) <= Count(child[a].out, w)
        /\ Count(child[a].out, child[a].written) \in Nat /\ Count(child[a].out, w) \in Nat
    BY <1>3, <2>1, CountBounds, UpToFacts
  <2>4. PICK n \in Nat : n <= Count(child[a].out, child[a].written) /\ PublishedTo(a, n)
    BY <2>1 DEF StreamOK
  <2>5. n <= Count(child[a].out, w) /\ PublishedTo(a, n)'
    BY <1>10, <2>3, <2>4
  <2> QED
    BY <1>2, <1>3, <1>5, <1>10, <2>1, <2>2, <2>5 DEF StreamOK, table
<1>13. StagesOK(a)'
  BY <1>2, <1>5, <1>10, <1>11, Started DEF StagesOK
<1> QED
  BY <1>7, <1>8, <1>9, <1>12, <1>13, OneMoves

LEMMA RetryStep ==
    ASSUME LogInvariant, NEW x \in Attempts, Retry(x)
    PROVE  LogInvariant'
<1> DEFINE a == x + 1
<1>t. LogTypeOK
  BY DEF LogInvariant
<1>1. /\ a \in Attempts /\ attempts[a] = "absent"
      /\ attempts' = [attempts EXCEPT ![a] = "queued"]
      /\ UNCHANGED <<leased, child, drain, table, client>>
  BY DEF Retry
<1> HIDE DEF a
<1>2. attempts'[a] = "queued" /\ \A b \in Attempts \ {a} : attempts'[b] = attempts[b]
  BY <1>t, <1>1 DEF LogTypeOK
<1>3. /\ Dense' /\ log' \subseteq Chunk /\ next_log_sequence' \in Nat /\ client' \in Client
      /\ \A b \in Attempts : ChunksOf(b)' = ChunksOf(b)
      /\ Grows
  BY <1>1, <1>2, NoAppend
<1>4. LogTypeOK'
  BY <1>t, <1>1, <1>3 DEF LogTypeOK
<1>5. \A b \in Attempts \ {a} : Kept(b)
  BY <1>1, <1>2, <1>3 DEF Kept
<1>6. \A n : PublishedTo(a, n)' <=> PublishedTo(a, n)
  BY <1>1, <1>3, PublishedKept
<1>7. StreamOK(a)'
  BY <1>1, <1>6, Started DEF StreamOK, table
<1>8. StagesOK(a)'
  BY <1>1, <1>2, Started DEF StagesOK, table, NoDrain
<1> QED
  BY <1>1, <1>3, <1>4, <1>5, <1>7, <1>8, OneMoves

LEMMA LaunchStep ==
    ASSUME LogInvariant, NEW a \in Attempts, Launch(a)
    PROVE  LogInvariant'
<1>t. LogTypeOK
  BY DEF LogInvariant
<1>1. PICK out \in Outputs :
         child' = [child EXCEPT ![a] = [at |-> "running", out |-> out, written |-> 0]]
  BY DEF Launch
<1>2. /\ attempts[a] = "queued"
      /\ attempts' = [attempts EXCEPT ![a] = "running"]
      /\ leased' = [leased EXCEPT ![a] = TRUE]
      /\ drain' = [drain EXCEPT ![a] = [NoDrain EXCEPT
                      !.at = "active", !.sequence = NextLogSequence(a)]]
      /\ UNCHANGED <<table, client>>
  BY DEF Launch
<1>3. /\ child[a] = NoChild /\ drain[a] = NoDrain /\ \A c \in log : c.attempt # a
  BY <1>2, Started DEF StagesOK
<1>4. NextLogSequence(a) = 0
  <2>1. {c \in log : c.attempt = a} = {}
    BY <1>3
  <2> QED
    BY <2>1, FS_EmptySet DEF NextLogSequence
<1>5. out \in Seq(Byte)
  BY StreamAssumption
<1>6. /\ attempts'[a] = "running" /\ child'[a].out = out /\ child'[a].written = 0
      /\ drain'[a].at = "active" /\ drain'[a].state = EmptyDrain
      /\ drain'[a].sequence = 0 /\ drain'[a].boundary = 0
      /\ \A b \in Attempts \ {a} : /\ attempts'[b] = attempts[b] /\ child'[b] = child[b]
                                   /\ drain'[b] = drain[b]
  BY <1>t, <1>1, <1>2, <1>4 DEF LogTypeOK, NoDrain
<1>7. child' \in [Attempts -> Child]
  BY <1>t, <1>1, <1>5 DEF LogTypeOK, Child
<1>8. drain' \in [Attempts -> Drain]
  <2>1. EmptyDrain \in DrainState
    BY DEF EmptyDrain, DrainState
  <2>2. NoDrain \in Drain
    BY <2>1 DEF NoDrain, Drain
  <2>3. NextLogSequence(a) \in Nat
    BY <1>4
  <2>4. [NoDrain EXCEPT !.at = "active", !.sequence = NextLogSequence(a)] \in Drain
    BY <2>2, <2>3, Zenon DEF Drain
  <2> QED
    BY <1>t, <1>2, <2>4 DEF LogTypeOK
<1>9. /\ Dense' /\ log' \subseteq Chunk /\ next_log_sequence' \in Nat /\ client' \in Client
      /\ \A b \in Attempts : ChunksOf(b)' = ChunksOf(b)
      /\ Grows
  BY <1>2, <1>6, NoAppend
<1>10. LogTypeOK'
  BY <1>t, <1>2, <1>7, <1>8, <1>9 DEF LogTypeOK
<1>11. \A b \in Attempts \ {a} : Kept(b)
  BY <1>6, <1>9 DEF Kept
<1>12. PublishedTo(a, 0)'
  BY <1>2, <1>3 DEF PublishedTo, Published, table
<1>13. Count(out, 0) = 0 /\ End(out, 0) = 0
  BY <1>5, CountBounds DEF End
<1>14. ParsedTo(out, EmptyDrain)
  <2>1. SubSeq(out, 0 + 1, 0) = <<>> /\ MaxFrameBytes \in Nat \ {0} /\ Len(out) \in Nat
    BY <1>5, LogBounds
  <2>2. EmptyDrain.offset = 0 /\ EmptyDrain.tail = <<>> /\ ~EmptyDrain.discarding
    BY DEF EmptyDrain
  <2> QED
    BY <1>13, <2>1, <2>2 DEF ParsedTo
<1>15. StreamOK(a)'
  <2>1. 0 <= Len(out) /\ EmptyDrain.offset = 0
    BY <1>5 DEF EmptyDrain
  <2> QED
    BY <1>6, <1>9, <1>12, <1>13, <1>14, <2>1 DEF StreamOK
<1>16. StagesOK(a)'
  BY <1>6 DEF StagesOK
<1> QED
  BY <1>9, <1>10, <1>11, <1>15, <1>16, OneMoves

\* An attempt is reconciled: a diagnostic goes behind its frames.
LEMMA UncertainStep ==
    ASSUME LogInvariant, NEW a \in Attempts, attempts[a] = "running", RecordUncertain(a),
           leased' \in [Attempts -> BOOLEAN],
           child' = child, client' = client,
           \/ drain' = drain
           \/ drain' = [drain EXCEPT ![a].at = "done"]
    PROVE  LogInvariant'
<1>t. LogTypeOK
  BY DEF LogInvariant
<1>a. PICK chunk : chunk = [attempt |-> a, sequence |-> NextLogSequence(a),
                            number |-> next_log_sequence, frame |-> Diagnostic]
  OBVIOUS
<1>1. /\ attempts' = [attempts EXCEPT ![a] = "reconciliation_required"]
      /\ log' = log \cup {chunk} /\ next_log_sequence' = next_log_sequence + 1
  BY <1>a DEF RecordUncertain
<1>2. NextLogSequence(a) \in Nat
  BY FS_Subset, FS_CardinalityType DEF NextLogSequence, LogInvariant, Dense
<1>3. /\ chunk \in Chunk /\ chunk.number = next_log_sequence /\ chunk.attempt = a
      /\ chunk.frame = Diagnostic
  BY <1>a, <1>t, <1>2 DEF Chunk, LogTypeOK
<1>4. PICK f : f = [c \in {chunk} |-> c.number]
  OBVIOUS
<1>5. Numbers(f, {chunk}, next_log_sequence, next_log_sequence + 1 - 1)
  BY <1>t, <1>3, <1>4 DEF Numbers, LogTypeOK
<1>6. /\ Dense' /\ log' \subseteq Chunk /\ next_log_sequence' \in Nat
      /\ next_log_sequence <= next_log_sequence'
      /\ \A c \in log' \ log : next_log_sequence <= c.number
  <2>1. {chunk} \subseteq Chunk
    BY <1>3
  <2> QED
    BY <1>1, <1>4, <1>5, <2>1, Appends
<1>7. attempts'[a] = "reconciliation_required"
      /\ \A b \in Attempts \ {a} : attempts'[b] = attempts[b]
  BY <1>t, <1>1 DEF LogTypeOK
<1>8. Grows
  BY <1>1, <1>3, <1>6, <1>7 DEF Grows
<1>9. /\ drain' \in [Attempts -> Drain]
      /\ drain'[a].at \in {drain[a].at, "done"} /\ drain'[a].state = drain[a].state
      /\ drain'[a].sequence = drain[a].sequence /\ drain'[a].boundary = drain[a].boundary
      /\ \A b \in Attempts \ {a} : drain'[b] = drain[b]
  <2>1. CASE drain' = drain
    BY <1>t, <2>1 DEF LogTypeOK
  <2>2. CASE drain' = [drain EXCEPT ![a].at = "done"]
    BY <1>t, <2>2 DEF LogTypeOK, Drain
  <2> QED
    BY <2>1, <2>2
<1>10. LogTypeOK'
  BY <1>t, <1>1, <1>6, <1>9 DEF LogTypeOK
<1>11. \A b \in Attempts \ {a} : Kept(b)
  <2>1. \A b \in Attempts \ {a} : ChunksOf(b)' = ChunksOf(b)
    BY <1>1, <1>3 DEF ChunksOf
  <2> QED
    BY <1>7, <1>9, <2>1 DEF Kept
<1>12. \A n : PublishedTo(a, n)' <=> PublishedTo(a, n)
  <2>1. Published(a)' = Published(a)
    BY <1>1, <1>3 DEF Published
  <2> QED
    BY <2>1 DEF PublishedTo
<1>13. EndOfStream(a)' <=> EndOfStream(a)
  BY <1>9 DEF EndOfStream
<1>14. StreamOK(a)'
  <2>1. drain[a].sequence <= next_log_sequence => drain[a].sequence <= next_log_sequence'
    BY <1>t, <1>6, AttemptType
  <2> QED
    BY <1>9, <1>12, <2>1, Started DEF StreamOK
<1>15. StagesOK(a)'
  BY <1>7, <1>9, <1>13, Started DEF StagesOK
<1> QED
  BY <1>6, <1>8, <1>10, <1>11, <1>14, <1>15, OneMoves

LEMMA ReconcileExpiredStep ==
    ASSUME LogInvariant, NEW a \in Attempts, ReconcileExpired(a)
    PROVE  LogInvariant'
<1>1. attempts[a] = "running" /\ RecordUncertain(a)
      /\ UNCHANGED <<leased, child, drain, client>>
  BY DEF ReconcileExpired
<1>2. leased' \in [Attempts -> BOOLEAN]
  BY <1>1 DEF LogInvariant, LogTypeOK
<1> QED
  BY <1>1, <1>2, UncertainStep

LEMMA RequireStep ==
    ASSUME LogInvariant, NEW a \in Attempts, RequireReconciliation(a)
    PROVE  LogInvariant'
<1>1. drain[a].at = "reconcile" /\ drain' = [drain EXCEPT ![a].at = "done"]
      /\ UNCHANGED <<child, client>>
  BY DEF RequireReconciliation
<1>2. CASE Authorized(a)
  <2>1. attempts[a] = "running" /\ RecordUncertain(a)
        /\ leased' = [leased EXCEPT ![a] = FALSE]
    BY <1>2 DEF RequireReconciliation, Authorized
  <2>2. leased' \in [Attempts -> BOOLEAN]
    BY <2>1 DEF LogInvariant, LogTypeOK
  <2> QED
    BY <1>1, <2>1, <2>2, UncertainStep
<1>3. CASE ~Authorized(a)
  <2>1. Goes(a, "done")
    BY <1>1, <1>3 DEF RequireReconciliation, Goes
  <2> QED
    BY <1>1, <2>1, GoesStep
<1> QED
  BY <1>2, <1>3

LEMMA TerminalStep ==
    ASSUME LogInvariant, NEW a \in Attempts, PublishTerminal(a)
    PROVE  LogInvariant'
<1>t. LogTypeOK
  BY DEF LogInvariant
<1>1. CASE Goes(a, "reconcile")
  <2>1. drain[a].at = "drained"
    BY DEF PublishTerminal
  <2> QED
    BY <1>1, <2>1, GoesStep
<1>2. CASE ~Goes(a, "reconcile")
  <2>1. /\ drain[a].at = "drained"
        /\ attempts' = [attempts EXCEPT ![a] = "terminal"]
        /\ leased' = [leased EXCEPT ![a] = FALSE]
        /\ drain' = [drain EXCEPT ![a].at = "done"]
        /\ UNCHANGED <<child, table, client>>
    BY <1>2 DEF PublishTerminal
  <2>2. /\ attempts'[a] = "terminal" /\ drain'[a].at = "done"
        /\ drain'[a].state = drain[a].state
        /\ drain'[a].sequence = drain[a].sequence /\ drain'[a].boundary = drain[a].boundary
        /\ \A b \in Attempts \ {a} : attempts'[b] = attempts[b] /\ drain'[b] = drain[b]
    BY <1>t, <2>1 DEF LogTypeOK, Drain
  <2>3. drain' \in [Attempts -> Drain]
    BY <1>t, <2>1 DEF LogTypeOK, Drain
  <2>4. /\ Dense' /\ log' \subseteq Chunk /\ next_log_sequence' \in Nat /\ client' \in Client
        /\ \A b \in Attempts : ChunksOf(b)' = ChunksOf(b)
        /\ Grows
    BY <2>1, <2>2, NoAppend
  <2>5. LogTypeOK'
    BY <1>t, <2>1, <2>3, <2>4 DEF LogTypeOK
  <2>6. \A b \in Attempts \ {a} : Kept(b)
    BY <2>1, <2>2, <2>4 DEF Kept
  <2>7. \A n : PublishedTo(a, n)' <=> PublishedTo(a, n)
    BY <2>1, <2>4, PublishedKept
  <2>8. EndOfStream(a)' <=> EndOfStream(a)
    BY <2>2 DEF EndOfStream
  <2>9. StreamOK(a)'
    BY <2>1, <2>2, <2>7, Started DEF StreamOK, table
  <2>10. EndOfStream(a) /\ PublishedTo(a, Count(child[a].out, drain[a].boundary))
    BY <2>1, Started DEF StreamOK, StagesOK, EndOfStream
  <2>11. StagesOK(a)'
    BY <2>1, <2>2, <2>7, <2>8, <2>10 DEF StagesOK
  <2> QED
    BY <2>4, <2>5, <2>6, <2>9, <2>11, OneMoves
<1> QED
  BY <1>1, <1>2

\* A batch of frames goes behind those the attempt has.
LEMMA InsertIs ==
    ASSUME LogInvariant, NEW a \in Attempts, drain[a].at \in {"active", "final"},
           Authorized(a), NEW frames \in Seq(Body), NEW start, start = drain[a].sequence,
           \A j \in 1..Len(frames) : frames[j] = Frame(child[a].out, start + j),
           Insert(a, start, frames), UNCHANGED <<attempts, child, client>>
    PROVE  /\ Dense' /\ log' \subseteq Chunk /\ next_log_sequence' \in Nat
           /\ Grows
           /\ \A b \in Attempts \ {a} : ChunksOf(b)' = ChunksOf(b)
           /\ PublishedTo(a, start + Len(frames))'
           /\ start + Len(frames) <= next_log_sequence'
<1>t. LogTypeOK /\ StreamOK(a)
  BY DEF LogInvariant
<1>a. PICK m, next : m = Len(frames) /\ next = next_log_sequence
  OBVIOUS
<1>1. /\ start \in Nat /\ next \in Nat /\ start <= next /\ m \in Nat
      /\ PublishedTo(a, start) /\ attempts[a] = "running"
      /\ BuildStart(start) = next
  BY <1>t, <1>a, AttemptType DEF StreamOK, Authorized, BuildStart
<1>2. PICK New : New = {[attempt |-> a, sequence |-> start + i - 1,
                         number |-> next + i - 1, frame |-> frames[i]] : i \in 1..m}
  OBVIOUS
<1>3. log' = log \cup New /\ next_log_sequence' = next_log_sequence + m
  <2>1. DOMAIN frames = 1..m
    BY <1>a
  <2>2. New = {[attempt |-> a, sequence |-> start + i - 1,
                number |-> BuildStart(start) + i - 1, frame |-> frames[i]] : i \in DOMAIN frames}
    BY <1>1, <1>2, <2>1, Zenon
  <2>3. log' = log \cup New /\ next_log_sequence' = BuildStart(start) + Len(frames)
    BY <2>2, Zenon DEF Insert
  <2> QED
    BY <1>a, <1>1, <2>3
<1>4. \A i \in 1..m : i \in Nat /\ frames[i] \in Body /\ start + i - 1 \in Nat /\ next + i - 1 \in Nat
  BY <1>a, <1>1
<1>5. \A i \in 1..m : \E c \in New :
         c.sequence = start + i - 1 /\ c.number = next + i - 1
  <2>1. \A i \in 1..m : [attempt |-> a, sequence |-> start + i - 1,
                         number |-> next + i - 1, frame |-> frames[i]] \in New
    BY <1>2, Zenon
  <2> QED
    BY <2>1
<1>6. \A c \in New : \E i \in 1..m :
         /\ c = [attempt |-> a, sequence |-> start + i - 1,
                 number |-> next + i - 1, frame |-> frames[i]]
  BY <1>2
<1>7. New \subseteq Chunk
  <2> SUFFICES ASSUME NEW c \in New PROVE c \in Chunk
    OBVIOUS
  <2>1. PICK i \in 1..m : c = [attempt |-> a, sequence |-> start + i - 1,
                               number |-> next + i - 1, frame |-> frames[i]]
    BY <1>6
  <2> QED
    BY <1>4, <2>1 DEF Chunk, Body
<1>8. \A c \in New : \E i \in 1..m :
         /\ c.attempt = a /\ c.sequence = start + i - 1 /\ c.number = next + i - 1
         /\ c.frame = frames[i]
  BY <1>6
<1>9. \A c \in New : /\ c.attempt = a /\ c.frame # Diagnostic
                     /\ c.sequence \in start..(start + m - 1)
                     /\ c.number \in next..(next + m - 1)
                     /\ c.sequence - start = c.number - next
                     /\ c.frame = Frame(child[a].out, c.sequence + 1)
  <2> SUFFICES ASSUME NEW c \in New
               PROVE  /\ c.attempt = a /\ c.frame # Diagnostic
                      /\ c.sequence \in start..(start + m - 1)
                      /\ c.number \in next..(next + m - 1)
                      /\ c.sequence - start = c.number - next
                      /\ c.frame = Frame(child[a].out, c.sequence + 1)
    OBVIOUS
  <2>1. PICK i \in 1..m : /\ c.attempt = a /\ c.sequence = start + i - 1
                          /\ c.number = next + i - 1 /\ c.frame = frames[i]
    BY <1>8
  <2>2. c.sequence + 1 = start + i /\ frames[i] = Frame(child[a].out, start + i)
    BY <1>1, <1>a, <2>1
  <2>3. frames[i] # Diagnostic
    BY <1>4, DiagnosticAssumption DEF Body
  <2> QED
    BY <1>1, <2>1, <2>2, <2>3, SMTT(20)
<1>10. \A c, d \in New : c.number = d.number \/ c.sequence = d.sequence => c = d
  <2> SUFFICES ASSUME NEW c \in New, NEW d \in New, c.number = d.number \/ c.sequence = d.sequence
               PROVE  c = d
    OBVIOUS
  <2>1. PICK i \in 1..m : c = [attempt |-> a, sequence |-> start + i - 1,
                               number |-> next + i - 1, frame |-> frames[i]]
    BY <1>6
  <2>2. PICK j \in 1..m : d = [attempt |-> a, sequence |-> start + j - 1,
                               number |-> next + j - 1, frame |-> frames[j]]
    BY <1>6
  <2>3. i = j
    BY <1>1, <2>1, <2>2
  <2> QED
    BY <2>1, <2>2, <2>3
<1>11. PICK f : f = [c \in New |-> c.number]
  OBVIOUS
<1>12. Numbers(f, New, next, next + m - 1)
  <2>1. \A n \in next..(next + m - 1) : \E c \in New : f[c] = n
    <3> SUFFICES ASSUME NEW n \in next..(next + m - 1) PROVE \E c \in New : f[c] = n
      OBVIOUS
    <3>1. n - next + 1 \in 1..m /\ next + (n - next + 1) - 1 = n
      BY <1>1
    <3> QED
      BY <1>5, <1>11, <3>1
  <2> QED
    BY <1>9, <1>10, <1>11, <2>1 DEF Numbers
<1>13. /\ Dense' /\ log' \subseteq Chunk /\ next_log_sequence' \in Nat
       /\ next_log_sequence <= next_log_sequence'
       /\ \A c \in log' \ log : next_log_sequence <= c.number
  BY <1>a, <1>1, <1>3, <1>7, <1>11, <1>12, Appends
<1>14. Grows
  BY <1>1, <1>3, <1>9, <1>13 DEF Grows
<1>15. \A b \in Attempts \ {a} : ChunksOf(b)' = ChunksOf(b)
  BY <1>3, <1>9 DEF ChunksOf
<1>16. Published(a)' = Published(a) \cup New
  BY <1>3, <1>9 DEF Published
<1>17. \A c \in Published(a) : c.sequence \in Nat
  BY <1>t DEF Published, LogTypeOK, Chunk
<1>18. \A k \in Nat : start <= k /\ k < start + m => \E c \in New : c.sequence = k
  <2> SUFFICES ASSUME NEW k \in Nat, start <= k, k < start + m PROVE \E c \in New : c.sequence = k
    OBVIOUS
  <2>1. k - start + 1 \in 1..m /\ start + (k - start + 1) - 1 = k
    BY <1>1
  <2> QED
    BY <1>5, <2>1
<1>19. PublishedTo(a, start + m)'
  <2>1. ASSUME NEW c \in Published(a)'
        PROVE  c.sequence < start + m /\ c.frame = Frame(child[a].out, c.sequence + 1)
    <3>1. CASE c \in Published(a)
      BY <1>1, <1>17, <3>1 DEF PublishedTo
    <3>2. CASE c \in New
      BY <1>1, <1>9, <3>2
    <3> QED
      BY <1>16, <2>1, <3>1, <3>2
  <2>2. ASSUME NEW c \in Published(a)', NEW d \in Published(a)', c.sequence = d.sequence
        PROVE  c = d
    <3>1. \A x \in Published(a), y \in New : x.sequence # y.sequence
      BY <1>1, <1>9, <1>17 DEF PublishedTo
    <3> QED
      BY <1>1, <1>10, <1>16, <2>2, <3>1 DEF PublishedTo
  <2>3. ASSUME NEW k \in Nat, k < start + m PROVE \E c \in Published(a)' : c.sequence = k
    <3>1. CASE k < start
      BY <1>1, <1>16, <3>1 DEF PublishedTo
    <3>2. CASE ~(k < start)
      BY <1>1, <1>16, <1>18, <2>3, <3>2
    <3> QED
      BY <3>1, <3>2
  <2> QED
    BY <2>1, <2>2, <2>3 DEF PublishedTo
<1>20. start + m <= next_log_sequence'
  BY <1>1, <1>3, <1>a
<1> QED
  BY <1>a, <1>13, <1>14, <1>15, <1>19, <1>20

\* The drain of one attempt moves to a state it may have, whatever was appended.
LEMMA DrainMoves ==
    ASSUME LogInvariant, NEW a \in Attempts, drain[a].at \in {"active", "final"},
           NEW at, at \in {drain[a].at, "reconcile"},
           NEW state \in DrainState, ParsedTo(child[a].out, state),
           state.offset <= child[a].written, NEW sequence \in Nat,
           drain' = [drain EXCEPT ![a] = [at |-> at, state |-> state, sequence |-> sequence,
                                          boundary |-> drain[a].boundary]],
           UNCHANGED <<attempts, leased, child, client>>,
           Dense', log' \subseteq Chunk, next_log_sequence' \in Nat, Grows,
           \A b \in Attempts \ {a} : ChunksOf(b)' = ChunksOf(b),
           \E n \in Nat : n <= Count(child[a].out, child[a].written) /\ PublishedTo(a, n)',
           at # "reconcile" => /\ sequence = Count(child[a].out, state.offset)
                               /\ sequence <= next_log_sequence'
                               /\ PublishedTo(a, sequence)'
    PROVE  LogInvariant'
<1>t. LogTypeOK
  BY DEF LogInvariant
<1>1. at \in {"active", "final", "reconcile"}
  OBVIOUS
<1>2. drain[a] \in Drain
  BY <1>t DEF LogTypeOK
<1>3. PICK d : d = [at |-> at, state |-> state, sequence |-> sequence,
                    boundary |-> drain[a].boundary]
  OBVIOUS
<1>4. d \in Drain
  BY <1>1, <1>2, <1>3 DEF Drain
<1>5. /\ d.at = at /\ d.state = state /\ d.sequence = sequence
      /\ d.boundary = drain[a].boundary
  BY <1>2, <1>3 DEF Drain
<1>6. drain' = [drain EXCEPT ![a] = d]
  BY <1>3
<1>7. /\ drain' \in [Attempts -> Drain] /\ drain'[a] = d
      /\ \A b \in Attempts \ {a} : drain'[b] = drain[b]
  BY <1>t, <1>4, <1>6 DEF LogTypeOK
<1>8. LogTypeOK'
  BY <1>t, <1>7 DEF LogTypeOK
<1>9. \A b \in Attempts \ {a} : Kept(b)
  BY <1>7 DEF Kept
<1>10. StreamOK(a) /\ attempts[a] \notin {"absent", "queued", "terminal"}
  BY Started
<1>11. StreamOK(a)'
  <2>1. at \in {"active", "final", "drained"} => at # "reconcile"
    BY <1>1
  <2> QED
    BY <1>5, <1>7, <1>10, <2>1 DEF StreamOK
<1>12. StagesOK(a)'
  BY <1>1, <1>5, <1>7, <1>10 DEF StagesOK
<1> QED
  BY <1>8, <1>9, <1>11, <1>12, OneMoves

LEMMA SliceStep ==
    ASSUME LogInvariant, NEW a \in Attempts, drain[a].at \in {"active", "final"}, Slice(a)
    PROVE  LogInvariant'
<1>t. LogTypeOK /\ StreamOK(a)
  BY DEF LogInvariant
<1>0. PICK out, w, state, batch, frames, start :
         /\ out = child[a].out /\ w = child[a].written /\ state = drain[a].state
         /\ batch = Batch(state, SubSeq(out, 1, w)) /\ frames = batch.frames
         /\ start = drain[a].sequence
  OBVIOUS
<1>1. batch = Batch(drain[a].state, Bytes(a))
  BY <1>0 DEF Bytes
<1>2. /\ out \in Seq(Byte) /\ w \in Nat /\ w <= Len(out) /\ state \in DrainState
      /\ state.offset \in Nat /\ start \in Nat
      /\ ParsedTo(out, state) /\ state.offset <= w
      /\ start = Count(out, state.offset) /\ PublishedTo(a, start)
      /\ start <= next_log_sequence /\ next_log_sequence \in Nat
  BY <1>t, <1>0, AttemptType DEF StreamOK
<1>3. /\ batch.state \in DrainState /\ ParsedTo(out, batch.state)
      /\ state.offset <= batch.state.offset /\ batch.state.offset <= w
      /\ frames \in Seq(Body)
      /\ Len(frames) = Count(out, batch.state.offset) - start
      /\ \A j \in 1..Len(frames) : frames[j] = Frame(out, start + j)
  <2>1. LET b == Batch(state, SubSeq(out, 1, w))
        IN  /\ b.state \in DrainState /\ ParsedTo(out, b.state)
            /\ state.offset <= b.state.offset /\ b.state.offset <= w
            /\ b.frames \in Seq(Body)
            /\ Len(b.frames) = Count(out, b.state.offset) - Count(out, state.offset)
            /\ \A j \in 1..Len(b.frames) :
                  b.frames[j] = Frame(out, Count(out, state.offset) + j)
    BY <1>2, BatchIs
  <2> HIDE DEF Batch
  <2> QED
    BY <1>0, <1>2, <2>1
<1>4. batch.state.offset \in Nat
  BY <1>3 DEF DrainState
<1>5. /\ start + Len(frames) = Count(out, batch.state.offset)
      /\ Count(out, batch.state.offset) <= Count(out, w)
      /\ start <= Count(out, w) /\ start + Len(frames) \in Nat
  <2>1. Count(out, batch.state.offset) \in Nat /\ Count(out, w) \in Nat
    BY <1>2, <1>4, UpToFacts
  <2>2. /\ Count(out, batch.state.offset) <= Count(out, w)
        /\ Count(out, state.offset) <= Count(out, w)
    BY <1>2, <1>3, <1>4, CountBounds
  <2> QED
    BY <1>2, <1>3, <2>1, <2>2
<1>6. UNCHANGED <<attempts, leased, child, client>>
  BY DEF Slice
<1> DEFINE Go(at) == drain' = [drain EXCEPT ![a].at = at]
           Commit == drain' = [drain EXCEPT ![a].state = batch.state,
                                            ![a].sequence = start + Len(frames)]
           Moves(at, st, sequence) ==
               drain' = [drain EXCEPT ![a] = [at |-> at, state |-> st, sequence |-> sequence,
                                              boundary |-> drain[a].boundary]]
<1>7. /\ Commit => Moves(drain[a].at, batch.state, start + Len(frames))
      /\ Go("reconcile") => Moves("reconcile", state, start)
  <2>1. drain \in [Attempts -> Drain] /\ drain[a] \in Drain
    BY <1>t DEF LogTypeOK
  <2>2. ASSUME NEW st, NEW sequence
        PROVE  [drain EXCEPT ![a].state = st, ![a].sequence = sequence]
               = [drain EXCEPT ![a] = [at |-> drain[a].at, state |-> st, sequence |-> sequence,
                                       boundary |-> drain[a].boundary]]
    <3>1. PICK e, g : e = [drain[a] EXCEPT !.state = st] /\ g = [drain EXCEPT ![a] = e]
      OBVIOUS
    <3>2. e = [at |-> drain[a].at, state |-> st, sequence |-> drain[a].sequence,
               boundary |-> drain[a].boundary]
      BY <2>1, <3>1 DEF Drain
    <3>3. [e EXCEPT !.sequence = sequence]
          = [at |-> drain[a].at, state |-> st, sequence |-> sequence,
             boundary |-> drain[a].boundary]
      BY <3>2
    <3>4. DOMAIN g = Attempts /\ g[a] = e /\ \A b \in Attempts \ {a} : g[b] = drain[b]
      BY <2>1, <3>1
    <3>5. [g EXCEPT ![a].sequence = sequence]
          = [drain EXCEPT ![a] = [e EXCEPT !.sequence = sequence]]
      BY <2>1, <3>4
    <3> QED
      BY <3>1, <3>3, <3>5
  <2>3. [drain EXCEPT ![a].at = "reconcile"]
        = [drain EXCEPT ![a] = [at |-> "reconcile", state |-> drain[a].state,
                                sequence |-> drain[a].sequence,
                                boundary |-> drain[a].boundary]]
    <3>1. [drain[a] EXCEPT !.at = "reconcile"]
          = [at |-> "reconcile", state |-> drain[a].state, sequence |-> drain[a].sequence,
             boundary |-> drain[a].boundary]
      BY <2>1 DEF Drain
    <3> QED
      BY <2>1, <3>1
  <2> QED
    BY <1>0, <2>2, <2>3
<1>8. \/ frames = <<>> /\ Commit /\ UNCHANGED table
      \/ Authorized(a) /\ Insert(a, start, frames) /\ Commit
      \/ Authorized(a) /\ Insert(a, start, frames) /\ Go("reconcile")
      \/ Go("reconcile") /\ UNCHANGED table
  BY <1>0, <1>1 DEF Slice
<1> HIDE DEF Go, Commit, Moves
<1>9. ASSUME UNCHANGED table
      PROVE  /\ Dense' /\ log' \subseteq Chunk /\ next_log_sequence' \in Nat /\ Grows
             /\ \A b \in Attempts \ {a} : ChunksOf(b)' = ChunksOf(b)
             /\ PublishedTo(a, start)'
             /\ start <= next_log_sequence'
  BY <1>2, <1>6, <1>9, NoAppend, PublishedKept DEF table
<1>10. ASSUME Authorized(a), Insert(a, start, frames)
       PROVE  /\ Dense' /\ log' \subseteq Chunk /\ next_log_sequence' \in Nat /\ Grows
              /\ \A b \in Attempts \ {a} : ChunksOf(b)' = ChunksOf(b)
              /\ PublishedTo(a, start + Len(frames))'
              /\ start + Len(frames) <= next_log_sequence'
  BY <1>0, <1>3, <1>6, <1>10, InsertIs
<1>11. CASE frames = <<>> /\ Commit /\ UNCHANGED table
  <2>1. start + Len(frames) = start
    BY <1>2, <1>11
  <2>2. drain[a].at # "reconcile"
    OBVIOUS
  <2>3. drain' = [drain EXCEPT ![a] = [at |-> drain[a].at, state |-> batch.state,
                                         sequence |-> start + Len(frames),
                                         boundary |-> drain[a].boundary]]
    BY <1>7, <1>11 DEF Moves
  <2> QED
    BY <1>0, <1>2, <1>3, <1>5, <1>6, <1>9, <1>11, <2>1, <2>2, <2>3, DrainMoves, ZenonT(60)
<1>12. CASE Authorized(a) /\ Insert(a, start, frames) /\ Commit
  <2>3. drain' = [drain EXCEPT ![a] = [at |-> drain[a].at, state |-> batch.state,
                                         sequence |-> start + Len(frames),
                                         boundary |-> drain[a].boundary]]
    BY <1>7, <1>12 DEF Moves
  <2> QED
    BY <1>0, <1>2, <1>3, <1>5, <1>6, <1>10, <1>12, <2>3, DrainMoves, ZenonT(60)
<1>13. CASE Authorized(a) /\ Insert(a, start, frames) /\ Go("reconcile")
  <2>3. drain' = [drain EXCEPT ![a] = [at |-> "reconcile", state |-> state, sequence |-> start,
                                         boundary |-> drain[a].boundary]]
    BY <1>7, <1>13 DEF Moves
  <2> QED
    BY <1>0, <1>2, <1>5, <1>6, <1>10, <1>13, <2>3, DrainMoves, ZenonT(60)
<1>14. CASE Go("reconcile") /\ UNCHANGED table
  <2>3. drain' = [drain EXCEPT ![a] = [at |-> "reconcile", state |-> state, sequence |-> start,
                                         boundary |-> drain[a].boundary]]
    BY <1>7, <1>14 DEF Moves
  <2> QED
    BY <1>0, <1>2, <1>5, <1>6, <1>9, <1>14, <2>3, DrainMoves, ZenonT(60)
<1> QED
  BY <1>8, <1>11, <1>12, <1>13, <1>14

LEMMA StopStep ==
    ASSUME LogInvariant, NEW a \in Attempts, Forced(a) \/ Stop(a) \/ Crash(a)
    PROVE  LogInvariant'
<1>1. CASE Forced(a)
  BY <1>1, GoesStep DEF Forced
<1>2. CASE Crash(a)
  BY <1>2, GoesStep DEF Crash
<1>3. CASE Stop(a)
  <2>1. drain[a].at = "final"
    BY <1>3 DEF Stop
  <2>2. CASE child[a].written = drain[a].boundary /\ EndOfStream(a)
    BY <1>3, <2>1, <2>2, GoesStep DEF Stop
  <2>3. CASE ~(child[a].written = drain[a].boundary /\ EndOfStream(a))
    <3>1. Goes(a, "reconcile")
      BY <1>3, <2>3, Zenon DEF Stop
    <3> QED
      BY <2>1, <3>1, GoesStep
  <2> QED
    BY <2>2, <2>3
<1> QED
  BY <1>1, <1>2, <1>3
-----------------------------------------------------------------------------
\* The invariant.

LEMMA LogInit == ASSUME Init PROVE LogInvariant
<1>1. /\ attempts = [a \in Attempts |-> IF a = 1 THEN "queued" ELSE "absent"]
      /\ leased = [a \in Attempts |-> FALSE]
      /\ child = [a \in Attempts |-> NoChild]
      /\ drain = [a \in Attempts |-> NoDrain]
      /\ log = {} /\ next_log_sequence = 0
      /\ client \in [at : {"watching", "awaiting", "polling"}, cursor : {0},
                     got : {<<>>}, settled : {{}}]
  BY DEF Init
<1>2. /\ client.at \in {"watching", "awaiting", "polling"} /\ client.cursor = 0
      /\ client.got = <<>> /\ client.settled = {} /\ client \in Client
  <2>1. /\ client.at \in {"watching", "awaiting", "polling"} /\ client.cursor \in {0}
        /\ client.got \in {<<>>} /\ client.settled \in {{}}
        /\ client = [at |-> client.at, cursor |-> client.cursor, got |-> client.got,
                     settled |-> client.settled]
    BY <1>1
  <2>2. client.cursor \in Nat /\ client.got \in Seq(Chunk) /\ client.settled \in SUBSET Attempts
    <3>1. <<>> \in Seq(Chunk) /\ {} \in SUBSET Attempts /\ 0 \in Nat
      OBVIOUS
    <3>2. client.cursor = 0 /\ client.got = <<>> /\ client.settled = {}
      BY <2>1, Zenon
    <3> QED
      BY <3>1, <3>2, Zenon
  <2>3. client.at \in {"watching", "awaiting", "polling", "uncertain", "finished",
                       "paging", "read", "stuck"}
    BY <2>1
  <2>4. client \in Client
    BY <2>1, <2>2, <2>3 DEF Client
  <2> QED
    BY <2>1, <2>4
<1>3. NoChild \in Child /\ NoChild.out = <<>> /\ NoChild.written = 0 /\ NoChild.at = "none"
  BY DEF NoChild, Child
<1>4. EmptyDrain \in DrainState /\ EmptyDrain.offset = 0 /\ EmptyDrain.tail = <<>>
      /\ ~EmptyDrain.discarding
  BY DEF EmptyDrain, DrainState
<1>5. NoDrain \in Drain /\ NoDrain.at = "none" /\ NoDrain.state = EmptyDrain
      /\ NoDrain.boundary = 0
  BY <1>4 DEF NoDrain, Drain
<1>6. LogTypeOK
  BY <1>1, <1>2, <1>3, <1>5 DEF LogTypeOK
<1>7. Dense
  BY <1>1, FS_EmptySet DEF Dense
<1>8. Count(<<>>, 0) = 0 /\ End(<<>>, 0) = 0
  <2>1. <<>> \in Seq(Byte)
    OBVIOUS
  <2>2. \A bytes \in Seq(Byte) : Count(bytes, 0) = 0
    BY CountBounds
  <2>3. Count(<<>>, 0) = 0
    BY <2>1, <2>2
  <2> QED
    BY <2>3 DEF End
<1>9. ParsedTo(<<>>, EmptyDrain)
  <2>1. SubSeq(<<>>, 0 + 1, 0) = <<>> /\ Len(<<>>) = 0 /\ MaxFrameBytes \in Nat \ {0}
    BY LogBounds
  <2> QED
    BY <1>4, <1>8, <2>1 DEF ParsedTo
<1>10. ASSUME NEW a \in Attempts PROVE StreamOK(a) /\ StagesOK(a)
  <2>1. child[a] = NoChild /\ drain[a] = NoDrain /\ attempts[a] \in {"queued", "absent"}
    BY <1>1
  <2>2. PublishedTo(a, 0)
    BY <1>1 DEF PublishedTo, Published
  <2>3. Len(<<>>) = 0
    OBVIOUS
  <2>4. StreamOK(a)
    BY <1>3, <1>4, <1>5, <1>8, <1>9, <2>1, <2>2, <2>3 DEF StreamOK
  <2>5. StagesOK(a)
    BY <1>1, <1>5, <2>1 DEF StagesOK
  <2> QED
    BY <2>4, <2>5
<1>11. ClientOK
  BY <1>1, <1>2 DEF ClientOK
<1> QED
  BY <1>6, <1>7, <1>10, <1>11 DEF LogInvariant

LEMMA LogStutter == ASSUME LogInvariant, UNCHANGED logVars PROVE LogInvariant'
<1>1. UNCHANGED <<attempts, leased, child, drain, table>> /\ client' = client
  BY DEF logVars, table
<1>2. UNCHANGED <<attempts, log, next_log_sequence, client>>
  BY DEF logVars
<1>3. client' \in Client
  BY <1>1 DEF LogInvariant, LogTypeOK
<1>4. ClientOK'
  BY <1>2 DEF LogInvariant, ClientOK
<1> QED
  BY <1>1, <1>3, <1>4, ClientMoves

LEMMA LogNext == ASSUME LogInvariant, [Next]_logVars PROVE LogInvariant'
<1>1. ASSUME NEW a \in Attempts,
             \/ LoseLease(a) \/ ReconcileExpired(a) \/ Retry(a)
             \/ Launch(a) \/ Write(a) \/ Exit(a)
             \/ ActiveSlice(a) \/ Forced(a) \/ Exited(a) \/ FinalSlice(a) \/ Stop(a)
             \/ PublishTerminal(a) \/ RequireReconciliation(a) \/ Crash(a)
      PROVE  LogInvariant'
  <2>1. CASE LoseLease(a)
    BY <2>1, LoseLeaseStep
  <2>2. CASE ReconcileExpired(a)
    BY <2>2, ReconcileExpiredStep
  <2>3. CASE Retry(a)
    BY <2>3, RetryStep
  <2>4. CASE Launch(a)
    BY <2>4, LaunchStep
  <2>5. CASE Write(a) \/ Exit(a)
    BY <2>5, ChildStep
  <2>6. CASE ActiveSlice(a)
    BY <2>6, SliceStep DEF ActiveSlice
  <2>7. CASE FinalSlice(a)
    BY <2>7, SliceStep DEF FinalSlice
  <2>8. CASE Forced(a) \/ Stop(a) \/ Crash(a)
    BY <2>8, StopStep
  <2>9. CASE Exited(a)
    BY <2>9, ExitedStep
  <2>10. CASE PublishTerminal(a)
    BY <2>10, TerminalStep
  <2>11. CASE RequireReconciliation(a)
    BY <2>11, RequireStep
  <2> QED
    BY <1>1, <2>1, <2>2, <2>3, <2>4, <2>5, <2>6, <2>7, <2>8, <2>9, <2>10, <2>11
<1>2. CASE Watch
  BY <1>2, WatchStep
<1>3. CASE AwaitTerminal
  BY <1>3, AwaitStep
<1>4. CASE ReadPage
  BY <1>4, ReadPageStep
<1>5. CASE Poll
  BY <1>5, PollStep
<1>6. CASE UNCHANGED logVars
  BY <1>6, LogStutter
<1> QED
  BY <1>1, <1>2, <1>3, <1>4, <1>5, <1>6 DEF Next

\* The log's chunks, the drain's staged cursor and the client's page are what
\* the stream, its newlines and the numbers of the build say, in every state:
\* of AppendLogBatchFenced, drainBatch, the supervisor and the feedback query.
THEOREM LogIsKept == Spec => []LogInvariant
<1>1. Init => LogInvariant
  BY LogInit
<1>2. LogInvariant /\ [Next]_logVars => LogInvariant'
  BY LogNext
<1> QED
  BY <1>1, <1>2, PTL DEF Spec

\* Chunks numbered from zero are as many as their numbers.
LEMMA HowMany ==
    ASSUME LogTypeOK, NEW a \in Attempts, NEW n \in Nat, PublishedTo(a, n)
    PROVE  Cardinality(Published(a)) = n
<1>1. PICK f : f = [c \in Published(a) |-> c.sequence]
  OBVIOUS
<1>2. \A c \in Published(a) : f[c] = c.sequence /\ c.sequence \in Nat /\ c.sequence < n
  BY <1>1 DEF LogTypeOK, Published, Chunk, PublishedTo
<1>3. Numbers(f, Published(a), 0, n - 1)
  <2>1. \A k \in 0..(n - 1) : k \in Nat /\ k < n
    OBVIOUS
  <2> QED
    BY <1>2, <2>1, SMTT(20) DEF Numbers, PublishedTo
<1>4. n - 1 \in Int /\ 0 \in Int /\ (IF 0 > n - 1 THEN 0 ELSE n - 1 - 0 + 1) = n
  OBVIOUS
<1> QED
  BY <1>3, <1>4, Numbered

\* Slices that end anywhere, lost connections and lost leases neither drop, cut,
\* repeat nor reorder a frame, for any output: an attempt's chunks are the first
\* frames of its stream (drainCommittedBatch, AppendLogBatchFenced).
THEOREM LogFollows == Spec => []LogFollowsStream
<1>1. ASSUME LogInvariant PROVE LogFollowsStream
  <2> SUFFICES ASSUME NEW a \in Attempts
               PROVE  LET frames == FramesOf(Bytes(a))
                          n == Cardinality(Published(a))
                      IN  /\ n <= Len(frames)
                          /\ \A k \in 1..n : \E c \in Published(a) :
                                c.sequence = k - 1 /\ c.frame = frames[k]
    BY DEF LogFollowsStream
  <2>1. PICK out, w : out = child[a].out /\ w = child[a].written
    OBVIOUS
  <2>2. /\ out \in Seq(Byte) /\ w \in Nat /\ w <= Len(out)
        /\ \E n \in Nat : n <= Count(out, w) /\ PublishedTo(a, n)
    BY <1>1, <2>1, AttemptType DEF LogInvariant, StreamOK
  <2>3. PICK n \in Nat : n <= Count(out, w) /\ PublishedTo(a, n)
    BY <2>2
  <2>4. Cardinality(Published(a)) = n
    BY <1>1, <2>3, HowMany DEF LogInvariant
  <2>5. PICK frames : frames = FramesOf(SubSeq(out, 1, w))
    OBVIOUS
  <2>6. Len(frames) = Count(out, w) /\ \A k \in 1..Count(out, w) : frames[k] = Frame(out, k)
    BY <2>2, <2>5, FramePrefix
  <2>7. frames = FramesOf(Bytes(a))
    BY <2>1, <2>5 DEF Bytes
  <2>8. ASSUME NEW k \in 1..n PROVE \E c \in Published(a) : c.sequence = k - 1 /\ c.frame = frames[k]
    <3>1. k - 1 \in Nat /\ k - 1 < n /\ (k - 1) + 1 = k /\ k \in 1..Count(out, w)
      BY <2>2, <2>3, UpToFacts
    <3> QED
      BY <2>1, <2>3, <2>6, <3>1 DEF PublishedTo
  <2> QED
    BY <2>3, <2>4, <2>6, <2>7, <2>8
<1> QED
  BY <1>1, LogIsKept, PTL

\* A terminal attempt's stream ended with a whole frame and is in the log to its
\* last frame, whatever the slices and whoever else appended (Stop, EndOfStream,
\* PublishTerminal).
THEOREM WholeLog == Spec => []TerminalHasWholeLog
<1>1. ASSUME LogInvariant PROVE TerminalHasWholeLog
  <2> SUFFICES ASSUME NEW a \in Attempts, attempts[a] = "terminal"
               PROVE  LET stream == SubSeq(child[a].out, 1, drain[a].boundary) IN
                      /\ stream = <<>> \/ Last(stream) = NewLine
                      /\ Cardinality(Published(a)) = Len(FramesOf(stream))
    BY DEF TerminalHasWholeLog
  <2>1. PICK out, b, stream : /\ out = child[a].out /\ b = drain[a].boundary
                              /\ stream = SubSeq(out, 1, b)
    OBVIOUS
  <2>2. /\ out \in Seq(Byte) /\ b \in Nat /\ b <= Len(out)
        /\ ParsedTo(out, drain[a].state) /\ drain[a].state.offset = b
        /\ drain[a].state.tail = <<>> /\ ~drain[a].state.discarding
        /\ PublishedTo(a, Count(out, b))
    <3>1. /\ child[a].written <= Len(out) /\ b <= child[a].written /\ child[a].written \in Nat
          /\ out \in Seq(Byte) /\ b \in Nat
      BY <1>1, <2>1, AttemptType DEF LogInvariant, StreamOK
    <3>2. b <= Len(out)
      BY <3>1
    <3> QED
      BY <1>1, <2>1, <3>1, <3>2 DEF LogInvariant, StreamOK, StagesOK, EndOfStream
  <2>3. PICK start : start = End(out, Count(out, b))
    OBVIOUS
  <2>4. /\ start \in Nat /\ start <= b /\ (start # 0 => out[start] = NewLine)
        /\ SubSeq(out, start + 1, b) = <<>>
    BY <2>2, <2>3 DEF ParsedTo
  <2>5. start = b
    <3>1. Len(SubSeq(out, start + 1, b)) = 0
      <4>1. Len(<<>>) = 0
        OBVIOUS
      <4> QED
        BY <2>4, <4>1
    <3> QED
      BY <2>2, <2>4, <3>1
  <2>6. stream = <<>> \/ Last(stream) = NewLine
    <3>1. stream \in Seq(Byte) /\ Len(stream) = b /\ \A i \in 1..b : stream[i] = out[i]
      BY <2>1, <2>2, Prefix
    <3> QED
      BY <2>2, <2>4, <2>5, <3>1 DEF Last
  <2>7. Len(FramesOf(stream)) = Count(out, b)
    BY <2>1, <2>2, FramePrefix
  <2>8. Cardinality(Published(a)) = Count(out, b)
    BY <1>1, <2>2, UpToFacts, HowMany DEF LogInvariant
  <2> QED
    BY <2>1, <2>6, <2>7, <2>8
<1> QED
  BY <1>1, LogIsKept, PTL

\* A client that follows the cursor has every chunk below it, once and in order,
\* never stops advancing, and has the whole log of every attempt it knew to be
\* terminal, for any page limit and any number of supervisors (ReadBuildFeedback,
\* FeedbackResponse.NextSequence).
THEOREM CursorMisses == Spec => []CursorMissesNothing
<1>1. ASSUME LogInvariant PROVE CursorMissesNothing
  <2>1. /\ client.cursor \in Nat /\ client.got \in Seq(Chunk) /\ client.settled \subseteq Attempts
        /\ log \subseteq Chunk /\ next_log_sequence \in Nat /\ Dense /\ ClientOK
        /\ client.cursor <= next_log_sequence /\ Len(client.got) = client.cursor
        /\ \A i \in 1..client.cursor : client.got[i] \in log /\ client.got[i].number = i - 1
    BY <1>1, ClientType DEF LogInvariant, ClientOK
  <2>2. PICK rows : rows = InOrder(Within(0, client.cursor))
    OBVIOUS
  <2>3. /\ rows \in Seq(Chunk) /\ Len(rows) = client.cursor
        /\ \A i \in 1..client.cursor : rows[i] \in log /\ rows[i].number = i - 1
    <3>1. 0 <= client.cursor /\ client.cursor - 0 = client.cursor
          /\ \A i \in 1..client.cursor : 0 + i - 1 = i - 1
      BY <2>1
    <3> QED
      BY <2>1, <2>2, <3>1, Span
  <2>4. \A i \in 1..client.cursor : client.got[i] = rows[i]
    BY <2>1, <2>3 DEF Dense
  <2>5. client.got = rows
    BY <2>1, <2>3, <2>4
  <2>6. Within(0, client.cursor) = {c \in log : c.number < client.cursor}
    BY <2>1 DEF Within, Chunk
  <2>7. ASSUME client.at = "read", NEW a \in client.settled, NEW c \in Published(a)
        PROVE  c \in Range(client.got)
    <3>1. c \in log /\ c.number \in Nat /\ c.number < client.cursor
      BY <2>1, <2>7 DEF Published, ClientOK, Chunk
    <3>2. c.number + 1 \in 1..client.cursor /\ (c.number + 1) - 1 = c.number
      BY <2>1, <3>1
    <3>3. client.got[c.number + 1] = c
      BY <2>1, <3>1, <3>2 DEF Dense
    <3>4. DOMAIN client.got = 1..client.cursor
      BY <2>1
    <3> QED
      BY <3>2, <3>3, <3>4 DEF Range
  <2> QED
    BY <2>1, <2>2, <2>5, <2>6, <2>7 DEF CursorMissesNothing, ClientOK
<1> QED
  BY <1>1, LogIsKept, PTL
=============================================================================
