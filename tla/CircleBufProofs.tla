-------------------------- MODULE CircleBufProofs ---------------------------
(***************************************************************************)
(* Proofs about CircleBuf, for any set of bytes and any bounds on sizes:   *)
(* the memory is never overrun, the contents lie where start_pos, end_pos  *)
(* and size say, and every call does what it does to a sequence (Deque).   *)
(*                                                                         *)
(* Facts about writes and reads that go around the end of the memory come  *)
(* first, then what growing does to the contents, then one lemma for each  *)
(* function of the header about the byte at each index (At), one about     *)
(* the contents as a sequence (Bytes), and one for the step.               *)
(***************************************************************************)
EXTENDS CircleBuf, SequenceTheorems, TLAPS

\* A position in the memory, counted on beyond its end.
Pos(x, c) == IF x >= c THEN x - c ELSE x

\* A struct circlebuf with all its fields, and no memory beyond its capacity.
IsBuf(b) ==
  /\ b = [data |-> b.data, size |-> b.size, start_pos |-> b.start_pos,
          end_pos |-> b.end_pos, capacity |-> b.capacity]
  /\ b.capacity \in Nat /\ b.data \in [0 .. b.capacity - 1 -> Cells]
  /\ b.size \in Nat /\ b.start_pos \in Nat /\ b.end_pos \in Nat

\* s bytes lie from start_pos to end_pos, around the end of the memory.
Holds(b, s) ==
  /\ s \in Nat /\ s <= b.capacity
  /\ s = 0 => b.start_pos = 0 /\ b.end_pos = 0
  /\ s > 0 => /\ b.start_pos < b.capacity
              /\ b.end_pos \in 1..b.capacity
              /\ b.start_pos + s \in {b.end_pos, b.end_pos + b.capacity}

WF(b) == IsBuf(b) /\ Holds(b, b.size)

\* The byte at index i.
At(b, i) == b.data[Pos(b.start_pos + i, b.capacity)]

Bytes(b) == [i \in 1..b.size |-> At(b, i - 1)]
-----------------------------------------------------------------------------
(* Sequences of bytes. *)

\* A function on 1..n is a sequence of length n.
LEMMA FunSeq ==
  ASSUME NEW n \in Nat, NEW f \in [1..n -> Cells]
  PROVE  f \in Seq(Cells) /\ Len(f) = n
OBVIOUS

\* A sequence is the function on 1..Len that it is.
LEMMA SeqFun ==
  ASSUME NEW d \in Seq(Cells)
  PROVE  /\ Len(d) \in Nat /\ \A i \in 1..Len(d) : d[i] \in Cells
         /\ d = [i \in 1..Len(d) |-> d[i]]
OBVIOUS

\* The length and the elements of a concatenation.
LEMMA Concat ==
  ASSUME NEW f \in Seq(Cells), NEW g \in Seq(Cells)
  PROVE  /\ f \o g \in Seq(Cells) /\ Len(f \o g) = Len(f) + Len(g)
         /\ \A i \in 1 .. Len(f) + Len(g) :
              (f \o g)[i] = IF i <= Len(f) THEN f[i] ELSE g[i - Len(f)]
BY ConcatProperties

\* A sequence cut in two after k elements.
LEMMA SubSeqFacts ==
  ASSUME NEW d \in Seq(Cells), NEW k \in 0 .. Len(d)
  PROVE  /\ SubSeq(d, 1, k) \in Seq(Cells) /\ Len(SubSeq(d, 1, k)) = k
         /\ \A i \in 1..k : SubSeq(d, 1, k)[i] = d[i]
         /\ SubSeq(d, k + 1, Len(d)) \in Seq(Cells) /\ Len(SubSeq(d, k + 1, Len(d))) = Len(d) - k
         /\ \A i \in 1 .. Len(d) - k : SubSeq(d, k + 1, Len(d))[i] = d[k + i]
OBVIOUS
-----------------------------------------------------------------------------
(* Memory. *)

\* A write within the memory leaves its size, and changes only its own bytes.
LEMMA WriteFacts ==
  ASSUME NEW data, NEW at \in Nat, NEW d \in Seq(Cells), at .. at + Len(d) - 1 \subseteq DOMAIN data
  PROVE  Write(data, at, d) = [j \in DOMAIN data |->
           IF j \in at .. at + Len(d) - 1 THEN d[j - at + 1] ELSE data[j]]
<1>1. DOMAIN data \cup (at .. at + Len(d) - 1) = DOMAIN data
  OBVIOUS
<1> QED
  BY <1>1 DEF Write

\* A read within the memory gives no junk that was not in it.
LEMMA ReadFacts ==
  ASSUME NEW data, NEW at \in Nat, NEW n \in Nat, at .. at + n - 1 \subseteq DOMAIN data
  PROVE  Read(data, at, n) = [i \in 1..n |-> data[at + i - 1]]
<1>1. \A i \in 1..n : at + i - 1 \in at .. at + n - 1
  OBVIOUS
<1> QED
  BY <1>1 DEF Read

\* A write at the beginning of the memory.
LEMMA WriteBeginFacts ==
  ASSUME NEW data, NEW d \in Seq(Cells), 0 .. Len(d) - 1 \subseteq DOMAIN data
  PROVE  Write(data, 0, d) = [j \in DOMAIN data |->
           IF j \in 0 .. Len(d) - 1 THEN d[j + 1] ELSE data[j]]
<1> DEFINE n == Len(d)
<1>1. n \in Nat
  BY SeqFun
<1>2. 0 + n - 1 = n - 1
  BY <1>1
<1>3. DOMAIN data \cup (0 .. 0 + n - 1) = DOMAIN data
  BY <1>2
<1>4. \A j \in 0 .. n - 1 : j - 0 + 1 = j + 1
  BY <1>1
<1>5. Write(data, 0, d) = [j \in DOMAIN data \cup (0 .. 0 + n - 1) |->
         IF j \in 0 .. 0 + n - 1 THEN d[j - 0 + 1] ELSE data[j]]
  BY DEF Write
<1>6. Write(data, 0, d) = [j \in DOMAIN data |->
         IF j \in 0 .. n - 1 THEN d[j - 0 + 1] ELSE data[j]]
  BY <1>2, <1>3, <1>5
<1> HIDE DEF n
<1>7. [j \in DOMAIN data |-> IF j \in 0 .. n - 1 THEN d[j - 0 + 1] ELSE data[j]]
      = [j \in DOMAIN data |-> IF j \in 0 .. n - 1 THEN d[j + 1] ELSE data[j]]
  BY <1>4
<1> QED
  BY <1>6, <1>7 DEF n

\* d goes to the end of the memory, and what does not fit to its beginning.
LEMMA WriteAroundFacts ==
  ASSUME NEW b, IsBuf(b), NEW d \in Seq(Cells), NEW at \in Nat,
         at <= b.capacity, Len(d) <= b.capacity
  PROVE  /\ WriteAround(b, at, d) \in [0 .. b.capacity - 1 -> Cells]
         /\ \A j \in 0 .. b.capacity - 1 :
              WriteAround(b, at, d)[j] =
                IF at <= j /\ j < at + Len(d) THEN d[j - at + 1]
                ELSE IF j + b.capacity < at + Len(d) THEN d[j + b.capacity - at + 1]
                ELSE b.data[j]
<1> DEFINE c == b.capacity
           data == b.data
           n == Len(d)
<1>1. /\ c \in Nat /\ data \in [0 .. c - 1 -> Cells] /\ at <= c
      /\ n \in Nat /\ n <= c /\ \A i \in 1..n : d[i] \in Cells
  BY SeqFun DEF IsBuf
<1>2. CASE at + n <= c
  <2>1. WriteAround(b, at, d) = Write(data, at, d)
    BY <1>1, <1>2 DEF WriteAround
  <2> HIDE DEF c, data, n
  <2>2. at .. at + n - 1 \subseteq DOMAIN data
    BY <1>1, <1>2
  <2>3. Write(data, at, d) = [j \in DOMAIN data |->
           IF j \in at .. at + n - 1 THEN d[j - at + 1] ELSE data[j]]
    BY <2>2, WriteFacts DEF n
  <2> QED
    BY <1>1, <1>2, <2>1, <2>3 DEF c, data, n
<1>3. CASE at + n > c
  <2> DEFINE k == c - at
             first == SubSeq(d, 1, k)
             rest == SubSeq(d, k + 1, n)
             half == Write(data, at, first)
             whole == Write(half, 0, rest)
  <2>1. k \in 0..n /\ k = c - at
    BY <1>1, <1>3
  <2>2. WriteAround(b, at, d) = whole
    BY <1>1, <1>3 DEF WriteAround
  <2> HIDE DEF k
  <2>3. /\ first \in Seq(Cells) /\ Len(first) = k /\ \A i \in 1..k : first[i] = d[i]
        /\ rest \in Seq(Cells) /\ Len(rest) = n - k
        /\ \A i \in 1 .. n - k : rest[i] = d[k + i]
    BY <2>1, SubSeqFacts
  <2> HIDE DEF c, data, n, first, rest
  <2>4. half = [j \in DOMAIN data |->
                  IF j \in at .. at + Len(first) - 1 THEN first[j - at + 1] ELSE data[j]]
    <3>1. at .. at + Len(first) - 1 \subseteq DOMAIN data
      BY <1>1, <2>1, <2>3
    <3>2. first \in Seq(Cells)
      BY <2>3
    <3> QED
      BY <3>1, <3>2, WriteFacts
  <2> HIDE DEF half
  <2>5. whole = [j \in DOMAIN half |->
                   IF j \in 0 .. Len(rest) - 1 THEN rest[j + 1] ELSE half[j]]
    <3>1. 0 .. Len(rest) - 1 \subseteq DOMAIN half
      BY <1>1, <2>1, <2>3, <2>4
    <3>2. rest \in Seq(Cells)
      BY <2>3
    <3> QED
      BY <3>1, <3>2, WriteBeginFacts
  <2> HIDE DEF whole
  <2>6. ASSUME NEW j \in 0 .. c - 1
        PROVE  /\ whole[j] = IF at <= j /\ j < at + n THEN d[j - at + 1]
                             ELSE IF j + c < at + n THEN d[j + c - at + 1]
                             ELSE data[j]
               /\ whole[j] \in Cells
    <3>1. whole[j] = IF j < n - k THEN rest[j + 1] ELSE half[j]
      BY <1>1, <2>1, <2>3, <2>4, <2>5
    <3>2. half[j] = IF at <= j THEN first[j - at + 1] ELSE data[j]
      BY <1>1, <2>1, <2>3, <2>4
    <3>3. j < n - k => rest[j + 1] = d[j + c - at + 1] /\ d[j + c - at + 1] \in Cells
      <4>1. ASSUME j < n - k
            PROVE  j + 1 \in 1 .. n - k /\ k + (j + 1) = j + c - at + 1 /\ k + (j + 1) \in 1..n
        BY <1>1, <2>1, <4>1
      <4> QED
        BY <1>1, <2>3, <4>1
    <3>4. at <= j => first[j - at + 1] = d[j - at + 1] /\ d[j - at + 1] \in Cells
      <4>1. ASSUME at <= j PROVE j - at + 1 \in 1..k /\ j - at + 1 \in 1..n
        BY <1>1, <2>1, <4>1
      <4> QED
        BY <1>1, <2>3, <4>1
    <3>5. /\ at <= j => j < at + n /\ ~(j < n - k)
          /\ j < n - k <=> j + c < at + n
      BY <1>1, <1>3, <2>1
    <3> QED
      BY <1>1, <3>1, <3>2, <3>3, <3>4, <3>5
  <2>7. DOMAIN whole = 0 .. c - 1 /\ whole = [j \in DOMAIN whole |-> whole[j]]
    BY <1>1, <2>4, <2>5
  <2>8. whole \in [0 .. c - 1 -> Cells]
    BY <2>6, <2>7
  <2> QED
    BY <2>2, <2>6, <2>8 DEF c, data, n
<1> QED
  BY <1>1, <1>2, <1>3

\* The n bytes from `at' on, around the end of the memory.
LEMMA ReadAroundFacts ==
  ASSUME NEW b, IsBuf(b), NEW at \in Nat, NEW n \in Nat, at <= b.capacity, n <= b.capacity
  PROVE  /\ ReadAround(b, at, n) \in Seq(Cells) /\ Len(ReadAround(b, at, n)) = n
         /\ \A i \in 1..n : ReadAround(b, at, n)[i] = b.data[Pos(at + i - 1, b.capacity)]
<1> DEFINE c == b.capacity
           data == b.data
<1>1. c \in Nat /\ data \in [0 .. c - 1 -> Cells] /\ at <= c /\ n <= c
  BY DEF IsBuf
<1>2. CASE c - at < n
  <2> DEFINE k == c - at
             m == n - k
             first == Read(data, at, k)
             rest == Read(data, 0, m)
  <2> HIDE DEF c, data
  <2>1. k \in Nat /\ m \in Nat /\ k + m = n /\ at + k = c
    BY <1>1, <1>2
  <2>2. ReadAround(b, at, n) = first \o rest
    BY <1>2 DEF ReadAround, c, data
  <2> HIDE DEF k, m
  <2>3. first = [i \in 1..k |-> data[at + i - 1]]
    <3>1. at .. at + k - 1 \subseteq DOMAIN data
      BY <1>1, <2>1
    <3> QED
      BY <2>1, <3>1, ReadFacts
  <2>4. rest = [i \in 1..m |-> data[0 + i - 1]]
    <3>1. 0 .. 0 + m - 1 \subseteq DOMAIN data
      BY <1>1, <2>1
    <3> QED
      BY <2>1, <3>1, ReadFacts
  <2> HIDE DEF first, rest
  <2>5. first \in [1..k -> Cells]
    BY <1>1, <2>1, <2>3
  <2>6. rest \in [1..m -> Cells]
    BY <1>1, <2>1, <2>4
  <2>7. first \in Seq(Cells) /\ Len(first) = k /\ rest \in Seq(Cells) /\ Len(rest) = m
    BY <2>1, <2>5, <2>6, FunSeq
  <2>8. /\ first \o rest \in Seq(Cells) /\ Len(first \o rest) = n
        /\ \A i \in 1..n : (first \o rest)[i] = IF i <= k THEN first[i] ELSE rest[i - k]
    BY <2>1, <2>7, Concat
  <2>9. ASSUME NEW i \in 1..n PROVE (first \o rest)[i] = data[Pos(at + i - 1, c)]
    <3>1. CASE i <= k
      <4>1. (first \o rest)[i] = first[i] /\ first[i] = data[at + i - 1]
        BY <2>1, <2>3, <2>8, <3>1
      <4>2. Pos(at + i - 1, c) = at + i - 1
        BY <1>1, <2>1, <3>1 DEF Pos
      <4> QED
        BY <4>1, <4>2
    <3>2. CASE i > k
      <4>1. i - k \in 1..m /\ Pos(at + i - 1, c) = 0 + (i - k) - 1
        BY <1>1, <2>1, <3>2 DEF Pos
      <4>2. (first \o rest)[i] = rest[i - k]
        <5>1. ~(i <= k)
          BY <2>1, <3>2
        <5> QED
          BY <2>8, <5>1
      <4>3. rest[i - k] = data[0 + (i - k) - 1]
        BY <2>4, <4>1
      <4> QED
        BY <4>1, <4>2, <4>3
    <3>3. i <= k \/ i > k
      BY <2>1
    <3> QED
      BY <3>1, <3>2, <3>3
  <2> QED
    BY <2>2, <2>8, <2>9 DEF c, data
<1>3. CASE c - at >= n
  <2>1. ReadAround(b, at, n) = Read(data, at, n)
    BY <1>1, <1>3 DEF ReadAround
  <2> HIDE DEF c, data
  <2>2. at .. at + n - 1 \subseteq DOMAIN data
    BY <1>1, <1>3
  <2>3. Read(data, at, n) = [i \in 1..n |-> data[at + i - 1]]
    BY <2>2, ReadFacts
  <2>4. [i \in 1..n |-> data[at + i - 1]] \in [1..n -> Cells]
    BY <1>1, <1>3
  <2>5. Read(data, at, n) \in Seq(Cells) /\ Len(Read(data, at, n)) = n
    BY <2>3, <2>4, FunSeq
  <2>6. \A i \in 1..n : Pos(at + i - 1, c) = at + i - 1
    BY <1>1, <1>3 DEF Pos
  <2> QED
    BY <2>1, <2>3, <2>5, <2>6 DEF c, data
<1>4. c - at < n \/ c - at >= n
  BY <1>1
<1> QED
  BY <1>2, <1>3, <1>4

\* The two writes of a push to the front that goes around the end.
LEMMA WriteFrontFacts ==
  ASSUME NEW data, NEW cap \in Nat, data \in [0 .. cap - 1 -> Cells],
         NEW rest \in Seq(Cells), NEW first \in Seq(Cells), NEW at \in Nat,
         at + Len(first) = cap, Len(rest) <= at
  PROVE  /\ DOMAIN Write(Write(data, 0, rest), at, first) = 0 .. cap - 1
         /\ Write(Write(data, 0, rest), at, first) =
              [j \in 0 .. cap - 1 |-> IF at <= j THEN first[j - at + 1]
                                      ELSE IF j < Len(rest) THEN rest[j + 1]
                                      ELSE data[j]]
<1> DEFINE m == Len(rest)
           k == Len(first)
           half == Write(data, 0, rest)
<1>1. m \in Nat /\ k \in Nat /\ DOMAIN data = 0 .. cap - 1
  BY SeqFun
<1>2. half = [j \in 0 .. cap - 1 |-> IF j < m THEN rest[j + 1] ELSE data[j]]
  <2>1. 0 .. m - 1 \subseteq DOMAIN data
    BY <1>1
  <2>2. half = [j \in DOMAIN data |-> IF j \in 0 .. m - 1 THEN rest[j + 1] ELSE data[j]]
    BY <2>1, WriteBeginFacts
  <2> HIDE DEF half
  <2> QED
    BY <1>1, <2>2
<1> HIDE DEF half
<1>3. Write(half, at, first) = [j \in DOMAIN half |->
        IF j \in at .. at + Len(first) - 1 THEN first[j - at + 1] ELSE half[j]]
  <2>1. at .. at + Len(first) - 1 \subseteq DOMAIN half
    BY <1>1, <1>2
  <2> QED
    BY <2>1, WriteFacts
<1>4. Write(half, at, first) = [j \in 0 .. cap - 1 |-> IF at <= j THEN first[j - at + 1]
                                  ELSE IF j < m THEN rest[j + 1] ELSE data[j]]
  <2>1. ASSUME NEW j \in 0 .. cap - 1
        PROVE  j \in at .. at + Len(first) - 1 <=> at <= j
    OBVIOUS
  <2>2. DOMAIN half = 0 .. cap - 1
    BY <1>2
  <2> HIDE DEF k
  <2> QED
    BY <1>2, <1>3, <2>1, <2>2
<1> QED
  BY <1>4 DEF half
-----------------------------------------------------------------------------
(* Growth. *)

\* More memory leaves the s bytes that lie in the buffer at their indices,
\* whether or not the size already counts those to come.
LEMMA ReallocFacts ==
  ASSUME NEW b, IsBuf(b), NEW s, Holds(b, s), s <= b.size, NEW c \in Nat, b.capacity < c
  PROVE  /\ IsBuf(Realloc(b, c)) /\ Holds(Realloc(b, c), s)
         /\ Realloc(b, c).capacity = c
         /\ Realloc(b, c).size = b.size /\ Realloc(b, c).end_pos = b.end_pos
         /\ \A i \in 0 .. s - 1 : At(Realloc(b, c), i) = At(b, i)
<1> DEFINE wraps == b.size > 0 /\ b.start_pos > 0 /\ b.end_pos <= b.start_pos
           moved == IF wraps THEN c - b.capacity ELSE 0
           memory == [i \in 0 .. c - 1 |->
                        IF wraps /\ i >= b.start_pos + moved THEN b.data[i - moved]
                        ELSE IF i < b.capacity THEN b.data[i] ELSE Junk]
           g == [data |-> memory, size |-> b.size, start_pos |-> b.start_pos + moved,
                 end_pos |-> b.end_pos, capacity |-> c]
<1>1. /\ b.capacity \in Nat /\ b.data \in [0 .. b.capacity - 1 -> Cells]
      /\ b.size \in Nat /\ b.start_pos \in Nat /\ b.end_pos \in Nat
      /\ b = [data |-> b.data, size |-> b.size, start_pos |-> b.start_pos,
              end_pos |-> b.end_pos, capacity |-> b.capacity]
  BY DEF IsBuf
<1>2. Realloc(b, c) = g
  <2>1. Realloc(b, c) = [b EXCEPT !.capacity = c, !.start_pos = @ + moved, !.data = memory]
    BY DEF Realloc
  <2> HIDE DEF moved, memory
  <2> QED
    BY <1>1, <2>1
<1> DEFINE cap == b.capacity
           start == b.start_pos
           end == b.end_pos
<1>3. /\ moved = (IF wraps THEN c - cap ELSE 0)
      /\ wraps <=> b.size > 0 /\ start > 0 /\ end <= start
      /\ cap \in Nat /\ start \in Nat /\ end \in Nat /\ cap < c
  BY <1>1
<1>4. \A i \in 0 .. c - 1 : memory[i] = IF wraps /\ i >= start + moved THEN b.data[i - moved]
                                        ELSE IF i < cap THEN b.data[i] ELSE Junk
  OBVIOUS
<1>5. memory \in [0 .. c - 1 -> Cells]
  <2>1. ASSUME NEW i \in 0 .. c - 1 PROVE memory[i] \in Cells
    <3> HIDE DEF memory, wraps, moved, start, end
    <3>1. wraps /\ i >= start + moved => i - moved \in 0 .. cap - 1
      BY <1>3
    <3>2. i < cap => i \in 0 .. cap - 1
      BY <1>3
    <3> QED
      BY <1>1, <1>4, <3>1, <3>2 DEF Cells
  <2> QED
    BY <2>1
<1> HIDE DEF memory, wraps, moved
<1>6. IsBuf(g)
  BY <1>1, <1>3, <1>5 DEF IsBuf
<1>7. /\ s \in Nat /\ s <= cap /\ b.size \in Nat /\ s <= b.size
      /\ s = 0 => start = 0 /\ end = 0
      /\ s > 0 => start < cap /\ end \in 1..cap /\ (start + s = end \/ start + s = end + cap)
  BY <1>1 DEF Holds
<1> HIDE DEF cap, start, end
<1>8. s > 0 => IF start + s = end
               THEN ~wraps /\ moved = 0 ELSE wraps /\ moved = c - cap /\ start + s = end + cap
  BY <1>3, <1>7
<1>9. Holds(g, s)
  <2>1. s = 0 => start + moved = 0
    BY <1>3, <1>7
  <2>2. s > 0 => /\ start + moved < c /\ end \in 1..c
                 /\ start + moved + s = end \/ start + moved + s = end + c
    BY <1>3, <1>7, <1>8
  <2>3. g.start_pos = start + moved /\ g.end_pos = end /\ g.capacity = c
    BY DEF start, end
  <2>4. s <= c
    BY <1>3, <1>7
  <2> HIDE DEF g
  <2> QED
    BY <1>7, <2>1, <2>2, <2>3, <2>4 DEF Holds
<1>10. ASSUME NEW i \in 0 .. s - 1 PROVE At(g, i) = At(b, i)
  <2>1. At(g, i) = memory[Pos(start + moved + i, c)] /\ At(b, i) = b.data[Pos(start + i, cap)]
    BY DEF At, start, cap
  <2>2. CASE wraps /\ start + i < cap
    <3>1. /\ Pos(start + moved + i, c) = start + moved + i /\ Pos(start + i, cap) = start + i
          /\ start + moved + i \in 0 .. c - 1 /\ (start + moved + i) - moved = start + i
          /\ start + moved + i >= start + moved
      BY <1>3, <1>7, <2>2 DEF Pos
    <3> QED
      BY <1>4, <2>1, <2>2, <3>1
  <2>3. CASE wraps /\ start + i >= cap
    <3> DEFINE p == start + i - cap
    <3>1. /\ Pos(start + moved + i, c) = p /\ Pos(start + i, cap) = p
          /\ p \in 0 .. c - 1 /\ p < cap /\ ~(p >= start + moved)
      BY <1>3, <1>7, <1>8, <2>3 DEF Pos
    <3> HIDE DEF p
    <3> QED
      BY <1>4, <2>1, <3>1
  <2>4. CASE ~wraps
    <3> DEFINE p == start + i
    <3>1. /\ Pos(start + moved + i, c) = p /\ Pos(start + i, cap) = p
          /\ p \in 0 .. c - 1 /\ p < cap
      BY <1>3, <1>7, <1>8, <2>4 DEF Pos
    <3> HIDE DEF p
    <3> QED
      BY <1>4, <2>1, <2>4, <3>1
  <2>5. start + i < cap \/ start + i >= cap
    BY <1>3
  <2> QED
    BY <2>2, <2>3, <2>4, <2>5
<1> QED
  BY <1>2, <1>6, <1>9, <1>10 DEF end

\* ensure_capacity, with the new size in the buffer.
LEMMA GrowFacts ==
  ASSUME NEW b, IsBuf(b), NEW s, Holds(b, s), s <= b.size
  PROVE  /\ IsBuf(EnsureCapacity(b)) /\ Holds(EnsureCapacity(b), s)
         /\ EnsureCapacity(b).size = b.size /\ b.size <= EnsureCapacity(b).capacity
         /\ EnsureCapacity(b).end_pos = b.end_pos
         /\ \A i \in 0 .. s - 1 : At(EnsureCapacity(b), i) = At(b, i)
<1>1. b.capacity \in Nat /\ b.size \in Nat
  BY DEF IsBuf
<1>2. CASE b.size <= b.capacity
  BY <1>2 DEF EnsureCapacity
<1>3. CASE b.size > b.capacity
  <2> DEFINE c == IF b.size > 2 * b.capacity THEN b.size ELSE 2 * b.capacity
  <2>1. c \in Nat /\ b.capacity < c /\ b.size <= c
    BY <1>1, <1>3
  <2>2. EnsureCapacity(b) = Realloc(b, c)
    BY <1>1, <1>3 DEF EnsureCapacity
  <2> HIDE DEF c
  <2> QED
    BY <2>1, <2>2, ReallocFacts
<1> QED
  BY <1>1, <1>2, <1>3
-----------------------------------------------------------------------------
(* The contents. *)

\* The contents are a sequence as long as size says.
LEMMA BytesFacts ==
  ASSUME NEW b, WF(b)
  PROVE  /\ Bytes(b) \in Seq(Cells) /\ Len(Bytes(b)) = b.size
         /\ \A i \in 1..b.size : Bytes(b)[i] = At(b, i - 1)
<1>1. /\ b.size \in Nat /\ b.capacity \in Nat /\ b.data \in [0 .. b.capacity - 1 -> Cells]
      /\ b.start_pos \in Nat /\ b.size <= b.capacity
      /\ b.size > 0 => b.start_pos < b.capacity
  BY DEF WF, IsBuf, Holds
<1>2. ASSUME NEW i \in 1..b.size PROVE At(b, i - 1) \in Cells
  <2>1. Pos(b.start_pos + (i - 1), b.capacity) \in 0 .. b.capacity - 1
    BY <1>1 DEF Pos
  <2> QED
    BY <1>1, <2>1 DEF At
<1>3. Bytes(b) \in [1..b.size -> Cells]
  BY <1>2 DEF Bytes
<1>4. \A i \in 1..b.size : Bytes(b)[i] = At(b, i - 1)
  BY DEF Bytes
<1> QED
  BY <1>1, <1>3, <1>4, FunSeq

\* The buffer with room for n more bytes.
LEMMA RoomFacts ==
  ASSUME NEW b, WF(b), NEW n \in Nat
  PROVE  /\ IsBuf(Room(b, n)) /\ Holds(Room(b, n), b.size)
         /\ Room(b, n).size = b.size + n /\ b.size + n <= Room(b, n).capacity
         /\ Room(b, n).end_pos = b.end_pos
         /\ \A i \in 0 .. b.size - 1 : At(Room(b, n), i) = At(b, i)
<1> DEFINE a == [data |-> b.data, size |-> b.size + n, start_pos |-> b.start_pos,
                 end_pos |-> b.end_pos, capacity |-> b.capacity]
<1>1. [b EXCEPT !.size = @ + n] = a
  BY DEF WF, IsBuf
<1>2. Room(b, n) = EnsureCapacity(a)
  BY <1>1 DEF Room
<1>3. IsBuf(a) /\ b.size \in Nat /\ b.size <= a.size
  BY DEF WF, IsBuf
<1>4. Holds(a, b.size)
  BY DEF WF, Holds
<1>5. \A i : At(a, i) = At(b, i)
  BY DEF At
<1>6. a.size = b.size + n /\ a.end_pos = b.end_pos
  OBVIOUS
<1> HIDE DEF a
<1> QED
  BY <1>2, <1>3, <1>4, <1>5, <1>6, GrowFacts

\* To the back: what was in the buffer keeps its indices, d comes behind it.
LEMMA PushedBackFacts ==
  ASSUME NEW b, WF(b), NEW d \in Seq(Cells)
  PROVE  /\ WF(PushedBack(b, d)) /\ PushedBack(b, d).size = b.size + Len(d)
         /\ \A i \in 0 .. b.size - 1 : At(PushedBack(b, d), i) = At(b, i)
         /\ \A i \in 1..Len(d) : At(PushedBack(b, d), b.size + i - 1) = d[i]
<1> DEFINE n == Len(d)
           g == Room(b, n)
           cap == g.capacity
           start == g.start_pos
           end == g.end_pos
           e == IF end + n > cap THEN (end + n) - cap ELSE end + n
           memory == WriteAround(g, end, d)
           p == [data |-> memory, size |-> g.size, start_pos |-> start, end_pos |-> e,
                 capacity |-> cap]
<1>1. n \in Nat
  BY SeqFun
<1>2. /\ IsBuf(g) /\ Holds(g, b.size) /\ g.size = b.size + n /\ b.size + n <= cap
      /\ end = b.end_pos /\ \A i \in 0 .. b.size - 1 : At(g, i) = At(b, i)
  BY <1>1, RoomFacts
<1>3. PushedBack(b, d) = p
  <2>1. PushedBack(b, d) = [g EXCEPT !.data = memory,
                                     !.end_pos = IF b.end_pos + n > cap THEN (b.end_pos + n) - cap
                                                 ELSE b.end_pos + n]
    BY DEF PushedBack
  <2>2. g = [data |-> g.data, size |-> g.size, start_pos |-> g.start_pos,
             end_pos |-> g.end_pos, capacity |-> g.capacity]
    BY <1>2 DEF IsBuf
  <2> HIDE DEF g, memory, n
  <2> QED
    BY <1>2, <2>1, <2>2
<1> HIDE DEF g, n
<1>4. /\ cap \in Nat /\ start \in Nat /\ end \in Nat /\ b.size \in Nat /\ b.size + n <= cap
      /\ b.size = 0 => start = 0 /\ end = 0
      /\ b.size > 0 => /\ start < cap /\ end \in 1..cap
                       /\ start + b.size = end \/ start + b.size = end + cap
  BY <1>2 DEF IsBuf, Holds
<1>5. /\ memory \in [0 .. cap - 1 -> Cells]
      /\ \A j \in 0 .. cap - 1 :
           memory[j] = IF end <= j /\ j < end + n THEN d[j - end + 1]
                       ELSE IF j + cap < end + n THEN d[j + cap - end + 1]
                       ELSE g.data[j]
  <2>1. end \in Nat /\ end <= cap /\ n <= cap
    BY <1>1, <1>4
  <2> QED
    BY <1>2, <2>1, WriteAroundFacts DEF n
<1> HIDE DEF memory
<1>6. IsBuf(p)
  BY <1>1, <1>2, <1>4, <1>5 DEF IsBuf
<1> HIDE DEF cap, start, end
<1>7. Holds(p, b.size + n)
  <2>1. /\ b.size + n \in Nat /\ b.size + n <= cap
        /\ b.size + n = 0 => start = 0 /\ e = 0
        /\ b.size + n > 0 => /\ start < cap /\ e \in 1..cap
                             /\ start + (b.size + n) = e \/ start + (b.size + n) = e + cap
    <3>1. CASE b.size = 0
      BY <1>1, <1>4, <3>1
    <3>2. CASE b.size > 0 /\ start + b.size = end
      <4>1. start + (b.size + n) = end + n /\ n <= cap
        BY <1>1, <1>4, <3>2
      <4>2. e \in 1..cap /\ (end + n = e \/ end + n = e + cap)
        BY <1>1, <1>4, <3>2, <4>1
      <4> QED
        BY <1>1, <1>4, <3>2, <4>1, <4>2
    <3>3. CASE b.size > 0 /\ start + b.size = end + cap
      <4>1. start + (b.size + n) = end + n + cap /\ end + n <= cap
        BY <1>1, <1>4, <3>3
      <4> QED
        BY <1>1, <1>4, <3>3, <4>1
    <3> QED
      BY <1>1, <1>4, <3>1, <3>2, <3>3
  <2> HIDE DEF e
  <2> QED
    BY <2>1 DEF Holds
<1>8. ASSUME NEW i \in 0 .. b.size - 1 PROVE At(p, i) = At(b, i)
  <2> DEFINE j == Pos(start + i, cap)
  <2>1. At(p, i) = memory[j] /\ At(b, i) = g.data[j]
    BY <1>2 DEF At, start, cap
  <2>2. j \in 0 .. cap - 1 /\ ~(end <= j /\ j < end + n) /\ ~(j + cap < end + n)
    BY <1>1, <1>4 DEF Pos
  <2> HIDE DEF j
  <2> QED
    BY <1>5, <2>1, <2>2
<1>9. ASSUME NEW i \in 1..n PROVE At(p, b.size + i - 1) = d[i]
  <2> DEFINE j == Pos(start + (b.size + i - 1), cap)
  <2>1. At(p, b.size + i - 1) = memory[j]
    BY DEF At
  <2>2. /\ j \in 0 .. cap - 1
        /\ \/ end <= j /\ j < end + n /\ j - end + 1 = i
           \/ j < end /\ j + cap < end + n /\ j + cap - end + 1 = i
    <3>1. CASE start + b.size = end /\ end + i - 1 < cap
      <4>1. j = end + i - 1
        BY <1>1, <1>4, <3>1 DEF Pos
      <4> QED
        BY <1>1, <1>4, <3>1, <4>1
    <3>2. CASE start + b.size = end /\ end + i - 1 >= cap
      <4>1. j = end + i - 1 - cap
        BY <1>1, <1>4, <3>2 DEF Pos
      <4>2. n <= cap /\ end <= cap /\ i <= n /\ i \in Nat
        BY <1>1, <1>4
      <4> HIDE DEF j
      <4>3. j \in 0 .. cap - 1 /\ j < end
        BY <1>1, <1>4, <3>2, <4>1, <4>2
      <4>4. j + cap < end + n /\ j + cap - end + 1 = i
        BY <1>1, <1>4, <4>1, <4>2
      <4> QED
        BY <4>3, <4>4
    <3>3. CASE start + b.size = end + cap
      <4>1. b.size > 0 /\ end + n <= start /\ start < cap /\ i <= n /\ i \in Nat
        BY <1>1, <1>4, <3>3
      <4>2. start + (b.size + i - 1) = end + i - 1 + cap /\ end + i - 1 \in Nat
        BY <1>4, <3>3, <4>1
      <4>3. j = end + i - 1
        BY <1>4, <4>2 DEF Pos
      <4> HIDE DEF j
      <4> QED
        BY <1>1, <1>4, <4>1, <4>3
    <3> QED
      BY <1>1, <1>4, <3>1, <3>2, <3>3
  <2> HIDE DEF j
  <2> QED
    BY <1>4, <1>5, <2>1, <2>2
<1> QED
  BY <1>2, <1>3, <1>6, <1>7, <1>8, <1>9 DEF WF, n

\* To the front, of a buffer that is not empty.
LEMMA PushedFrontFacts ==
  ASSUME NEW b, WF(b), b.size > 0, NEW d \in Seq(Cells)
  PROVE  /\ WF(PushedFront(b, d)) /\ PushedFront(b, d).size = b.size + Len(d)
         /\ \A i \in 1..Len(d) : At(PushedFront(b, d), i - 1) = d[i]
         /\ \A i \in 0 .. b.size - 1 : At(PushedFront(b, d), Len(d) + i) = At(b, i)
<1> DEFINE n == Len(d)
           g == Room(b, n)
           D == g.data
           cap == g.capacity
           start == g.start_pos
           end == g.end_pos
           k == n - start
           memory == IF start < n
                     THEN Write(Write(D, 0, SubSeq(d, k + 1, n)), cap - k, SubSeq(d, 1, k))
                     ELSE Write(D, start - n, d)
           s == IF start < n THEN cap - k ELSE start - n
           p == [data |-> memory, size |-> g.size, start_pos |-> s, end_pos |-> end,
                 capacity |-> cap]
<1>1. n \in Nat /\ \A i \in 1..n : d[i] \in Cells
  BY SeqFun
<1>2. /\ IsBuf(g) /\ Holds(g, b.size) /\ g.size = b.size + n /\ b.size + n <= cap
      /\ \A i \in 0 .. b.size - 1 : At(g, i) = At(b, i)
  BY <1>1, RoomFacts
<1>3. PushedFront(b, d) = p
  <2>1. PushedFront(b, d) = [g EXCEPT !.data = memory, !.start_pos = s]
    BY DEF PushedFront
  <2>2. g = [data |-> g.data, size |-> g.size, start_pos |-> g.start_pos,
             end_pos |-> g.end_pos, capacity |-> g.capacity]
    BY <1>2 DEF IsBuf
  <2> HIDE DEF g, memory, s, n
  <2> QED
    BY <2>1, <2>2
<1> HIDE DEF g, n
<1>4. /\ cap \in Nat /\ start \in Nat /\ end \in Nat /\ b.size \in Nat /\ b.size > 0
      /\ b.size + n <= cap /\ n <= cap /\ start < cap /\ end \in 1..cap
      /\ start + b.size = end \/ start + b.size = end + cap
      /\ D \in [0 .. cap - 1 -> Cells]
  BY <1>1, <1>2 DEF IsBuf, Holds
<1> HIDE DEF D, cap, start, end
<1>5. /\ memory \in [0 .. cap - 1 -> Cells]
      /\ \A j \in 0 .. cap - 1 :
           memory[j] = IF s <= j /\ j < s + n THEN d[j - s + 1]
                       ELSE IF j + cap < s + n THEN d[j + cap - s + 1]
                       ELSE D[j]
  <2>1. CASE start >= n
    <3> DEFINE at == start - n
    <3>1. at \in Nat /\ at + n <= cap /\ s = at /\ memory = Write(D, at, d)
      BY <1>1, <1>4, <2>1
    <3> HIDE DEF memory, s, at
    <3>2. at .. at + Len(d) - 1 \subseteq DOMAIN D
      BY <1>1, <1>4, <3>1 DEF n
    <3>3. Write(D, at, d) = [j \in DOMAIN D |->
                      IF j \in at .. at + Len(d) - 1 THEN d[j - at + 1] ELSE D[j]]
      <4>1. at \in Nat
        BY <3>1
      <4> QED
        BY <3>2, <4>1, WriteFacts
    <3>4. memory = [j \in 0 .. cap - 1 |->
                      IF at <= j /\ j < at + n THEN d[j - at + 1] ELSE D[j]]
      BY <1>1, <1>4, <3>1, <3>3 DEF n
    <3>5. memory \in [0 .. cap - 1 -> Cells]
      <4>1. ASSUME NEW j \in 0 .. cap - 1, at <= j, j < at + n PROVE j - at + 1 \in 1..n
        BY <1>1, <3>1, <4>1
      <4> QED
        BY <1>1, <1>4, <3>1, <3>4, <4>1
    <3>6. \A j \in 0 .. cap - 1 : ~(j + cap < at + n)
      BY <1>1, <1>4, <3>1
    <3> QED
      BY <3>1, <3>4, <3>5, <3>6
  <2>2. CASE start < n
    <3> DEFINE at == cap - k
               first == SubSeq(d, 1, k)
               rest == SubSeq(d, k + 1, n)
    <3>1. k \in 0..n /\ n - k = start /\ at \in Nat /\ at + k = cap /\ start <= at /\ s = at
      BY <1>1, <1>4, <2>2
    <3>2. memory = Write(Write(D, 0, rest), at, first)
      BY <2>2
    <3> HIDE DEF memory, s, at, k
    <3>3. /\ first \in Seq(Cells) /\ Len(first) = k /\ \A i \in 1..k : first[i] = d[i]
          /\ rest \in Seq(Cells) /\ Len(rest) = start /\ \A i \in 1..start : rest[i] = d[k + i]
      BY <3>1, SubSeqFacts DEF n
    <3> HIDE DEF first, rest
    <3>4. /\ DOMAIN memory = 0 .. cap - 1
          /\ memory = [j \in 0 .. cap - 1 |-> IF at <= j THEN first[j - at + 1]
                                           ELSE IF j < Len(rest) THEN rest[j + 1]
                                           ELSE D[j]]
      <4>1. at + Len(first) = cap /\ Len(rest) <= at
        BY <3>1, <3>3
      <4>2. /\ rest \in Seq(Cells) /\ first \in Seq(Cells) /\ at \in Nat /\ cap \in Nat
            /\ D \in [0 .. cap - 1 -> Cells]
        BY <1>4, <3>1, <3>3
      <4>3. /\ DOMAIN Write(Write(D, 0, rest), at, first) = 0 .. cap - 1
            /\ Write(Write(D, 0, rest), at, first) =
                 [j \in 0 .. cap - 1 |-> IF at <= j THEN first[j - at + 1]
                                         ELSE IF j < Len(rest) THEN rest[j + 1]
                                         ELSE D[j]]
        BY <4>1, <4>2, WriteFrontFacts
      <4> QED
        BY <3>2, <4>3
    <3>6. ASSUME NEW j \in 0 .. cap - 1
          PROVE  /\ memory[j] = IF at <= j /\ j < at + n THEN d[j - at + 1]
                                ELSE IF j + cap < at + n THEN d[j + cap - at + 1]
                                ELSE D[j]
                 /\ memory[j] \in Cells
      <4>1. memory[j] = IF at <= j THEN first[j - at + 1]
                        ELSE IF j < start THEN rest[j + 1] ELSE D[j]
        BY <3>3, <3>4
      <4>3. j < start => rest[j + 1] = d[j + cap - at + 1] /\ d[j + cap - at + 1] \in Cells
        <5>1. ASSUME j < start
              PROVE  j + 1 \in 1..start /\ k + (j + 1) = j + cap - at + 1 /\ k + (j + 1) \in 1..n
          BY <1>1, <1>4, <3>1, <5>1
        <5> QED
          BY <1>1, <3>3, <5>1
      <4>4. at <= j => first[j - at + 1] = d[j - at + 1] /\ d[j - at + 1] \in Cells
        <5>1. ASSUME at <= j PROVE j - at + 1 \in 1..k /\ j - at + 1 \in 1..n
          BY <1>1, <1>4, <3>1, <5>1
        <5> QED
          BY <1>1, <3>3, <5>1
      <4>5. /\ at <= j => j < at + n /\ ~(j < start)
            /\ j < start <=> j + cap < at + n
        BY <1>1, <1>4, <3>1
      <4> QED
        BY <1>4, <3>1, <4>1, <4>3, <4>4, <4>5
    <3>7. DOMAIN memory = 0 .. cap - 1 /\ memory = [j \in DOMAIN memory |-> memory[j]]
      BY <3>4
    <3>8. memory \in [0 .. cap - 1 -> Cells]
      BY <3>6, <3>7
    <3> QED
      BY <3>1, <3>6, <3>8
  <2>3. start >= n \/ start < n
    BY <1>1, <1>4
  <2> QED
    BY <2>1, <2>2, <2>3
<1> HIDE DEF memory
<1>6. /\ s \in Nat /\ s < cap
      /\ s + (b.size + n) = end \/ s + (b.size + n) = end + cap
      /\ s + n = start \/ s + n = start + cap
  <2>1. CASE start >= n
    BY <1>1, <1>4, <2>1
  <2>2. CASE start < n
    <3>1. start + b.size = end
      BY <1>1, <1>4, <2>2
    <3>2. s = cap - (n - start) /\ n - start \in 1..n
      BY <1>1, <1>4, <2>2
    <3> HIDE DEF s
    <3>3. s + n = start + cap /\ s < cap /\ s \in Nat
      BY <1>1, <1>4, <3>2
    <3>4. s + (b.size + n) = (s + n) + b.size
      BY <1>1, <1>4, <3>3
    <3>5. (s + n) + b.size = end + cap
      BY <1>4, <3>1, <3>3
    <3> QED
      BY <3>3, <3>4, <3>5
  <2> QED
    BY <1>1, <1>4, <2>1, <2>2
<1> HIDE DEF s
<1>7. IsBuf(p)
  BY <1>1, <1>2, <1>4, <1>5, <1>6 DEF IsBuf
<1>8. Holds(p, b.size + n)
  BY <1>1, <1>4, <1>6 DEF Holds
<1>9. ASSUME NEW i \in 1..n PROVE At(p, i - 1) = d[i]
  <2> DEFINE j == Pos(s + (i - 1), cap)
  <2>1. At(p, i - 1) = memory[j]
    BY DEF At
  <2>2. /\ j \in 0 .. cap - 1
        /\ \/ s <= j /\ j < s + n /\ j - s + 1 = i
           \/ j < s /\ j + cap < s + n /\ j + cap - s + 1 = i
    BY <1>1, <1>4, <1>6 DEF Pos
  <2> HIDE DEF j
  <2> QED
    BY <1>5, <1>6, <2>1, <2>2
<1>10. ASSUME NEW i \in 0 .. b.size - 1 PROVE At(p, n + i) = At(b, i)
  <2> DEFINE j == Pos(start + i, cap)
  <2>1. At(p, n + i) = memory[Pos(s + (n + i), cap)] /\ At(b, i) = D[j]
    BY <1>2 DEF At, D, start, cap
  <2>2. Pos(s + (n + i), cap) = j
    BY <1>1, <1>4, <1>6 DEF Pos
  <2>3. j \in 0 .. cap - 1 /\ ~(s <= j /\ j < s + n) /\ ~(j + cap < s + n)
    <3>1. CASE s + n = start
      BY <1>1, <1>4, <1>6, <3>1 DEF Pos
    <3>2. CASE s + n = start + cap
      <4>1. j = start + i /\ j < s
        BY <1>1, <1>4, <1>6, <3>2 DEF Pos
      <4>2. j \in Nat /\ j >= start
        BY <1>4, <4>1
      <4> HIDE DEF j
      <4> QED
        BY <1>1, <1>4, <1>6, <3>2, <4>1, <4>2
    <3> QED
      BY <1>6, <3>1, <3>2
  <2> HIDE DEF j
  <2> QED
    BY <1>5, <2>1, <2>2, <2>3
<1> QED
  BY <1>2, <1>3, <1>7, <1>8, <1>9, <1>10 DEF WF, n

\* What lies behind the first n bytes moves to the front.
LEMMA PoppedFrontFacts ==
  ASSUME NEW b, WF(b), NEW n \in 0 .. b.size
  PROVE  /\ WF(PoppedFront(b, n)) /\ PoppedFront(b, n).size = b.size - n
         /\ \A i \in 0 .. b.size - n - 1 : At(PoppedFront(b, n), i) = At(b, n + i)
<1> DEFINE cap == b.capacity
           start == b.start_pos
           end == b.end_pos
           e == IF n = b.size THEN 0 ELSE end
           s == IF n = b.size THEN 0 ELSE Pos(start + n, cap)
           p == [data |-> b.data, size |-> b.size - n, start_pos |-> s, end_pos |-> e,
                 capacity |-> cap]
<1>1. /\ IsBuf(b) /\ cap \in Nat /\ start \in Nat /\ end \in Nat
      /\ b.size \in Nat /\ b.size <= cap /\ n \in Nat /\ n <= b.size
      /\ b.size > 0 => /\ start < cap /\ end \in 1..cap
                       /\ start + b.size = end \/ start + b.size = end + cap
      /\ b = [data |-> b.data, size |-> b.size, start_pos |-> start, end_pos |-> end,
              capacity |-> cap]
  BY DEF WF, IsBuf, Holds
<1>2. PoppedFront(b, n) = p
  <2>1. b.size - b.size = 0
    BY <1>1
  <2>2. CASE n = b.size
    <3>1. PoppedFront(b, n) = [b EXCEPT !.size = 0, !.start_pos = 0, !.end_pos = 0]
      BY <2>2 DEF PoppedFront
    <3> QED
      BY <1>1, <2>1, <2>2, <3>1
  <2>3. CASE n # b.size
    <3>1. PoppedFront(b, n) = [b EXCEPT !.size = b.size - n, !.start_pos = s]
      BY <2>3 DEF PoppedFront, Pos
    <3> HIDE DEF s
    <3> QED
      BY <1>1, <2>3, <3>1
  <2> QED
    BY <2>2, <2>3
<1> HIDE DEF cap, start, end
<1>3. CASE n = b.size
  <2>1. b.size - n = 0 /\ s = 0 /\ e = 0
    BY <1>1, <1>3
  <2>2. IsBuf(p)
    BY <1>1, <2>1 DEF IsBuf, cap
  <2>3. Holds(p, b.size - n)
    BY <1>1, <2>1 DEF Holds
  <2> QED
    BY <1>2, <2>1, <2>2, <2>3 DEF WF
<1>4. CASE n < b.size
  <2>1. s = Pos(start + n, cap) /\ e = end
    BY <1>1, <1>4
  <2> HIDE DEF s, e
  <2>2. /\ s \in Nat /\ s < cap
        /\ s + (b.size - n) = end \/ s + (b.size - n) = end + cap
    BY <1>1, <1>4, <2>1 DEF Pos
  <2>3. IsBuf(p)
    BY <1>1, <2>1, <2>2 DEF IsBuf, cap
  <2>4. Holds(p, b.size - n)
    BY <1>1, <1>4, <2>1, <2>2 DEF Holds
  <2>5. ASSUME NEW i \in 0 .. b.size - n - 1 PROVE At(p, i) = At(b, n + i)
    <3>1. At(p, i) = b.data[Pos(s + i, cap)] /\ At(b, n + i) = b.data[Pos(start + (n + i), cap)]
      BY DEF At, start, cap
    <3>2. Pos(s + i, cap) = Pos(start + (n + i), cap)
      BY <1>1, <1>4, <2>1 DEF Pos
    <3> QED
      BY <3>1, <3>2
  <2> QED
    BY <1>2, <2>3, <2>4, <2>5 DEF WF
<1> QED
  BY <1>1, <1>3, <1>4

\* What lies before the last n bytes keeps its indices.
LEMMA PoppedBackFacts ==
  ASSUME NEW b, WF(b), NEW n \in 0 .. b.size
  PROVE  /\ WF(PoppedBack(b, n)) /\ PoppedBack(b, n).size = b.size - n
         /\ \A i \in 0 .. b.size - n - 1 : At(PoppedBack(b, n), i) = At(b, i)
<1> DEFINE cap == b.capacity
           start == b.start_pos
           end == b.end_pos
           s == IF n = b.size THEN 0 ELSE start
           e == IF n = b.size THEN 0 ELSE IF end <= n THEN cap - (n - end) ELSE end - n
           p == [data |-> b.data, size |-> b.size - n, start_pos |-> s, end_pos |-> e,
                 capacity |-> cap]
<1>1. /\ IsBuf(b) /\ cap \in Nat /\ start \in Nat /\ end \in Nat
      /\ b.size \in Nat /\ b.size <= cap /\ n \in Nat /\ n <= b.size
      /\ b.size > 0 => /\ start < cap /\ end \in 1..cap
                       /\ start + b.size = end \/ start + b.size = end + cap
      /\ b = [data |-> b.data, size |-> b.size, start_pos |-> start, end_pos |-> end,
              capacity |-> cap]
  BY DEF WF, IsBuf, Holds
<1>2. PoppedBack(b, n) = p
  <2>1. b.size - b.size = 0
    BY <1>1
  <2>2. CASE n = b.size
    <3>1. PoppedBack(b, n) = [b EXCEPT !.size = 0, !.start_pos = 0, !.end_pos = 0]
      BY <2>2 DEF PoppedBack
    <3> QED
      BY <1>1, <2>1, <2>2, <3>1
  <2>3. CASE n # b.size
    <3>1. PoppedBack(b, n) = [b EXCEPT !.size = b.size - n, !.end_pos = e]
      BY <2>3 DEF PoppedBack
    <3> HIDE DEF e
    <3> QED
      BY <1>1, <2>3, <3>1
  <2> QED
    BY <2>2, <2>3
<1> HIDE DEF cap, start, end
<1>3. CASE n = b.size
  <2>1. b.size - n = 0 /\ s = 0 /\ e = 0
    BY <1>1, <1>3
  <2>2. IsBuf(p)
    BY <1>1, <2>1 DEF IsBuf, cap
  <2>3. Holds(p, b.size - n)
    BY <1>1, <2>1 DEF Holds
  <2> QED
    BY <1>2, <2>1, <2>2, <2>3 DEF WF
<1>4. CASE n < b.size
  <2>1. s = start /\ e = (IF end <= n THEN cap - (n - end) ELSE end - n)
    BY <1>1, <1>4
  <2> HIDE DEF s, e
  <2>2. /\ e \in 1..cap
        /\ start + (b.size - n) = e \/ start + (b.size - n) = e + cap
    BY <1>1, <1>4, <2>1
  <2>3. IsBuf(p)
    BY <1>1, <2>1, <2>2 DEF IsBuf, cap
  <2>4. Holds(p, b.size - n)
    BY <1>1, <1>4, <2>1, <2>2 DEF Holds
  <2>5. \A i : At(p, i) = At(b, i)
    BY <2>1 DEF At, start, cap
  <2> QED
    BY <1>2, <2>3, <2>4, <2>5 DEF WF
<1> QED
  BY <1>1, <1>3, <1>4

\* Reserving changes no byte and no index, whatever moves.
LEMMA ReservedFacts ==
  ASSUME NEW b, WF(b), NEW c \in Nat
  PROVE  /\ WF(Reserved(b, c)) /\ Reserved(b, c).size = b.size
         /\ \A i \in 0 .. b.size - 1 : At(Reserved(b, c), i) = At(b, i)
<1>1. b.capacity \in Nat /\ b.size \in Nat
  BY DEF WF, IsBuf
<1>2. CASE c <= b.capacity
  BY <1>2 DEF Reserved
<1>3. CASE c > b.capacity
  <2>1. Reserved(b, c) = Realloc(b, c)
    BY <1>1, <1>3 DEF Reserved
  <2>2. IsBuf(b) /\ Holds(b, b.size) /\ b.size <= b.size /\ b.capacity < c
    BY <1>1, <1>3 DEF WF
  <2> QED
    BY <2>1, <2>2, ReallocFacts DEF WF
<1> QED
  BY <1>1, <1>2, <1>3

\* Zeros are bytes.
LEMMA ZerosFacts ==
  ASSUME NEW n \in Nat
  PROVE  Zeros(n) \in Seq(Cells) /\ Len(Zeros(n)) = n /\ \A i \in 1..n : Zeros(n)[i] = 0
<1>1. 0 \in Cells
  BY ConstantsAssumption DEF Cells
<1> QED
  BY <1>1, FunSeq DEF Zeros

\* Upsizing appends zeros, or does nothing.
LEMMA UpsizedFacts ==
  ASSUME NEW b, WF(b), NEW n \in Nat
  PROVE  /\ WF(Upsized(b, n))
         /\ Upsized(b, n).size = IF n <= b.size THEN b.size ELSE n
         /\ \A i \in 0 .. b.size - 1 : At(Upsized(b, n), i) = At(b, i)
         /\ \A i \in b.size .. n - 1 : At(Upsized(b, n), i) = 0
<1>1. b.size \in Nat
  BY DEF WF, IsBuf
<1>2. CASE n <= b.size
  BY <1>1, <1>2 DEF Upsized
<1>3. CASE n > b.size
  <2> DEFINE m == n - b.size
             z == Zeros(m)
  <2>1. m \in Nat /\ b.size + m = n
    BY <1>1, <1>3
  <2>2. Upsized(b, n) = PushedBack(b, z)
    BY <1>1, <1>3 DEF Upsized
  <2> HIDE DEF m
  <2>3. z \in Seq(Cells) /\ Len(z) = m /\ \A i \in 1..m : z[i] = 0
    BY <2>1, ZerosFacts
  <2> HIDE DEF z
  <2>4. /\ WF(PushedBack(b, z)) /\ PushedBack(b, z).size = b.size + Len(z)
        /\ \A i \in 0 .. b.size - 1 : At(PushedBack(b, z), i) = At(b, i)
        /\ \A i \in 1..Len(z) : At(PushedBack(b, z), b.size + i - 1) = z[i]
    BY <2>3, PushedBackFacts
  <2>5. ASSUME NEW i \in b.size .. n - 1 PROVE At(PushedBack(b, z), i) = 0
    <3>1. i - b.size + 1 \in 1..m /\ b.size + (i - b.size + 1) - 1 = i
      BY <1>1, <2>1
    <3> QED
      BY <2>3, <2>4, <3>1
  <2> QED
    BY <1>1, <1>3, <2>1, <2>2, <2>3, <2>4, <2>5
<1> QED
  BY <1>1, <1>2, <1>3

\* Of the bytes in a buffer, those of a window of n from index k on lie where
\* a write of n bytes from the window's position on, around the end, puts them.
LEMMA WindowFacts ==
  ASSUME NEW cap \in Nat, NEW start \in Nat, start < cap,
         NEW k \in Nat, k < cap, NEW n \in Nat, k + n <= cap,
         NEW i \in 0 .. cap - 1
  PROVE  /\ Pos(start + i, cap) \in 0 .. cap - 1
         /\ k <= i /\ i < k + n =>
              \/ /\ Pos(start + k, cap) <= Pos(start + i, cap)
                 /\ Pos(start + i, cap) < Pos(start + k, cap) + n
                 /\ Pos(start + i, cap) - Pos(start + k, cap) + 1 = i - k + 1
              \/ /\ Pos(start + i, cap) < Pos(start + k, cap)
                 /\ Pos(start + i, cap) + cap < Pos(start + k, cap) + n
                 /\ Pos(start + i, cap) + cap - Pos(start + k, cap) + 1 = i - k + 1
         /\ ~(k <= i /\ i < k + n) =>
              /\ ~(/\ Pos(start + k, cap) <= Pos(start + i, cap)
                   /\ Pos(start + i, cap) < Pos(start + k, cap) + n)
              /\ ~(Pos(start + i, cap) + cap < Pos(start + k, cap) + n)
<1>1. CASE start + i < cap /\ start + k < cap
  BY <1>1 DEF Pos
<1>2. CASE start + i >= cap /\ start + k < cap
  BY <1>2 DEF Pos
<1>3. CASE start + i < cap /\ start + k >= cap
  BY <1>3 DEF Pos
<1>4. CASE start + i >= cap /\ start + k >= cap
  BY <1>4 DEF Pos
<1> QED
  BY <1>1, <1>2, <1>3, <1>4

\* Placing overwrites the window from k on, and nothing else.
LEMMA PlacedFacts ==
  ASSUME NEW b, WF(b), NEW k \in Nat, NEW d \in Seq(Cells)
  PROVE  /\ WF(Placed(b, k, d))
         /\ Placed(b, k, d).size = Upsized(b, k + Len(d)).size
         /\ \A i \in 0 .. Upsized(b, k + Len(d)).size - 1 :
              At(Placed(b, k, d), i) = IF k <= i /\ i < k + Len(d) THEN d[i - k + 1]
                                       ELSE At(Upsized(b, k + Len(d)), i)
<1> DEFINE n == Len(d)
           total == k + n
           g == Upsized(b, total)
           cap == g.capacity
           start == g.start_pos
           at == Pos(k + start, cap)
           memory == WriteAround(g, at, d)
           p == [data |-> memory, size |-> g.size, start_pos |-> start, end_pos |-> g.end_pos,
                 capacity |-> cap]
<1>1. n \in Nat /\ total \in Nat /\ total = k + n
  BY SeqFun
<1>2. WF(g) /\ k + n <= g.size
  <2>1. b.size \in Nat /\ total \in Nat
    BY <1>1 DEF WF, IsBuf
  <2> HIDE DEF total
  <2>2. WF(g) /\ g.size = IF total <= b.size THEN b.size ELSE total
    BY <2>1, UpsizedFacts
  <2> HIDE DEF g
  <2> QED
    BY <1>1, <2>1, <2>2
<1>3. Placed(b, k, d) = p
  <2>1. Placed(b, k, d) = [g EXCEPT !.data = memory]
    <3> DEFINE there == IF k + g.start_pos >= g.capacity THEN k + g.start_pos - g.capacity
                                                         ELSE k + g.start_pos
    <3>1. Placed(b, k, d) = [g EXCEPT !.data = WriteAround(g, there, d)]
      BY DEF Placed
    <3>2. g.start_pos \in Nat /\ g.capacity \in Nat
      BY <1>2 DEF WF, IsBuf
    <3>3. there = at
      <4> HIDE DEF g
      <4> QED
        BY <3>2 DEF Pos
    <3> HIDE DEF g, there, at
    <3> QED
      BY <3>1, <3>3
  <2>2. g = [data |-> g.data, size |-> g.size, start_pos |-> g.start_pos,
             end_pos |-> g.end_pos, capacity |-> g.capacity]
    BY <1>2 DEF WF, IsBuf
  <2> HIDE DEF g, memory
  <2> QED
    BY <2>1, <2>2
<1> HIDE DEF g
<1>4. /\ IsBuf(g) /\ Holds(g, g.size) /\ cap \in Nat /\ start \in Nat /\ g.size \in Nat
      /\ g.size <= cap /\ (g.size = 0 => start = 0) /\ (g.size > 0 => start < cap)
  BY <1>2 DEF WF, IsBuf, Holds
<1> HIDE DEF n, cap, start
<1>5. at \in Nat /\ at <= cap /\ n <= cap
  BY <1>1, <1>2, <1>4 DEF Pos
<1>6. /\ memory \in [0 .. cap - 1 -> Cells]
      /\ \A j \in 0 .. cap - 1 :
           memory[j] = IF at <= j /\ j < at + n THEN d[j - at + 1]
                       ELSE IF j + cap < at + n THEN d[j + cap - at + 1]
                       ELSE g.data[j]
  <2> HIDE DEF at
  <2> QED
    BY <1>4, <1>5, WriteAroundFacts DEF n, cap
<1> HIDE DEF memory
<1>7. IsBuf(p)
  BY <1>4, <1>6 DEF IsBuf, cap, start
<1>8. Holds(p, g.size)
  BY <1>4 DEF Holds, cap, start
<1>9. ASSUME NEW i \in 0 .. g.size - 1
      PROVE  At(p, i) = IF k <= i /\ i < k + n THEN d[i - k + 1] ELSE At(g, i)
  <2> DEFINE j == Pos(start + i, cap)
  <2>1. At(p, i) = memory[j] /\ At(g, i) = g.data[j]
    BY DEF At, start, cap
  <2>2. CASE n = 0
    <3>1. ~(k <= i /\ i < k + n)
      BY <2>2
    <3>2. j \in 0 .. cap - 1 /\ ~(at <= j /\ j < at + n) /\ ~(j + cap < at + n)
      BY <1>4, <1>5, <2>2 DEF Pos
    <3> HIDE DEF j, at
    <3> QED
      BY <1>6, <2>1, <3>1, <3>2
  <2>3. CASE n # 0
    <3>1. start < cap /\ k < g.size
      BY <1>1, <1>2, <1>4, <2>3
    <3>2. at = Pos(start + k, cap)
      BY <1>4
    <3> HIDE DEF at
    <3>3. /\ j \in 0 .. cap - 1
          /\ k <= i /\ i < k + n =>
               \/ at <= j /\ j < at + n /\ j - at + 1 = i - k + 1
               \/ j < at /\ j + cap < at + n /\ j + cap - at + 1 = i - k + 1
          /\ ~(k <= i /\ i < k + n) => ~(at <= j /\ j < at + n) /\ ~(j + cap < at + n)
      <4>1. k < cap /\ k + n <= cap /\ i \in 0 .. cap - 1
        BY <1>1, <1>2, <1>4, <3>1
      <4>2. /\ Pos(start + i, cap) \in 0 .. cap - 1
            /\ k <= i /\ i < k + n =>
                 \/ /\ Pos(start + k, cap) <= Pos(start + i, cap)
                    /\ Pos(start + i, cap) < Pos(start + k, cap) + n
                    /\ Pos(start + i, cap) - Pos(start + k, cap) + 1 = i - k + 1
                 \/ /\ Pos(start + i, cap) < Pos(start + k, cap)
                    /\ Pos(start + i, cap) + cap < Pos(start + k, cap) + n
                    /\ Pos(start + i, cap) + cap - Pos(start + k, cap) + 1 = i - k + 1
            /\ ~(k <= i /\ i < k + n) =>
                 /\ ~(/\ Pos(start + k, cap) <= Pos(start + i, cap)
                      /\ Pos(start + i, cap) < Pos(start + k, cap) + n)
                 /\ ~(Pos(start + i, cap) + cap < Pos(start + k, cap) + n)
        BY <1>1, <1>4, <3>1, <4>1, WindowFacts
      <4> QED
        BY <3>2, <4>2
    <3> HIDE DEF j
    <3>4. CASE k <= i /\ i < k + n
      BY <1>4, <1>5, <1>6, <2>1, <3>3, <3>4
    <3>5. CASE ~(k <= i /\ i < k + n)
      BY <1>6, <2>1, <3>3, <3>5
    <3> QED
      BY <3>4, <3>5
  <2> QED
    BY <2>2, <2>3
<1> QED
  BY <1>3, <1>7, <1>8, <1>9 DEF WF, n, g

\* What a peek or a pop at the front gives back.
LEMMA FrontFacts ==
  ASSUME NEW b, WF(b), NEW n \in 0 .. b.size
  PROVE  /\ Front(b, n) \in Seq(Cells) /\ Len(Front(b, n)) = n
         /\ \A i \in 1..n : Front(b, n)[i] = At(b, i - 1)
<1>1. /\ IsBuf(b) /\ b.capacity \in Nat /\ b.start_pos \in Nat /\ b.size \in Nat
      /\ n \in Nat /\ n <= b.capacity /\ b.start_pos <= b.capacity
  BY DEF WF, IsBuf, Holds
<1>2. /\ Front(b, n) \in Seq(Cells) /\ Len(Front(b, n)) = n
      /\ \A i \in 1..n : Front(b, n)[i] = b.data[Pos(b.start_pos + i - 1, b.capacity)]
  BY <1>1, ReadAroundFacts DEF Front
<1>3. \A i \in 1..n : b.start_pos + i - 1 = b.start_pos + (i - 1)
  BY <1>1
<1> QED
  BY <1>2, <1>3 DEF At

\* Where the last n bytes begin, counted from the end.
LEMMA BackIndex ==
  ASSUME NEW start \in Int, NEW size \in Int, NEW n \in Int, NEW i \in Int, NEW at \in Int,
         NEW end \in Int, NEW c \in Int,
         start + size = end + c, at + n = end + c
  PROVE  start + (size - n + i - 1) = at + i - 1
OBVIOUS

\* What a peek or a pop at the back gives back.
LEMMA BackFacts ==
  ASSUME NEW b, WF(b), NEW n \in 0 .. b.size
  PROVE  /\ Back(b, n) \in Seq(Cells) /\ Len(Back(b, n)) = n
         /\ \A i \in 1..n : Back(b, n)[i] = At(b, b.size - n + i - 1)
<1> DEFINE data == b.data
           cap == b.capacity
           start == b.start_pos
           end == b.end_pos
           e == IF end > 0 THEN end ELSE cap
<1>1. /\ cap \in Nat /\ start \in Nat /\ end \in Nat /\ data \in [0 .. cap - 1 -> Cells]
      /\ b.size \in Nat /\ b.size <= cap /\ n \in Nat /\ n <= b.size
      /\ b.size = 0 => start = 0 /\ end = 0
      /\ b.size > 0 => /\ start < cap /\ end \in 1..cap
                       /\ start + b.size = end \/ start + b.size = end + cap
  BY DEF WF, IsBuf, Holds
<1>2. \A i : At(b, b.size - n + i - 1) = data[Pos(start + (b.size - n + i - 1), cap)]
  BY DEF At
<1>3. CASE e < n
  <2> DEFINE k == n - end
             at == cap - k
             first == Read(data, at, k)
             rest == Read(data, 0, end)
  <2>1. b.size > 0 /\ e = end /\ start + b.size = end + cap
    BY <1>1, <1>3
  <2>2. Back(b, n) = first \o rest
    BY <1>1, <1>3, <2>1 DEF Back
  <2>3. k \in Nat /\ at \in Nat /\ at + k = cap /\ k + end = n
    BY <1>1, <1>3, <2>1
  <2> HIDE DEF data, cap, start, end, at, k
  <2>4. first = [i \in 1..k |-> data[at + i - 1]]
    <3>1. at .. at + k - 1 \subseteq DOMAIN data
      BY <1>1, <2>3
    <3> QED
      BY <2>3, <3>1, ReadFacts
  <2>5. rest = [i \in 1..end |-> data[0 + i - 1]]
    <3>1. 0 .. 0 + end - 1 \subseteq DOMAIN data
      BY <1>1, <2>1
    <3> QED
      BY <1>1, <3>1, ReadFacts
  <2> HIDE DEF first, rest
  <2>6. first \in [1..k -> Cells]
    BY <1>1, <2>3, <2>4
  <2>7. rest \in [1..end -> Cells]
    BY <1>1, <2>1, <2>5
  <2>8. /\ first \o rest \in Seq(Cells) /\ Len(first \o rest) = n
        /\ \A i \in 1..n : (first \o rest)[i] = IF i <= k THEN first[i] ELSE rest[i - k]
    <3>1. first \in Seq(Cells) /\ Len(first) = k /\ rest \in Seq(Cells) /\ Len(rest) = end
      BY <1>1, <2>3, <2>6, <2>7, FunSeq
    <3> QED
      BY <2>3, <3>1, Concat
  <2>9. ASSUME NEW i \in 1..n
        PROVE  (first \o rest)[i] = data[Pos(start + (b.size - n + i - 1), cap)]
    <3>1. start + (b.size - n + i - 1) = at + i - 1
      <4>1. /\ start \in Int /\ b.size \in Int /\ n \in Int /\ i \in Int /\ at \in Int
            /\ k \in Int /\ end \in Int /\ cap \in Int
        BY <1>1, <2>3
      <4>2. start + b.size = end + cap /\ at + n = end + cap
        BY <4>1, <2>1, <2>3
      <4> QED
        BY <4>1, <4>2, BackIndex
    <3>2. CASE i <= k
      <4>1. (first \o rest)[i] = data[at + i - 1]
        BY <2>3, <2>4, <2>8, <3>2
      <4>2. Pos(at + i - 1, cap) = at + i - 1
        BY <1>1, <2>3, <3>2 DEF Pos
      <4> QED
        BY <3>1, <4>1, <4>2
    <3>3. CASE i > k
      <4>1. ~(i <= k) /\ i - k \in 1..end
        BY <1>1, <2>3, <3>3
      <4>2. (first \o rest)[i] = data[0 + (i - k) - 1]
        BY <2>5, <2>8, <4>1
      <4>3. Pos(at + i - 1, cap) = 0 + (i - k) - 1
        BY <1>1, <2>3, <3>3 DEF Pos
      <4> QED
        BY <3>1, <4>2, <4>3
    <3>4. i <= k \/ i > k
      BY <2>3
    <3> QED
      BY <3>2, <3>3, <3>4
  <2> QED
    BY <1>2, <2>2, <2>8, <2>9
<1>4. CASE e >= n
  <2> DEFINE at == end - n
  <2>1. at \in Nat /\ at + n = end /\ end <= cap
    BY <1>1, <1>4
  <2>2. Back(b, n) = Read(data, at, n)
    BY <1>1, <1>4 DEF Back
  <2>3. ASSUME NEW i \in 1..n PROVE Pos(start + (b.size - n + i - 1), cap) = at + i - 1
    <3>1. /\ start \in Nat /\ b.size \in Nat /\ n \in Nat /\ i \in Nat /\ at \in Nat
          /\ end \in Nat /\ cap \in Nat /\ i <= n /\ i >= 1 /\ n <= cap
          /\ at + n = end /\ end <= cap
          /\ start + b.size = end \/ start + b.size = end + cap
      BY <1>1, <2>1
    <3> HIDE DEF start, end, cap, at
    <3>2. CASE start + b.size = end
      <4>1. start + (b.size - n + i - 1) = at + i - 1
        <5>1. start + b.size = end + 0 /\ at + n = end + 0
          BY <3>1, <3>2
        <5> QED
          BY <3>1, <5>1, BackIndex
      <4>2. ~(at + i - 1 >= cap)
        BY <3>1
      <4> QED
        BY <4>1, <4>2 DEF Pos
    <3>3. CASE start + b.size = end + cap
      <4>1. start + (b.size - n + i - 1) = (at + cap) + i - 1
        <5>1. at + cap \in Int /\ (at + cap) + n = end + cap
          BY <3>1
        <5> HIDE DEF at
        <5> QED
          BY <3>1, <3>3, <5>1, BackIndex
      <4>2. /\ (at + cap) + i - 1 >= cap /\ ((at + cap) + i - 1) - cap = at + i - 1
            /\ (at + cap) + i - 1 \in Int
        BY <3>1
      <4> QED
        BY <3>1, <4>1, <4>2 DEF Pos
    <3> QED
      BY <3>1, <3>2, <3>3
  <2> HIDE DEF data, cap, start, end, at
  <2>4. Read(data, at, n) = [i \in 1..n |-> data[at + i - 1]]
    <3>1. at .. at + n - 1 \subseteq DOMAIN data
      BY <1>1, <2>1
    <3>2. at \in Nat /\ n \in Nat
      BY <1>1, <2>1
    <3> QED
      BY <3>1, <3>2, ReadFacts
  <2>5. [i \in 1..n |-> data[at + i - 1]] \in [1..n -> Cells]
    BY <1>1, <2>1
  <2>6. Read(data, at, n) \in Seq(Cells) /\ Len(Read(data, at, n)) = n
    BY <1>1, <2>4, <2>5, FunSeq
  <2> QED
    BY <1>2, <2>2, <2>3, <2>4, <2>6
<1>5. e < n \/ e >= n
  BY <1>1
<1> QED
  BY <1>3, <1>4, <1>5

\* What circlebuf_data points to is the byte at that index.
LEMMA DataFacts ==
  ASSUME NEW b, WF(b), NEW k \in 0 .. b.size - 1
  PROVE  Read(b.data, Pos(b.start_pos + k, b.capacity), 1) = [i \in 1..1 |-> At(b, k)]
<1> DEFINE at == Pos(b.start_pos + k, b.capacity)
<1>1. at \in Nat /\ at \in DOMAIN b.data
  BY DEF WF, IsBuf, Holds, Pos
<1>2. At(b, k) = b.data[at]
  BY DEF At
<1> HIDE DEF at
<1>3. \A i \in 1..1 : at + i - 1 = at
  BY <1>1
<1> QED
  BY <1>1, <1>2, <1>3 DEF at, Read
-----------------------------------------------------------------------------
(* The calls, on the contents. *)

\* The contents are f if they agree with it at every index.
LEMMA BytesAre ==
  ASSUME NEW b, WF(b), NEW f \in Seq(Cells), Len(f) = b.size,
         \A i \in 1..b.size : At(b, i - 1) = f[i]
  PROVE  Bytes(b) = f
<1>1. f = [i \in 1..Len(f) |-> f[i]]
  BY SeqFun
<1>2. Bytes(b) = [i \in 1..b.size |-> f[i]]
  BY DEF Bytes
<1> QED
  BY <1>1, <1>2

\* A push to the back appends to the contents.
LEMMA PushedBackBytes ==
  ASSUME NEW b, WF(b), NEW d \in Seq(Cells)
  PROVE  WF(PushedBack(b, d)) /\ Bytes(PushedBack(b, d)) = Bytes(b) \o d
<1> DEFINE p == PushedBack(b, d)
           n == Len(d)
           s == Bytes(b)
<1>1. /\ WF(p) /\ p.size = b.size + n
      /\ \A i \in 0 .. b.size - 1 : At(p, i) = At(b, i)
      /\ \A i \in 1..n : At(p, b.size + i - 1) = d[i]
  BY PushedBackFacts
<1>2. /\ s \in Seq(Cells) /\ Len(s) = b.size /\ b.size \in Nat /\ n \in Nat
      /\ \A i \in 1..b.size : s[i] = At(b, i - 1)
  <2>1. b.size \in Nat
    BY DEF WF, IsBuf
  <2> QED
    BY <2>1, BytesFacts, SeqFun
<1> HIDE DEF p, s, n
<1>3. /\ s \o d \in Seq(Cells) /\ Len(s \o d) = b.size + n
      /\ \A i \in 1 .. b.size + n : (s \o d)[i] = IF i <= b.size THEN s[i] ELSE d[i - b.size]
  <2>1. /\ s \o d \in Seq(Cells) /\ Len(s \o d) = Len(s) + Len(d)
        /\ \A i \in 1 .. Len(s) + Len(d) : (s \o d)[i] = IF i <= Len(s) THEN s[i]
                                                       ELSE d[i - Len(s)]
    <3>1. s \in Seq(Cells)
      BY <1>2
    <3> QED
      BY <3>1, Concat
  <2> QED
    BY <1>2, <2>1 DEF n
<1>4. ASSUME NEW i \in 1 .. b.size + n PROVE At(p, i - 1) = (s \o d)[i]
  <2>1. CASE i <= b.size
    <3>1. i - 1 \in 0 .. b.size - 1 /\ i \in 1..b.size
      BY <1>2, <2>1
    <3> QED
      BY <1>1, <1>2, <1>3, <2>1, <3>1
  <2>2. CASE i > b.size
    <3>1. i - b.size \in 1..n /\ b.size + (i - b.size) - 1 = i - 1 /\ ~(i <= b.size)
      BY <1>2, <2>2
    <3>2. At(p, b.size + (i - b.size) - 1) = d[i - b.size]
      BY <1>1, <3>1
    <3> QED
      BY <1>3, <3>1, <3>2
  <2>3. i <= b.size \/ i > b.size
    BY <1>2
  <2> QED
    BY <2>1, <2>2, <2>3
<1>5. Bytes(p) = s \o d
  BY <1>1, <1>3, <1>4, BytesAre
<1> QED
  BY <1>1, <1>5 DEF p, s

\* A push to the front puts before the contents, if there are any.
LEMMA PushedFrontBytes ==
  ASSUME NEW b, WF(b), b.size > 0, NEW d \in Seq(Cells)
  PROVE  WF(PushedFront(b, d)) /\ Bytes(PushedFront(b, d)) = d \o Bytes(b)
<1> DEFINE p == PushedFront(b, d)
           n == Len(d)
           s == Bytes(b)
<1>1. /\ WF(p) /\ p.size = b.size + n
      /\ \A i \in 1..n : At(p, i - 1) = d[i]
      /\ \A i \in 0 .. b.size - 1 : At(p, n + i) = At(b, i)
  BY PushedFrontFacts
<1>2. /\ s \in Seq(Cells) /\ Len(s) = b.size /\ b.size \in Nat /\ n \in Nat
      /\ \A i \in 1..b.size : s[i] = At(b, i - 1)
  <2>1. b.size \in Nat
    BY DEF WF, IsBuf
  <2> QED
    BY <2>1, BytesFacts, SeqFun
<1> HIDE DEF p, s, n
<1>3. /\ d \o s \in Seq(Cells) /\ Len(d \o s) = n + b.size
      /\ \A i \in 1 .. n + b.size : (d \o s)[i] = IF i <= n THEN d[i] ELSE s[i - n]
  BY <1>2, Concat DEF n
<1>4. n + b.size = b.size + n
  BY <1>2
<1>5. ASSUME NEW i \in 1 .. n + b.size PROVE At(p, i - 1) = (d \o s)[i]
  <2>1. CASE i <= n
    <3>1. i \in 1..n
      BY <1>2, <2>1
    <3> QED
      BY <1>1, <1>3, <2>1, <3>1
  <2>2. CASE i > n
    <3>1. /\ i - n \in 1..b.size /\ (i - n) - 1 \in 0 .. b.size - 1
          /\ n + ((i - n) - 1) = i - 1 /\ ~(i <= n)
      BY <1>2, <2>2
    <3>2. At(p, n + ((i - n) - 1)) = At(b, (i - n) - 1)
      BY <1>1, <3>1
    <3>3. s[i - n] = At(b, (i - n) - 1)
      BY <1>2, <3>1
    <3> QED
      BY <1>3, <3>1, <3>2, <3>3
  <2>3. i <= n \/ i > n
    BY <1>2
  <2> QED
    BY <2>1, <2>2, <2>3
<1>6. Bytes(p) = d \o s
  BY <1>1, <1>3, <1>4, <1>5, BytesAre
<1> QED
  BY <1>1, <1>6 DEF p, s

\* Upsizing appends the zeros that are missing.
LEMMA UpsizedBytes ==
  ASSUME NEW b, WF(b), NEW n \in Nat
  PROVE  /\ WF(Upsized(b, n))
         /\ Bytes(Upsized(b, n)) =
              Bytes(b) \o Zeros(IF n > Len(Bytes(b)) THEN n - Len(Bytes(b)) ELSE 0)
<1> DEFINE s == Bytes(b)
<1>1. b.size \in Nat /\ s \in Seq(Cells) /\ Len(s) = b.size
  <2>1. b.size \in Nat
    BY DEF WF, IsBuf
  <2> QED
    BY <2>1, BytesFacts
<1>2. WF(Upsized(b, n))
  BY UpsizedFacts
<1>3. CASE n <= b.size
  <2>1. Upsized(b, n) = b
    BY <1>3 DEF Upsized
  <2>2. (IF n > Len(s) THEN n - Len(s) ELSE 0) = 0
    BY <1>1, <1>3
  <2>3. Zeros(0) = << >>
    <3>1. Zeros(0) \in Seq(Cells) /\ Len(Zeros(0)) = 0
      BY ZerosFacts
    <3> QED
      BY <3>1
  <2>4. s \o << >> = s
    <3> HIDE DEF s
    <3> QED
      BY <1>1
  <2> QED
    BY <1>2, <2>1, <2>2, <2>3, <2>4
<1>4. CASE n > b.size
  <2>1. Upsized(b, n) = PushedBack(b, Zeros(n - b.size))
    BY <1>1, <1>4 DEF Upsized
  <2>2. (IF n > Len(s) THEN n - Len(s) ELSE 0) = n - b.size /\ n - b.size \in Nat
    BY <1>1, <1>4
  <2>3. Zeros(n - b.size) \in Seq(Cells)
    BY <2>2, ZerosFacts
  <2>4. Bytes(PushedBack(b, Zeros(n - b.size))) = s \o Zeros(n - b.size)
    BY <2>3, PushedBackBytes
  <2> QED
    BY <1>2, <2>1, <2>2, <2>4
<1> QED
  BY <1>1, <1>3, <1>4

\* Placing overwrites a part of the extended contents.
LEMMA PlacedBytes ==
  ASSUME NEW b, WF(b), NEW k \in Nat, NEW d \in Seq(Cells), NEW c,
         c = Bytes(Upsized(b, k + Len(d)))
  PROVE  /\ WF(Placed(b, k, d))
         /\ Bytes(Placed(b, k, d)) =
              [i \in DOMAIN c |-> IF i \in k + 1 .. k + Len(d) THEN d[i - k] ELSE c[i]]
<1> DEFINE n == Len(d)
           total == k + n
           g == Upsized(b, total)
           p == Placed(b, k, d)
<1>1. n \in Nat /\ total \in Nat
  BY SeqFun
<1>2. /\ WF(p) /\ p.size = g.size
      /\ \A i \in 0 .. g.size - 1 : At(p, i) = IF k <= i /\ i < k + n THEN d[i - k + 1]
                                               ELSE At(g, i)
  BY PlacedFacts
<1>3. WF(g)
  <2> HIDE DEF total
  <2> QED
    BY <1>1, UpsizedFacts
<1>4. c = [i \in 1..g.size |-> At(g, i - 1)] /\ DOMAIN c = 1..g.size /\ g.size \in Nat
  <2>1. g.size \in Nat
    BY <1>3 DEF WF, IsBuf
  <2> QED
    BY <2>1 DEF Bytes
<1>5. Bytes(p) = [i \in 1..g.size |-> At(p, i - 1)]
  BY <1>2 DEF Bytes
<1> HIDE DEF n, g, p
<1>6. ASSUME NEW i \in 1..g.size
      PROVE  At(p, i - 1) = IF i \in k + 1 .. k + n THEN d[i - k] ELSE c[i]
  <2>1. i - 1 \in 0 .. g.size - 1 /\ (i - 1) - k + 1 = i - k
    BY <1>4
  <2>2. k <= i - 1 /\ i - 1 < k + n <=> i \in k + 1 .. k + n
    BY <1>1, <1>4
  <2>3. c[i] = At(g, i - 1)
    BY <1>4
  <2> QED
    BY <1>2, <2>1, <2>2, <2>3
<1> QED
  BY <1>2, <1>4, <1>5, <1>6 DEF n, p

\* Popping at the front drops the first n bytes.
LEMMA PoppedFrontBytes ==
  ASSUME NEW b, WF(b), NEW n \in 0 .. b.size
  PROVE  /\ WF(PoppedFront(b, n))
         /\ Bytes(PoppedFront(b, n)) = [i \in 1 .. Len(Bytes(b)) - n |-> Bytes(b)[n + i]]
<1> DEFINE p == PoppedFront(b, n)
           s == Bytes(b)
<1>1. /\ WF(p) /\ p.size = b.size - n
      /\ \A i \in 0 .. b.size - n - 1 : At(p, i) = At(b, n + i)
  BY PoppedFrontFacts
<1>2. Len(s) = b.size /\ b.size \in Nat /\ \A i \in 1..b.size : s[i] = At(b, i - 1)
  <2>1. b.size \in Nat
    BY DEF WF, IsBuf
  <2> QED
    BY <2>1, BytesFacts
<1>3. Bytes(p) = [i \in 1 .. b.size - n |-> At(p, i - 1)]
  BY <1>1 DEF Bytes
<1> HIDE DEF p, s
<1>4. ASSUME NEW i \in 1 .. b.size - n PROVE At(p, i - 1) = s[n + i]
  <2>1. i - 1 \in 0 .. b.size - n - 1 /\ n + i \in 1..b.size /\ (n + i) - 1 = n + (i - 1)
    BY <1>2
  <2> QED
    BY <1>1, <1>2, <2>1
<1>5. Bytes(p) = [i \in 1 .. Len(s) - n |-> s[n + i]]
  BY <1>2, <1>3, <1>4
<1> QED
  BY <1>1, <1>5 DEF p, s

\* Popping at the back drops the last n bytes.
LEMMA PoppedBackBytes ==
  ASSUME NEW b, WF(b), NEW n \in 0 .. b.size
  PROVE  /\ WF(PoppedBack(b, n))
         /\ Bytes(PoppedBack(b, n)) = [i \in 1 .. Len(Bytes(b)) - n |-> Bytes(b)[0 + i]]
<1> DEFINE p == PoppedBack(b, n)
           s == Bytes(b)
<1>1. /\ WF(p) /\ p.size = b.size - n
      /\ \A i \in 0 .. b.size - n - 1 : At(p, i) = At(b, i)
  BY PoppedBackFacts
<1>2. Len(s) = b.size /\ b.size \in Nat /\ \A i \in 1..b.size : s[i] = At(b, i - 1)
  <2>1. b.size \in Nat
    BY DEF WF, IsBuf
  <2> QED
    BY <2>1, BytesFacts
<1>3. Bytes(p) = [i \in 1 .. b.size - n |-> At(p, i - 1)]
  BY <1>1 DEF Bytes
<1> HIDE DEF p, s
<1>4. ASSUME NEW i \in 1 .. b.size - n PROVE At(p, i - 1) = s[0 + i]
  <2>1. i - 1 \in 0 .. b.size - n - 1 /\ i \in 1..b.size /\ 0 + i = i
    BY <1>2
  <2> QED
    BY <1>1, <1>2, <2>1
<1>5. Bytes(p) = [i \in 1 .. Len(s) - n |-> s[0 + i]]
  BY <1>2, <1>3, <1>4
<1> QED
  BY <1>1, <1>5 DEF p, s

\* Reserving leaves the contents.
LEMMA ReservedBytes ==
  ASSUME NEW b, WF(b), NEW c \in Nat
  PROVE  WF(Reserved(b, c)) /\ Bytes(Reserved(b, c)) = Bytes(b)
<1> DEFINE p == Reserved(b, c)
<1>1. /\ WF(p) /\ p.size = b.size /\ \A i \in 0 .. b.size - 1 : At(p, i) = At(b, i)
  BY ReservedFacts
<1>2. b.size \in Nat
  BY DEF WF, IsBuf
<1> HIDE DEF p
<1>3. \A i \in 1..b.size : At(p, i - 1) = At(b, i - 1)
  <2>1. \A i \in 1..b.size : i - 1 \in 0 .. b.size - 1
    BY <1>2
  <2> QED
    BY <1>1, <2>1
<1>4. Bytes(p) = Bytes(b)
  BY <1>1, <1>3 DEF Bytes
<1> QED
  BY <1>1, <1>4 DEF p

\* Peeks give the first and the last n bytes.
LEMMA PeekedBytes ==
  ASSUME NEW b, WF(b), NEW n \in 0 .. b.size
  PROVE  /\ Front(b, n) \in Seq(Cells) /\ Front(b, n) = [i \in 1..n |-> Bytes(b)[0 + i]]
         /\ Back(b, n) \in Seq(Cells)
         /\ Back(b, n) = [i \in 1..n |-> Bytes(b)[Len(Bytes(b)) - n + i]]
<1> DEFINE s == Bytes(b)
           f == Front(b, n)
           l == Back(b, n)
<1>1. Len(s) = b.size /\ b.size \in Nat /\ \A i \in 1..b.size : s[i] = At(b, i - 1)
  <2>1. b.size \in Nat
    BY DEF WF, IsBuf
  <2> QED
    BY <2>1, BytesFacts
<1>2. f \in Seq(Cells) /\ Len(f) = n /\ \A i \in 1..n : f[i] = At(b, i - 1)
  BY FrontFacts
<1>3. l \in Seq(Cells) /\ Len(l) = n /\ \A i \in 1..n : l[i] = At(b, b.size - n + i - 1)
  BY BackFacts
<1> HIDE DEF s, f, l
<1>4. f = [i \in 1..n |-> f[i]] /\ l = [i \in 1..n |-> l[i]]
  BY <1>2, <1>3, SeqFun
<1>5. ASSUME NEW i \in 1..n PROVE f[i] = s[0 + i] /\ l[i] = s[Len(s) - n + i]
  <2>1. /\ 0 + i = i /\ i \in 1..b.size /\ b.size - n + i \in 1..b.size
        /\ (b.size - n + i) - 1 = b.size - n + i - 1
    BY <1>1
  <2>2. s[i] = At(b, i - 1) /\ s[b.size - n + i] = At(b, (b.size - n + i) - 1)
    BY <1>1, <2>1
  <2> QED
    BY <1>1, <1>2, <1>3, <2>1, <2>2
<1> QED
  BY <1>2, <1>3, <1>4, <1>5 DEF s, f, l
-----------------------------------------------------------------------------
(* The specification. *)

IInv == WF(cb) /\ out \in Seq(Cells)

\* What is pushed is a sequence of bytes.
LEMMA InputSeq ==
  ASSUME NEW d \in Inputs
  PROVE  d \in Seq(Cells)
<1>1. PICK n \in 0..MaxPush : d \in [1..n -> Values]
  BY DEF Inputs
<1>2. n \in Nat /\ d \in [1..n -> Cells]
  BY <1>1 DEF Cells
<1> QED
  BY <1>2, FunSeq

\* Zeros can be pushed.
LEMMA ZerosInput ==
  ASSUME NEW n \in 0..MaxPush
  PROVE  Zeros(n) \in Inputs
BY ConstantsAssumption DEF Zeros, Inputs

\* The refinement mapping, in the words of this module.
LEMMA ContentsFacts == Contents = Bytes(cb) /\ Contents' = Bytes(cb')
BY DEF Contents, Bytes, At, Pos

\* What a call gives back that gives nothing back.
LEMMA NothingBack == << >> \in Seq(Cells)
OBVIOUS

\* A buffer as circlebuf_init and circlebuf_free leave it.
LEMMA EmptyFacts == WF(Empty) /\ Bytes(Empty) = << >>
<1>1. WF(Empty)
  BY DEF WF, IsBuf, Holds, Empty
<1>2. Empty.size = 0
  BY DEF Empty
<1> QED
  BY <1>1, <1>2, BytesFacts

\* Each call preserves IInv and is a call of the deque: push_back.
LEMMA PushBackStep ==
  ASSUME IInv, NEW d \in Inputs, PushBack(d)
  PROVE  IInv' /\ Abstract!PushBack(d)
BY InputSeq, PushedBackBytes, ContentsFacts, NothingBack
   DEF IInv, PushBack, Abstract!PushBack, Abstract!Return

\* push_front, of a buffer with something in it.
LEMMA PushFrontStep ==
  ASSUME IInv, cb.size > 0, NEW d \in Inputs, PushFront(d)
  PROVE  IInv' /\ Abstract!PushFront(d)
BY InputSeq, PushedFrontBytes, ContentsFacts, NothingBack
   DEF IInv, PushFront, Abstract!PushFront, Abstract!Return

\* upsize.
LEMMA UpsizeStep ==
  ASSUME IInv, NEW n \in 0..MaxSize, Upsize(n)
  PROVE  IInv' /\ Abstract!Upsize(n)
<1>1. n \in Nat
  BY ConstantsAssumption
<1>2. /\ WF(Upsized(cb, n))
      /\ Bytes(Upsized(cb, n)) =
           Bytes(cb) \o Zeros(IF n > Len(Bytes(cb)) THEN n - Len(Bytes(cb)) ELSE 0)
  BY <1>1, UpsizedBytes DEF IInv
<1> QED
  BY <1>2, ContentsFacts, NothingBack
     DEF IInv, Upsize, Abstract!Upsize, Abstract!Return, Abstract!Extended, Abstract!Zeros, Zeros

\* place.
LEMMA PlaceStep ==
  ASSUME IInv, NEW d \in Inputs, NEW k \in 0..MaxSize, Place(k, d)
  PROVE  IInv' /\ Abstract!Place(k, d)
<1> DEFINE c == Abstract!Extended(k + Len(d))
<1>1. d \in Seq(Cells) /\ Len(d) \in Nat /\ k \in Nat /\ k + Len(d) \in Nat
  BY InputSeq, SeqFun, ConstantsAssumption
<1>2. c = Bytes(Upsized(cb, k + Len(d)))
  <2> DEFINE n == k + Len(d)
  <2>1. n \in Nat
    BY <1>1
  <2> HIDE DEF n
  <2>2. Bytes(Upsized(cb, n)) =
          Bytes(cb) \o Zeros(IF n > Len(Bytes(cb)) THEN n - Len(Bytes(cb)) ELSE 0)
    BY <2>1, UpsizedBytes DEF IInv
  <2> QED
    BY <2>2, ContentsFacts DEF Abstract!Extended, Abstract!Zeros, Zeros, n
<1> HIDE DEF c
<1>3. /\ WF(Placed(cb, k, d))
      /\ Bytes(Placed(cb, k, d)) =
           [i \in DOMAIN c |-> IF i \in k + 1 .. k + Len(d) THEN d[i - k] ELSE c[i]]
  <2>1. WF(cb) /\ d \in Seq(Cells) /\ k \in Nat
    BY <1>1 DEF IInv
  <2> QED
    BY <1>2, <2>1, PlacedBytes
<1> QED
  BY <1>3, ContentsFacts, NothingBack DEF IInv, Place, Abstract!Place, Abstract!Return, c

\* reserve.
LEMMA ReserveStep ==
  ASSUME IInv, NEW n \in 0..MaxSize, Reserve(n)
  PROVE  IInv' /\ Abstract!Reserve
<1>1. n \in Nat
  BY ConstantsAssumption
<1> QED
  BY <1>1, ReservedBytes, ContentsFacts, NothingBack
     DEF IInv, Reserve, Abstract!Reserve, Abstract!Return

\* free.
LEMMA FreeStep ==
  ASSUME IInv, Free
  PROVE  IInv' /\ Abstract!Free
BY EmptyFacts, ContentsFacts, NothingBack DEF IInv, Free, Abstract!Free, Abstract!Return

\* data.
LEMMA DataStep ==
  ASSUME IInv, NEW k \in 0..MaxSize, Data(k)
  PROVE  IInv' /\ Abstract!Data(k)
<1> DEFINE s == Bytes(cb)
<1>1. cb' = cb /\ Contents = s /\ Contents' = Contents
  BY ContentsFacts DEF Data
<1>2. cb.size \in Nat /\ Len(s) = cb.size /\ \A i \in 1..cb.size : s[i] = At(cb, i - 1)
  <2>1. cb.size \in Nat
    BY DEF IInv, WF, IsBuf
  <2> QED
    BY <2>1, BytesFacts DEF IInv
<1>3. k \in Nat
  BY ConstantsAssumption
<1>4. CASE k >= cb.size
  <2>1. out' = << >> /\ ~(k < Len(s))
    BY <1>2, <1>3, <1>4 DEF Data
  <2> HIDE DEF s
  <2> QED
    BY <1>1, <2>1, NothingBack DEF IInv, Abstract!Data, Abstract!Return
<1>5. CASE k < cb.size
  <2>1. out' = Read(cb.data, Pos(cb.start_pos + k, cb.capacity), 1)
    BY <1>2, <1>3, <1>5 DEF Data, Pos
  <2>2. k \in 0 .. cb.size - 1
    BY <1>2, <1>3, <1>5
  <2>3. out' = [i \in 1..1 |-> At(cb, k)]
    BY <2>1, <2>2, DataFacts DEF IInv
  <2>4. k + 1 \in 1..cb.size /\ (k + 1) - 1 = k
    BY <1>2, <1>3, <1>5
  <2>5. s[k + 1] = At(cb, k) /\ At(cb, k) \in Cells
    <3>1. s \in Seq(Cells)
      BY BytesFacts DEF IInv
    <3> HIDE DEF s
    <3> QED
      BY <1>2, <2>4, <3>1, SeqFun
  <2> HIDE DEF s
  <2>6. out' \in Seq(Cells)
    BY <2>3, <2>5, FunSeq
  <2>7. out' = [i \in 1..1 |-> s[k + i]]
    BY <2>3, <2>5
  <2>8. k < Len(s)
    BY <1>2, <1>5
  <2> QED
    BY <1>1, <2>6, <2>7, <2>8 DEF IInv, Abstract!Data, Abstract!Return, Abstract!Slice
<1> QED
  BY <1>2, <1>3, <1>4, <1>5

\* peek_front and peek_back.
LEMMA PeekStep ==
  ASSUME IInv, NEW n \in 0..cb.size, PeekFront(n) \/ PeekBack(n)
  PROVE  IInv' /\ (Abstract!PeekFront(n) \/ Abstract!PeekBack(n))
<1>1. cb' = cb /\ Contents = Bytes(cb) /\ Contents' = Contents
  BY ContentsFacts DEF PeekFront, PeekBack
<1>2. /\ Front(cb, n) \in Seq(Cells) /\ Front(cb, n) = [i \in 1..n |-> Bytes(cb)[0 + i]]
      /\ Back(cb, n) \in Seq(Cells)
      /\ Back(cb, n) = [i \in 1..n |-> Bytes(cb)[Len(Bytes(cb)) - n + i]]
  BY PeekedBytes DEF IInv
<1> QED
  BY <1>1, <1>2 DEF IInv, PeekFront, PeekBack, Abstract!PeekFront, Abstract!PeekBack,
                    Abstract!Return, Abstract!Slice

\* pop_front and pop_back.
LEMMA PopStep ==
  ASSUME IInv, NEW n \in 0..cb.size, PopFront(n) \/ PopBack(n)
  PROVE  IInv' /\ (Abstract!PopFront(n) \/ Abstract!PopBack(n))
<1>1. Contents = Bytes(cb) /\ Contents' = Bytes(cb')
  BY ContentsFacts
<1>2. /\ Front(cb, n) \in Seq(Cells) /\ Front(cb, n) = [i \in 1..n |-> Bytes(cb)[0 + i]]
      /\ Back(cb, n) \in Seq(Cells)
      /\ Back(cb, n) = [i \in 1..n |-> Bytes(cb)[Len(Bytes(cb)) - n + i]]
  BY PeekedBytes DEF IInv
<1>3. CASE PopFront(n)
  <2>1. /\ WF(PoppedFront(cb, n))
        /\ Bytes(PoppedFront(cb, n)) = [i \in 1 .. Len(Bytes(cb)) - n |-> Bytes(cb)[n + i]]
    BY PoppedFrontBytes DEF IInv
  <2> QED
    BY <1>1, <1>2, <1>3, <2>1
       DEF IInv, PopFront, Abstract!PopFront, Abstract!Return, Abstract!Slice
<1>4. CASE PopBack(n)
  <2>1. /\ WF(PoppedBack(cb, n))
        /\ Bytes(PoppedBack(cb, n)) = [i \in 1 .. Len(Bytes(cb)) - n |-> Bytes(cb)[0 + i]]
    BY PoppedBackBytes DEF IInv
  <2> QED
    BY <1>1, <1>2, <1>4, <2>1
       DEF IInv, PopBack, Abstract!PopBack, Abstract!Return, Abstract!Slice
<1> QED
  BY <1>3, <1>4

\* The buffer begins as an empty deque.
LEMMA InitIInv == Init => IInv /\ Abstract!Init
BY EmptyFacts, ContentsFacts, NothingBack DEF Init, IInv, Abstract!Init

\* Every step preserves IInv and is a step of the deque.
LEMMA Inductive ==
  ASSUME IInv, [Next]_vars
  PROVE  IInv' /\ [Abstract!Next]_<<Contents, out>>
<1>1. cb.size \in Nat /\ Len(Contents) = cb.size
  <2>1. cb.size \in Nat
    BY DEF IInv, WF, IsBuf
  <2> QED
    BY <2>1, BytesFacts, ContentsFacts DEF IInv
<1>2. ASSUME NEW d \in Inputs, PushBack(d) PROVE IInv' /\ Abstract!Next
  BY <1>2, PushBackStep DEF Abstract!Next, Abstract!Inputs, Inputs
<1>3. ASSUME NEW d \in Inputs, cb.size > 0, PushFront(d) PROVE IInv' /\ Abstract!Next
  BY <1>3, PushFrontStep DEF Abstract!Next, Abstract!Inputs, Inputs
<1>4. ASSUME NEW d \in Inputs, NEW k \in 0..MaxSize, Place(k, d) PROVE IInv' /\ Abstract!Next
  BY <1>4, PlaceStep DEF Abstract!Next, Abstract!Inputs, Inputs
<1>5. ASSUME NEW n \in 0..MaxSize, Upsize(n) \/ Reserve(n) \/ Data(n)
      PROVE  IInv' /\ Abstract!Next
  BY <1>5, UpsizeStep, ReserveStep, DataStep DEF Abstract!Next
<1>6. ASSUME NEW n \in 0..cb.size, PeekFront(n) \/ PeekBack(n) \/ PopFront(n) \/ PopBack(n)
      PROVE  IInv' /\ Abstract!Next
  BY <1>1, <1>6, PeekStep, PopStep DEF Abstract!Next
<1>7. CASE Free
  BY <1>7, FreeStep DEF Abstract!Next
<1>8. CASE UNCHANGED vars
  <2>1. cb' = cb /\ out' = out /\ Contents' = Contents
    BY <1>8, ContentsFacts DEF vars
  <2> QED
    BY <2>1 DEF IInv
<1>9. CASE Calls
  BY <1>2, <1>4, <1>5, <1>6, <1>7, <1>9, ZerosInput DEF Calls, PushBackZero
<1>10. CASE cb.size > 0 /\ PushFronts
  BY <1>3, <1>10, ZerosInput DEF PushFronts, PushFrontZero
<1> QED
  BY <1>8, <1>9, <1>10 DEF Next

\* IInv holds in every reachable state: the buffer is well formed, for any
\* bytes and any sizes (circlebuf.h 83-320).
THEOREM Invariance == Spec => []IInv
<1>1. Init => IInv
  BY InitIInv
<1>2. IInv /\ [Next]_vars => IInv'
  BY Inductive
<1> QED
  BY <1>1, <1>2, PTL DEF Spec

\* No call writes beyond the memory, for any sizes.
THEOREM TypeCorrect == Spec => []TypeOK
<1>1. IInv => TypeOK
  BY DEF IInv, TypeOK, WF, IsBuf, Holds
<1> QED
  BY <1>1, Invariance, PTL

\* The contents begin and end where start_pos and end_pos say, however often
\* the memory grew.
THEOREM Shape == Spec => []Geometry
<1>1. IInv => Geometry
  BY DEF IInv, Geometry, WF, Holds
<1> QED
  BY <1>1, Invariance, PTL

\* A circular buffer is a sequence: every call of circlebuf.h, used as the
\* plugin uses it, does and gives back what the deque's does.
THEOREM Implements == Spec => IsDeque
<1>1. Init => Abstract!Init
  BY InitIInv
<1>2. IInv /\ [Next]_vars => [Abstract!Next]_<<Contents, out>>
  BY Inductive
<1> QED
  BY <1>1, <1>2, Invariance, PTL DEF Spec, IsDeque, Abstract!Spec
=============================================================================
