------------------------------ MODULE CircleBuf ------------------------------
(***************************************************************************)
(* circlebuf.h: a dynamic circular buffer, byte by byte.  Every operator   *)
(* below is a function of the header on a `struct circlebuf'; an action is *)
(* a call of it.  The plugin keeps the audio of each channel in one of     *)
(* them, and the time stamps of the ticks it is behind in another.         *)
(***************************************************************************)
EXTENDS Integers, Sequences

CONSTANTS
  Values,        \* what a byte may hold, 0 among them
  Junk,          \* what memory holds that was never written
  MaxPush,       \* bound: bytes of one call
  MaxSize        \* bound: size and reserved capacity of the buffer

ASSUME ConstantsAssumption ==
  0 \in Values /\ Junk \notin Values /\ MaxPush \in Nat /\ MaxSize \in Nat

VARIABLES
  cb,            \* the struct circlebuf; cb.data[i] is the byte at offset i
  out            \* what the last call gave back

vars == <<cb, out>>

Inputs == UNION {[1..n -> Values] : n \in 0..MaxPush}

Zeros(n) == [i \in 1..n |-> 0]

Empty == [data |-> <<>>, size |-> 0, start_pos |-> 0, end_pos |-> 0, capacity |-> 0]

Init == cb = Empty /\ out = <<>>
-----------------------------------------------------------------------------
(***************************************************************************)
(* Memory.  A write beyond the memory makes it larger, and no longer       *)
(* 0..capacity-1; what is read beyond it is junk.                          *)
(***************************************************************************)

Write(data, at, d) ==
  [i \in DOMAIN data \cup (at .. at + Len(d) - 1) |->
     IF i \in at .. at + Len(d) - 1 THEN d[i - at + 1] ELSE data[i]]

Read(data, at, n) ==
  [i \in 1..n |-> IF at + i - 1 \in DOMAIN data THEN data[at + i - 1] ELSE Junk]

\* d from `at' on, and what does not fit at the beginning.
WriteAround(b, at, d) ==
  IF at + Len(d) > b.capacity
  THEN LET k == b.capacity - at IN
       Write(Write(b.data, at, SubSeq(d, 1, k)), 0, SubSeq(d, k + 1, Len(d)))
  ELSE Write(b.data, at, d)

ReadAround(b, at, n) ==
  IF b.capacity - at < n
  THEN Read(b.data, at, b.capacity - at) \o Read(b.data, 0, n - (b.capacity - at))
  ELSE Read(b.data, at, n)

\* Mutant: the contents stay where they are.
ReallocUnordered(b, c) ==
  [b EXCEPT !.capacity = c,
            !.data = [i \in 0 .. c - 1 |-> IF i < b.capacity THEN b.data[i] ELSE Junk]]

\* realloc, and circlebuf_reorder_data: of contents that wrap around, the
\* part at the end of the memory moves to the end of the larger memory.
Realloc(b, c) ==
  LET wraps == b.size > 0 /\ b.start_pos > 0 /\ b.end_pos <= b.start_pos
      moved == IF wraps THEN c - b.capacity ELSE 0
  IN [b EXCEPT !.capacity = c,
               !.start_pos = @ + moved,
               !.data = [i \in 0 .. c - 1 |->
                           IF wraps /\ i >= b.start_pos + moved THEN b.data[i - moved]
                           ELSE IF i < b.capacity THEN b.data[i] ELSE Junk]]

\* circlebuf_ensure_capacity, called with the new size.
EnsureCapacity(b) ==
  IF b.size <= b.capacity THEN b
  ELSE Realloc(b, IF b.size > 2 * b.capacity THEN b.size ELSE 2 * b.capacity)

\* Mutant: the old capacity is kept.
ReservedKept(b, c) ==
  IF c <= b.capacity THEN b ELSE [Realloc(b, c) EXCEPT !.capacity = b.capacity]

Reserved(b, c) == IF c <= b.capacity THEN b ELSE Realloc(b, c)
-----------------------------------------------------------------------------
(***************************************************************************)
(* The calls.                                                              *)
(***************************************************************************)

\* The size is added, then the memory made to fit.
Room(b, n) == EnsureCapacity([b EXCEPT !.size = @ + n])

\* Also for upsize, which repeats this code, with zeros.
PushedBack(b, d) ==
  LET g == Room(b, Len(d))
      e == b.end_pos + Len(d)
  IN [g EXCEPT !.data = WriteAround(g, g.end_pos, d),
               !.end_pos = IF e > g.capacity THEN e - g.capacity ELSE e]

PushedFront(b, d) ==
  LET g == Room(b, Len(d))
      k == Len(d) - g.start_pos      \* bytes for the end of the memory
  IN IF g.start_pos < Len(d)
     THEN [g EXCEPT !.data = Write(Write(@, 0, SubSeq(d, k + 1, Len(d))),
                                   g.capacity - k, SubSeq(d, 1, k)),
                    !.start_pos = g.capacity - k]
     ELSE [g EXCEPT !.data = Write(@, g.start_pos - Len(d), d),
                    !.start_pos = @ - Len(d)]

Upsized(b, n) == IF n <= b.size THEN b ELSE PushedBack(b, Zeros(n - b.size))

Placed(b, k, d) ==
  LET g == Upsized(b, k + Len(d))
      at == IF k + g.start_pos >= g.capacity THEN k + g.start_pos - g.capacity
                                             ELSE k + g.start_pos
  IN [g EXCEPT !.data = WriteAround(g, at, d)]

Front(b, n) == ReadAround(b, b.start_pos, n)

Back(b, n) ==
  LET e == IF b.end_pos > 0 THEN b.end_pos ELSE b.capacity IN
  IF e < n THEN Read(b.data, b.capacity - (n - e), n - e) \o Read(b.data, 0, e)
  ELSE Read(b.data, b.end_pos - n, n)

\* Mutant: start_pos may be just behind the memory.
PoppedFrontBehind(b, n) ==
  LET s == b.start_pos + n IN
  IF n = b.size THEN [b EXCEPT !.size = 0, !.start_pos = 0, !.end_pos = 0]
  ELSE [b EXCEPT !.size = @ - n,
                 !.start_pos = IF s > b.capacity THEN s - b.capacity ELSE s]

PoppedFront(b, n) ==
  LET s == b.start_pos + n IN
  IF n = b.size THEN [b EXCEPT !.size = 0, !.start_pos = 0, !.end_pos = 0]
  ELSE [b EXCEPT !.size = @ - n,
                 !.start_pos = IF s >= b.capacity THEN s - b.capacity ELSE s]

PoppedBack(b, n) ==
  IF n = b.size THEN [b EXCEPT !.size = 0, !.start_pos = 0, !.end_pos = 0]
  ELSE [b EXCEPT !.size = @ - n,
                 !.end_pos = IF @ <= n THEN b.capacity - (n - @) ELSE @ - n]

PushBack(d) == cb' = PushedBack(cb, d) /\ out' = <<>>
PushFront(d) == cb' = PushedFront(cb, d) /\ out' = <<>>
PushBackZero(n) == PushBack(Zeros(n))
PushFrontZero(n) == PushFront(Zeros(n))
Upsize(n) == cb' = Upsized(cb, n) /\ out' = <<>>
Place(k, d) == cb' = Placed(cb, k, d) /\ out' = <<>>
Reserve(c) == cb' = Reserved(cb, c) /\ out' = <<>>
Free == cb' = Empty /\ out' = <<>>

PeekFront(n) == UNCHANGED cb /\ out' = Front(cb, n)
PeekBack(n) == UNCHANGED cb /\ out' = Back(cb, n)
PopFront(n) == cb' = PoppedFront(cb, n) /\ out' = Front(cb, n)
PopBack(n) == cb' = PoppedBack(cb, n) /\ out' = Back(cb, n)

Data(k) ==
  LET at == cb.start_pos + k IN
  /\ out' = IF k >= cb.size THEN <<>>
            ELSE Read(cb.data, IF at >= cb.capacity THEN at - cb.capacity ELSE at, 1)
  /\ UNCHANGED cb
-----------------------------------------------------------------------------
Fits(n) == n <= MaxSize

\* What may be called with any contents.  The sizes of a peek and a pop are
\* asserted to be at most that of the buffer.
Calls ==
  \/ \E d \in Inputs : \/ Fits(cb.size + Len(d)) /\ PushBack(d)
                       \/ \E k \in 0..MaxSize : Fits(k + Len(d)) /\ Place(k, d)
  \/ \E n \in 0..MaxPush : Fits(cb.size + n) /\ PushBackZero(n)
  \/ \E n \in 0..MaxSize : Upsize(n) \/ Reserve(n) \/ Data(n)
  \/ \E n \in 0..cb.size : PeekFront(n) \/ PeekBack(n) \/ PopFront(n) \/ PopBack(n)
  \/ Free

PushFronts ==
  \/ \E d \in Inputs : Fits(cb.size + Len(d)) /\ PushFront(d)
  \/ \E n \in 0..MaxPush : Fits(cb.size + n) /\ PushFrontZero(n)

\* As the plugin uses it: to the front it only pushes while something is in
\* the buffer (wasapi_capture_add_audio_buffering, which follows a push_back in
\* wasapi_capture_fetch_audio).
Next == Calls \/ (cb.size > 0 /\ PushFronts)
Spec == Init /\ [][Next]_vars

\* As the header offers it.
OpenSpec == Init /\ [][Calls \/ PushFronts]_vars
-----------------------------------------------------------------------------
(***************************************************************************)
(* Properties.                                                             *)
(***************************************************************************)

Cells == Values \cup {Junk}

\* The memory is as large as the buffer thinks: no call writes beyond it.
TypeOK ==
  /\ cb.size \in 0..cb.capacity
  /\ cb.capacity \in Nat /\ cb.start_pos \in Nat /\ cb.end_pos \in Nat
  /\ cb.data \in [0 .. cb.capacity - 1 -> Cells]
  /\ out \in Seq(Cells)

\* Where the contents begin and end: start_pos is in the memory, end_pos may
\* be just behind it, a full buffer and an empty one are told apart by size,
\* and an empty one starts over.
Geometry ==
  /\ cb.size = 0 => cb.start_pos = 0 /\ cb.end_pos = 0
  /\ cb.size > 0 => /\ cb.start_pos < cb.capacity
                    /\ cb.end_pos \in 1..cb.capacity
                    /\ cb.start_pos + cb.size \in {cb.end_pos, cb.end_pos + cb.capacity}

\* The contents, from start_pos around the end of the memory.
Contents ==
  [i \in 1..cb.size |->
     LET at == cb.start_pos + i - 1 IN cb.data[IF at >= cb.capacity THEN at - cb.capacity ELSE at]]

Abstract == INSTANCE Deque WITH contents <- Contents

\* "Dynamic circular buffer" (circlebuf.h): every call does to the contents,
\* and gives back, what it would with a plain sequence, however the contents
\* lie in the memory and whenever that grows.
IsDeque == Abstract!Spec
=============================================================================
