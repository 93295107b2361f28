-------------------------------- MODULE Deque --------------------------------
(***************************************************************************)
(* What a circlebuf promises its callers: a sequence that grows and        *)
(* shrinks at both ends, is overwritten anywhere, and is read at both ends *)
(* or by index.  What a call gives back is in `out'.                       *)
(***************************************************************************)
EXTENDS Naturals, Sequences

CONSTANTS
  Values,        \* what a byte of the buffer may hold, 0 among them
  MaxPush,       \* bound: bytes of one call
  MaxSize        \* bound: positions, and sizes asked for

VARIABLES contents, out

Inputs == UNION {[1..n -> Values] : n \in 0..MaxPush}

Zeros(n) == [i \in 1..n |-> 0]

Return(result) == out' = result

\* contents, made at least n long with zeros
Extended(n) == contents \o Zeros(IF n > Len(contents) THEN n - Len(contents) ELSE 0)

\* the n bytes of the sequence after the first k
Slice(k, n) == [i \in 1..n |-> contents[k + i]]

Init == contents = <<>> /\ out = <<>>

PushBack(d) == Return(<<>>) /\ contents' = contents \o d

PushFront(d) == Return(<<>>) /\ contents' = d \o contents

Upsize(n) == Return(<<>>) /\ contents' = Extended(n)

Place(k, d) ==
  LET c == Extended(k + Len(d)) IN
  /\ Return(<<>>)
  /\ contents' = [i \in DOMAIN c |-> IF i \in k + 1 .. k + Len(d) THEN d[i - k] ELSE c[i]]

PeekFront(n) == Return(Slice(0, n)) /\ UNCHANGED contents

PeekBack(n) == Return(Slice(Len(contents) - n, n)) /\ UNCHANGED contents

PopFront(n) == Return(Slice(0, n)) /\ contents' = Slice(n, Len(contents) - n)

PopBack(n) == Return(Slice(Len(contents) - n, n)) /\ contents' = Slice(0, Len(contents) - n)

\* The byte at index k, if there is one.
Data(k) == Return(IF k < Len(contents) THEN Slice(k, 1) ELSE <<>>) /\ UNCHANGED contents

Reserve == Return(<<>>) /\ UNCHANGED contents

Free == Return(<<>>) /\ contents' = <<>>

Next ==
  \/ Reserve \/ Free
  \/ \E n \in 0..Len(contents) : PeekFront(n) \/ PeekBack(n) \/ PopFront(n) \/ PopBack(n)
  \/ \E n \in 0..MaxSize : Upsize(n) \/ Data(n)
  \/ \E d \in Inputs : PushBack(d) \/ PushFront(d) \/ \E k \in 0..MaxSize : Place(k, d)

Spec == Init /\ [][Next]_<<contents, out>>
=============================================================================
