----------------------------- MODULE TickStream -----------------------------
(***************************************************************************)
(* What the mix thread of a source promises about its ticks.  They begin   *)
(* one after the other, wait in line, and go to OBS in that order, each    *)
(* once.  A new session begins its ticks at the clock, which is past all   *)
(* of those before; the ones that the last session left in the line stay.  *)
(***************************************************************************)
EXTENDS Integers, Sequences

CONSTANT Tick          \* the time of one tick

VARIABLES
  taken,       \* when the ticks began that wait to be given to OBS
  next,        \* when the next one begins
  given        \* when the last one began that OBS was given, 0 for none

vars == <<taken, next, given>>

Init == taken = <<>> /\ next = 0 /\ given = 0

\* A session begins.
Begin ==
  /\ next' \in Nat /\ next' >= given
  /\ \A k \in DOMAIN taken : next' >= taken[k]
  /\ UNCHANGED <<taken, given>>

\* A tick begins,
Take ==
  /\ taken' = Append(taken, next) /\ next' = next + Tick
  /\ UNCHANGED given

\* or is given to OBS.
Give ==
  /\ taken # <<>>
  /\ given' = Head(taken) /\ taken' = Tail(taken)
  /\ UNCHANGED next

Next == Begin \/ Take \/ Give

Spec == Init /\ [][Next]_vars
=============================================================================
