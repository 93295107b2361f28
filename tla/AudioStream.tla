---------------------------- MODULE AudioStream ----------------------------
(***************************************************************************)
(* What one shared-memory map promises the source that captures from it.   *)
(* The hooked process publishes audio packets in it, numbered from 1; the  *)
(* source receives packets 1, 2, 3, ... of the map: none before it is      *)
(* published, none twice, none skipped, none out of order.  A packet the   *)
(* hook drops (map full, or busy) is never published and has no number.    *)
(***************************************************************************)
EXTENDS Naturals

CONSTANT Maps           \* the shared-memory maps

VARIABLES sent,         \* sent[id]: the number of packets published in map id
          got           \* got[id]: the number of packets received from it

vars == <<sent, got>>

Init == /\ sent = [id \in Maps |-> 0]
        /\ got  = [id \in Maps |-> 0]

Put(id) == /\ sent' = [sent EXCEPT ![id] = @ + 1]
           /\ UNCHANGED got

Get(id) == /\ got[id] < sent[id]
           /\ got' = [got EXCEPT ![id] = @ + 1]
           /\ UNCHANGED sent

Next == \E id \in Maps : Put(id) \/ Get(id)

Spec == Init /\ [][Next]_vars
=============================================================================
