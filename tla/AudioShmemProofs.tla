-------------------------- MODULE AudioShmemProofs --------------------------
(***************************************************************************)
(* Proofs about AudioShmem: its safety properties hold, for one hooked     *)
(* process, for every number of rendering threads, every set of packet     *)
(* sizes and every buffer size, however many maps, packets and crashes.    *)
(*                                                                         *)
(* IInv is inductive; each of its conjuncts has a lemma of its own below   *)
(* (TypeStep .. WakeupStep), with a step for each action.  The lemmas      *)
(* before them are about the layout of a map's memory (Tiled), and about   *)
(* who is alone in it when it changes.                                     *)
(***************************************************************************)
EXTENDS AudioShmem, TLAPS

USE ConstantsAssumption

-----------------------------------------------------------------------------
(* The layout of a map's memory. *)

\* What the capture thread relies on when it looks at an offset.
LEMMA PacketFacts ==
  /\ \A p \in Packets : p.n \in Nat \ {0} /\ p.size \in Nat \ {0} /\ p # Empty
  /\ \A m \in [Offsets -> Packets \cup {Empty}], o \in Offsets : m[o] # Empty => m[o] \in Packets
  /\ \A o : o \in Offsets <=> o \in Nat /\ o < BufferSize
<1>1. ASSUME NEW p \in Packets PROVE p.n \in Nat \ {0} /\ p.size \in Nat \ {0} /\ p # Empty
  <2>1. p.n \in Nat \ {0}
    BY DEF Packets
  <2>2. p.size \in Nat \ {0}
    BY DEF Packets
  <2>3. p # Empty
    BY <2>1 DEF Empty
  <2> QED BY <2>1, <2>2, <2>3
<1>2. \A o : o \in Offsets <=> o \in Nat /\ o < BufferSize
  BY DEF Offsets
<1> QED
  BY <1>1, <1>2

\* A packet written where the layout ends, and nothing after it, extends the layout.
LEMMA TiledExtend ==
  ASSUME NEW m \in [Offsets -> Packets \cup {Empty}],
         NEW hi \in Nat, NEW p \in Nat, NEW last \in Nat,
         Tiled(m, 0, hi, p, last),
         hi < BufferSize, m[hi] # Empty, m[hi].n = last + 1,
         hi + m[hi].size <= BufferSize,
         \A o \in Offsets : o > hi /\ o < hi + m[hi].size => m[o] = Empty
  PROVE  Tiled(m, 0, hi + m[hi].size, p, last + 1)
<1> DEFINE k == m[hi].size
<1>1. hi \in Offsets /\ m[hi] \in Packets /\ k \in Nat \ {0}
  BY PacketFacts
<1>2. m[0] # Empty /\ m[0].n = p + 1
  <2>1. CASE hi = 0
    BY <2>1 DEF Tiled
  <2>2. CASE hi > 0
    BY <2>2 DEF Tiled
  <2> QED BY <2>1, <2>2
<1>3. ASSUME NEW o \in Offsets, o >= 0, o < hi + k, m[o] # Empty
      PROVE  /\ o + m[o].size <= hi + k /\ m[o].n <= last + 1
             /\ o + m[o].size = hi + k => m[o].n = last + 1
             /\ o + m[o].size < hi + k => /\ m[o + m[o].size] # Empty
                                          /\ m[o + m[o].size].n = m[o].n + 1
  <2>0. o \in Nat /\ m[o].size \in Nat \ {0} /\ m[o].n \in Nat
    BY <1>3, PacketFacts
  <2>1. CASE o < hi
    BY <1>1, <1>3, <2>0, <2>1 DEF Tiled
  <2>2. CASE o >= hi
    <3>1. o = hi
      BY <1>1, <1>3, <2>0, <2>2
    <3> QED BY <3>1, <1>1
  <2> QED BY <2>0, <2>1, <2>2
<1> QED
  BY <1>1, <1>2, <1>3 DEF Tiled

\* The capture thread finds the next packet where it looks, and what is left is laid out.
LEMMA TiledAdvance ==
  ASSUME NEW m \in [Offsets -> Packets \cup {Empty}],
         NEW lo \in Nat, NEW hi \in Nat, NEW p \in Nat, NEW last \in Nat,
         Tiled(m, lo, hi, p, last), lo < hi, hi <= BufferSize
  PROVE  /\ m[lo] \in Packets /\ m[lo].n = p + 1 /\ m[lo].n <= last
         /\ lo + m[lo].size <= hi
         /\ Tiled(m, lo + m[lo].size, hi, m[lo].n, last)
<1>1. lo \in Offsets /\ m[lo] # Empty /\ m[lo].n = p + 1
  BY PacketFacts DEF Tiled
<1>2. m[lo] \in Packets /\ m[lo].size \in Nat \ {0}
  BY <1>1, PacketFacts
<1>3. /\ lo + m[lo].size <= hi /\ m[lo].n <= last
      /\ lo + m[lo].size = hi => m[lo].n = last
      /\ lo + m[lo].size < hi => /\ m[lo + m[lo].size] # Empty
                                 /\ m[lo + m[lo].size].n = m[lo].n + 1
  BY <1>1 DEF Tiled
<1>4. ASSUME NEW o \in Offsets, o >= lo + m[lo].size, o < hi, m[o] # Empty
      PROVE  /\ o + m[o].size <= hi /\ m[o].n <= last
             /\ o + m[o].size = hi => m[o].n = last
             /\ o + m[o].size < hi => /\ m[o + m[o].size] # Empty
                                      /\ m[o + m[o].size].n = m[o].n + 1
  <2>1. o >= lo
    BY <1>2, <1>4, PacketFacts
  <2> QED BY <2>1, <1>4 DEF Tiled
<1> QED
  BY <1>1, <1>2, <1>3, <1>4 DEF Tiled

\* Memory past the layout does not matter to it.
LEMMA TiledKept ==
  ASSUME NEW m \in [Offsets -> Packets \cup {Empty}], NEW w \in [Offsets -> Packets \cup {Empty}],
         NEW hi \in Nat, NEW p \in Nat, NEW last \in Nat,
         Tiled(m, 0, hi, p, last), hi <= BufferSize,
         \A o \in Offsets : o < hi => w[o] = m[o]
  PROVE  Tiled(w, 0, hi, p, last)
<1>1. 0 < hi => w[0] # Empty /\ w[0].n = p + 1
  BY PacketFacts DEF Tiled
<1>2. ASSUME NEW o \in Offsets, o >= 0, o < hi, w[o] # Empty
      PROVE  /\ o + w[o].size <= hi /\ w[o].n <= last
             /\ o + w[o].size = hi => w[o].n = last
             /\ o + w[o].size < hi => /\ w[o + w[o].size] # Empty
                                      /\ w[o + w[o].size].n = w[o].n + 1
  <2>1. w[o] = m[o] /\ o + w[o].size \in Nat
    BY <1>2, PacketFacts
  <2>2. o + w[o].size < hi => o + w[o].size \in Offsets
    BY <2>1, PacketFacts
  <2> QED BY <1>2, <2>1, <2>2 DEF Tiled
<1> QED BY <1>1, <1>2 DEF Tiled
-----------------------------------------------------------------------------
(* Who is alone when the map changes. *)

\* Facts of a state that satisfies IInv, for one process.
Facts == /\ HookTypes /\ EventTypes /\ MutexTypes /\ MapTypes /\ SourceTypes /\ HistoryTypes
         /\ HookInv /\ MutexInv /\ SessionInv /\ WholePackets /\ MapInv /\ WakeupInv

\* IInv, with its conjuncts by name.
LEMMA FactsOfIInv == IInv <=> Facts
BY DEF IInv, TypeOK, Facts

\* A hook that initialises a map has no capture thread on it, nor a renderer.
LEMMA InitAlone ==
  ASSUME HookTypes, EventTypes, HookInv, SessionInv,
         NEW t \in Targets, alive[t], lk[t] = NoThread, CheckInit(t)
  PROVE  /\ cpc[t] = "off"
         /\ \A r \in Renderers : ProcessOf[r] = t => pc[r] \notin InHook
         /\ mapId[t] + 1 \in Maps
<1>1. cpc[t] = "off"
  BY DEF SessionInv, CheckInit, ShouldInit, ShouldStop
<1>2. ASSUME NEW r \in Renderers, ProcessOf[r] = t PROVE pc[r] \notin InHook
  BY <1>2 DEF HookInv
<1>3. mapId[t] + 1 \in Maps
  BY DEF CheckInit, HookTypes, Maps
<1> QED
  BY <1>1, <1>2, <1>3

\* A renderer that holds audio_data_mutex is alone with the map.
LEMMA RendererAlone ==
  ASSUME HookTypes, HookInv, MutexInv, SessionInv, SingleTarget,
         NEW r \in Renderers, pc[r] \in InRegion
  PROVE  LET t == ProcessOf[r] IN
         /\ \A s \in Targets : s = t
         /\ \A q \in Renderers : ProcessOf[q] = t /\ (pc[q] \in InHook => q = r)
         /\ owner[t] = r /\ cpc[t] # "read" /\ ~leaked[t] /\ ~abandoned[t]
         /\ mapId[t] \in Maps
<1> DEFINE t == ProcessOf[r]
<1>1. t \in Targets /\ (\A s \in Targets : s = t) /\ (\A q \in Renderers : ProcessOf[q] = t)
  BY DEF SingleTarget
<1>2. owner[t] = r /\ lk[t] = r /\ active[t]
  BY DEF HookInv, InRegion, InHook
<1>3. cpc[t] # "read" /\ ~leaked[t] /\ ~abandoned[t]
  BY <1>1, <1>2 DEF MutexInv
<1>4. \A q \in Renderers : pc[q] \in InHook => q = r
  BY <1>1, <1>2 DEF HookInv
<1>5. mapId[t] \in Maps
  BY <1>1, <1>2 DEF SessionInv, HookTypes, Maps
<1> QED
  BY <1>1, <1>2, <1>3, <1>4, <1>5

\* What WriteData does to the memory of the map.
LEMMA WriteFacts ==
  ASSUME Facts, NEW r \in Renderers, WriteData(r)
  PROVE  LET t == ProcessOf[r]
             id == mapId[t]
             at == avail[id]
         IN /\ pc[r] = "write" /\ id \in Maps /\ at \in 0..BufferSize
            /\ pc'[r] = "commit" => Fits(id, pend[r])
            /\ Fits(id, pend[r]) =>
                 /\ at \in Offsets /\ sent[id] + 1 \in 1..MaxPackets
                 /\ mem' = [mem EXCEPT ![id] = mem'[id]]
                 /\ mem'[id] \in [Offsets -> Packets \cup {Empty}]
                 /\ mem'[id][at] = [from |-> t, n |-> sent[id] + 1, size |-> pend[r]]
                 /\ \A o \in Offsets : o < at => mem'[id][o] = mem[id][o]
                 /\ \A o \in Offsets : o > at /\ o < at + pend[r] => mem'[id][o] = Empty
            /\ ~Fits(id, pend[r]) => UNCHANGED mem
<1> DEFINE t == ProcessOf[r]
           id == mapId[t]
           at == avail[id]
           packet == [from |-> t, n |-> sent[id] + 1, size |-> pend[r]]
           f == [o \in Offsets |-> IF o = at THEN packet
                                   ELSE IF o > at /\ o < at + pend[r] THEN Empty ELSE mem[id][o]]
<1>1. pc[r] = "write" /\ t \in Targets /\ (Fits(id, pend[r]) => mem' = [mem EXCEPT ![id] = f])
  BY DEF WriteData
<1>2. id \in Maps
  BY <1>1 DEF Facts, HookInv, InHook, SessionInv, HookTypes, Maps
<1>3. at \in 0..BufferSize /\ sent[id] \in 0..MaxPackets /\ mem[id] \in [Offsets -> Packets \cup {Empty}]
  BY <1>2 DEF Facts, MapTypes, HistoryTypes
<1>4. pend[r] \in Sizes
  BY <1>1 DEF Facts, HookInv
<1>5. pc'[r] = "commit" => Fits(id, pend[r])
  BY <1>1 DEF WriteData, Facts, HookTypes
<1>6. ~Fits(id, pend[r]) => UNCHANGED mem
  BY DEF WriteData
<1>7. ASSUME Fits(id, pend[r]) PROVE at \in Offsets /\ sent[id] + 1 \in 1..MaxPackets
  <2>1. pend[r] \in Nat \ {0}
    BY <1>4
  <2>2. at \in Offsets
    BY <1>3, <1>7, <2>1 DEF Fits, Offsets
  <2>3. sent[id] + 1 \in 1..MaxPackets
    BY <1>3, <1>7 DEF Fits
  <2> QED BY <2>2, <2>3
<1>8. ASSUME Fits(id, pend[r]) PROVE mem'[id] = f /\ mem' = [mem EXCEPT ![id] = mem'[id]]
  <2> HIDE DEF f
  <2> QED BY <1>1, <1>2, <1>8 DEF Facts, MapTypes
<1>9. ASSUME Fits(id, pend[r]) PROVE packet \in Packets
  BY <1>1, <1>4, <1>7, <1>9 DEF Packets
<1>10. ASSUME Fits(id, pend[r]) PROVE f \in [Offsets -> Packets \cup {Empty}]
  <2> HIDE DEF packet
  <2> QED BY <1>3, <1>9, <1>10
<1>11. ASSUME Fits(id, pend[r])
       PROVE  /\ mem'[id][at] = packet
              /\ \A o \in Offsets : o < at => mem'[id][o] = mem[id][o]
              /\ \A o \in Offsets : o > at /\ o < at + pend[r] => mem'[id][o] = Empty
  <2> HIDE DEF packet, at
  <2>1. mem'[id] = f /\ at \in Offsets /\ \A o \in Offsets : o \in Int
    BY <1>7, <1>8, <1>11, PacketFacts DEF Offsets
  <2>2. mem'[id][at] = packet
    BY <2>1
  <2>3. at \in Int
    BY <2>1
  <2>4. \A o \in Offsets : o < at => mem'[id][o] = mem[id][o]
    BY <2>1, <2>3
  <2>5. \A o \in Offsets : o > at /\ o < at + pend[r] => mem'[id][o] = Empty
    BY <2>1, <2>3
  <2> QED BY <2>2, <2>4, <2>5
<1> HIDE DEF f
<1> QED
  BY <1>1, <1>2, <1>3, <1>5, <1>6, <1>7, <1>8, <1>10, <1>11

\* What ReadPacket finds, and that it stays inside what the thread locked.
LEMMA ReadFacts ==
  ASSUME Facts, NEW t \in Targets, ReadPacket(t)
  PROVE  LET id == mapId[t]
             packet == mem[id][offset[t]]
         IN /\ cpc[t] = "read" /\ view[t] = id /\ id \in Maps
            /\ offset[t] \in 0..BufferSize /\ size[t] \in 0..BufferSize
            /\ avail[id] = size[t] - offset[t]
            /\ packet \in Packets /\ packet.size \in Nat \ {0}
            /\ offset[t] + packet.size <= size[t]
            /\ packet.n = got[id] + 1 /\ packet.n <= sent[id]
            /\ Tiled(mem[id], offset[t] + packet.size, size[t], packet.n, sent[id])
            /\ offset' = [offset EXCEPT ![t] = offset[t] + packet.size]
            /\ avail' = [avail EXCEPT ![id] = avail[id] - packet.size]
            /\ got' = [got EXCEPT ![id] = packet.n]
            /\ heard' = [heard EXCEPT ![t] = heard[t] \cup {packet.from}]
<1> DEFINE id == mapId[t]
           packet == mem[id][offset[t]]
<1>1. cpc[t] = "read" /\ offset[t] < size[t]
  BY DEF ReadPacket
<1>2. view[t] = id /\ id \in Maps
  BY <1>1 DEF Facts, SessionInv, HookTypes, Maps
<1>3. offset[t] \in 0..BufferSize /\ size[t] \in 0..BufferSize
  BY DEF Facts, SourceTypes
<1>4. avail[id] = size[t] - offset[t] /\ Tiled(mem[id], offset[t], size[t], got[id], sent[id])
  BY <1>1 DEF Facts, MapInv, WholePackets
<1>5. mem[id] \in [Offsets -> Packets \cup {Empty}] /\ got[id] \in Nat /\ sent[id] \in Nat
  BY <1>2 DEF Facts, MapTypes, HistoryTypes
<1>6. /\ packet \in Packets /\ offset[t] + packet.size <= size[t]
      /\ packet.n = got[id] + 1 /\ packet.n <= sent[id]
      /\ Tiled(mem[id], offset[t] + packet.size, size[t], packet.n, sent[id])
  <2>1. offset[t] \in Nat /\ size[t] \in Nat /\ size[t] <= BufferSize
    BY <1>3
  <2> HIDE DEF id
  <2> QED
    BY <1>1, <1>4, <1>5, <2>1, TiledAdvance
<1>7. packet.size \in Nat \ {0}
  BY <1>6, PacketFacts
<1>8. /\ offset' = [offset EXCEPT ![t] = offset[t] + packet.size]
      /\ avail' = [avail EXCEPT ![id] = avail[id] - packet.size]
      /\ got' = [got EXCEPT ![id] = packet.n]
      /\ heard' = [heard EXCEPT ![t] = heard[t] \cup {packet.from}]
  BY <1>2 DEF ReadPacket
<1> HIDE DEF packet, id
<1> QED
  BY <1>1, <1>2, <1>3, <1>4, <1>6, <1>7, <1>8 DEF packet, id

-----------------------------------------------------------------------------
(* The invariant is inductive. *)

\* Types depend on the variables they speak of.
LEMMA TypesKept ==
  /\ HookTypes /\ UNCHANGED hookVars => HookTypes'
  /\ EventTypes /\ UNCHANGED eventVars => EventTypes'
  /\ MutexTypes /\ UNCHANGED mutexVars => MutexTypes'
  /\ MapTypes /\ UNCHANGED mapVars => MapTypes'
  /\ SourceTypes /\ UNCHANGED sourceVars => SourceTypes'
  /\ HistoryTypes /\ UNCHANGED history => HistoryTypes'
<1>1. HookTypes /\ UNCHANGED hookVars => HookTypes'
  BY DEF HookTypes, hookVars
<1>2. EventTypes /\ UNCHANGED eventVars => EventTypes'
  BY DEF EventTypes, eventVars
<1>3. MutexTypes /\ UNCHANGED mutexVars => MutexTypes'
  BY DEF MutexTypes, mutexVars
<1>4. MapTypes /\ UNCHANGED mapVars => MapTypes'
  BY DEF MapTypes, mapVars
<1>5. SourceTypes /\ UNCHANGED sourceVars => SourceTypes'
  BY DEF SourceTypes, sourceVars
<1>6. HistoryTypes /\ UNCHANGED history => HistoryTypes'
  BY DEF HistoryTypes, history
<1> QED
  BY <1>1, <1>2, <1>3, <1>4, <1>5, <1>6

\* What MapInv depends on: it allows a map to lose its reader.
LEMMA MapKept ==
  ASSUME MapInv,
         UNCHANGED <<alive, abandoned, mapId, avail, mem, sent, got, pc, pend, size, offset>>,
         \A t \in Targets : cpc'[t] = "read" => cpc[t] = "read",
         \A t \in Targets : Readable(t)' => Readable(t)
  PROVE  MapInv'
BY DEF MapInv

\* What Commit publishes.
LEMMA CommitFacts ==
  ASSUME Facts, NEW r \in Renderers, Commit(r)
  PROVE  LET id == mapId[ProcessOf[r]]
         IN /\ pc[r] = "commit" /\ id \in Maps
            /\ pend[r] \in Sizes
            /\ avail[id] \in 0..BufferSize /\ sent[id] \in 0..MaxPackets
            /\ avail[id] + pend[r] \in 0..BufferSize /\ sent[id] + 1 \in 0..MaxPackets
            /\ avail' = [avail EXCEPT ![id] = avail[id] + pend[r]]
            /\ sent' = [sent EXCEPT ![id] = sent[id] + 1]
<1> DEFINE t == ProcessOf[r]
           id == mapId[t]
<1>1. pc[r] = "commit" /\ t \in Targets
  BY DEF Commit
<1>2. id \in Maps /\ pend[r] \in Sizes
  BY <1>1 DEF Facts, HookInv, InHook, SessionInv, HookTypes, Maps
<1>3. avail[id] \in 0..BufferSize /\ sent[id] \in 0..MaxPackets
  BY <1>2 DEF Facts, MapTypes, HistoryTypes
<1>4. avail[id] + pend[r] <= BufferSize /\ sent[id] < MaxPackets
  BY <1>1 DEF Facts, MapInv
<1>5. pend[r] \in Nat
  BY <1>2
<1>6. avail[id] + pend[r] \in 0..BufferSize
  BY <1>3, <1>4, <1>5
<1>7. sent[id] + 1 \in 0..MaxPackets
  BY <1>3, <1>4
<1> QED
  BY <1>1, <1>2, <1>3, <1>6, <1>7 DEF Commit

\* Types are kept: the interesting ones are those of avail, offset and size.
LEMMA TypeStep ==
  ASSUME Facts, [Next]_vars
  PROVE  TypeOK'
<1> USE DEF Facts
<1>1. ASSUME NEW r \in Renderers, CaptureCheck(r)
      PROVE  TypeOK'
  <2>1. HookTypes'
    <3>1. active' \in [Targets -> BOOLEAN]
      BY <1>1 DEF CaptureCheck, CheckActive, CheckIdle, CheckInit, CheckInitFails, HookTypes
    <3>2. mapId' \in [Targets -> 0..MaxMaps]
      BY <1>1 DEF CaptureCheck, CheckActive, CheckIdle, CheckInit, CheckInitFails, HookTypes
    <3>3. pc' \in [Renderers -> RendererStates]
      BY <1>1 DEF CaptureCheck, HookTypes, RendererStates
    <3>4. UNCHANGED <<alive, lk, pend>>
      BY <1>1 DEF CaptureCheck
    <3> QED
      BY <3>1, <3>2, <3>3, <3>4 DEF HookTypes
  <2>2. EventTypes'
    BY <1>1 DEF CaptureCheck, CheckActive, CheckIdle, CheckInit, CheckInitFails, EventTypes
  <2>3. MapTypes'
    BY <1>1 DEF CaptureCheck, CheckActive, CheckIdle, CheckInit, CheckInitFails, MapTypes
  <2>4. UNCHANGED <<mutexVars, sourceVars, history>>
    BY <1>1 DEF CaptureCheck
  <2> QED
    BY <2>1, <2>2, <2>3, <2>4, TypesKept DEF TypeOK
<1>2. ASSUME NEW r \in Renderers, OutInactive(r)
      PROVE  TypeOK'
  <2>1. HookTypes'
    BY <1>2 DEF OutInactive, HookTypes, RendererStates
  <2>2. UNCHANGED <<eventVars, mutexVars, mapVars, sourceVars, history>>
    BY <1>2 DEF OutInactive
  <2> QED
    BY <2>1, <2>2, TypesKept DEF TypeOK
<1>3. ASSUME NEW r \in Renderers, NEW k \in Sizes, OutAudioData(r, k)
      PROVE  TypeOK'
  <2>1. HookTypes'
    BY <1>3 DEF OutAudioData, HookTypes, RendererStates
  <2>2. UNCHANGED <<eventVars, mutexVars, mapVars, sourceVars, history>>
    BY <1>3 DEF OutAudioData
  <2> QED
    BY <2>1, <2>2, TypesKept DEF TypeOK
<1>4. ASSUME NEW r \in Renderers, TryMutex(r)
      PROVE  TypeOK'
  <2>1. HookTypes'
    BY <1>4 DEF TryMutex, HookTypes, RendererStates
  <2>2. MutexTypes'
    BY <1>4 DEF TryMutex, MutexTypes
  <2>3. UNCHANGED <<eventVars, mapVars, sourceVars, history>>
    BY <1>4 DEF TryMutex
  <2> QED
    BY <2>1, <2>2, <2>3, TypesKept DEF TypeOK
<1>5. ASSUME NEW r \in Renderers, Drop(r)
      PROVE  TypeOK'
  <2>1. HookTypes'
    BY <1>5 DEF Drop, HookTypes, RendererStates
  <2>2. UNCHANGED <<eventVars, mutexVars, mapVars, sourceVars, history>>
    BY <1>5 DEF Drop
  <2> QED
    BY <2>1, <2>2, TypesKept DEF TypeOK
<1>6. ASSUME NEW r \in Renderers, WriteData(r)
      PROVE  TypeOK'
  <2>1. HookTypes'
    BY <1>6 DEF WriteData, HookTypes, RendererStates
  <2>2. MapTypes'
    <3>1. UNCHANGED avail
      BY <1>6 DEF WriteData
    <3> QED
      BY <1>6, <3>1, WriteFacts DEF MapTypes
  <2>3. UNCHANGED <<eventVars, mutexVars, sourceVars, history>>
    BY <1>6 DEF WriteData
  <2> QED
    BY <2>1, <2>2, <2>3, TypesKept DEF TypeOK
<1>7. ASSUME NEW r \in Renderers, Commit(r)
      PROVE  TypeOK'
  <2>1. HookTypes'
    BY <1>7 DEF Commit, HookTypes, RendererStates
  <2>2. MapTypes'
    BY <1>7, CommitFacts DEF Commit, MapTypes
  <2>3. HistoryTypes'
    BY <1>7, CommitFacts DEF Commit, HistoryTypes
  <2>4. UNCHANGED <<eventVars, mutexVars, sourceVars>>
    BY <1>7 DEF Commit
  <2> QED
    BY <2>1, <2>2, <2>3, <2>4, TypesKept DEF TypeOK
<1>8. ASSUME NEW r \in Renderers, Release(r)
      PROVE  TypeOK'
  <2>1. HookTypes'
    BY <1>8 DEF Release, HookTypes, RendererStates
  <2>2. MutexTypes'
    BY <1>8 DEF Release, MutexTypes
  <2>3. UNCHANGED <<eventVars, mapVars, sourceVars, history>>
    BY <1>8 DEF Release
  <2> QED
    BY <2>1, <2>2, <2>3, TypesKept DEF TypeOK
<1>9. ASSUME NEW r \in Renderers, Signal(r)
      PROVE  TypeOK'
  <2>1. HookTypes'
    BY <1>9 DEF Signal, HookTypes, RendererStates
  <2>2. EventTypes'
    BY <1>9 DEF Signal, EventTypes
  <2>3. UNCHANGED <<mutexVars, mapVars, sourceVars, history>>
    BY <1>9 DEF Signal
  <2> QED
    BY <2>1, <2>2, <2>3, TypesKept DEF TypeOK
<1>10. ASSUME NEW t \in Targets, Attach(t) \/ AttachDone(t) \/ AttachFail(t)
       PROVE  TypeOK'
  <2>1. EventTypes'
    BY <1>10 DEF Attach, AttachDone, AttachFail, EventTypes
  <2>2. SourceTypes'
    BY <1>10 DEF Attach, AttachDone, AttachFail, SourceTypes, SessionStates, CaptureStates
  <2>3. UNCHANGED <<hookVars, mutexVars, mapVars, history>>
    BY <1>10 DEF Attach, AttachDone, AttachFail
  <2> QED
    BY <2>1, <2>2, <2>3, TypesKept DEF TypeOK
<1>11. ASSUME NEW t \in Targets, StartCapture(t)
       PROVE  TypeOK'
  <2>1. EventTypes'
    BY <1>11 DEF StartCapture, EventTypes
  <2>2. SourceTypes'
    <3>1. view' \in [Targets -> 0..MaxMaps]
      BY <1>11 DEF StartCapture, HookTypes, SourceTypes
    <3>2. capturing' \in [Targets -> BOOLEAN]
      BY <1>11 DEF StartCapture, SourceTypes
    <3>3. cpc' \in [Targets -> CaptureStates]
      BY <1>11 DEF StartCapture, SourceTypes, CaptureStates
    <3>4. UNCHANGED <<sess, offset, size, leaked, crashes>>
      BY <1>11 DEF StartCapture
    <3> QED
      BY <3>1, <3>2, <3>3, <3>4 DEF SourceTypes
  <2>3. UNCHANGED <<hookVars, mutexVars, mapVars, history>>
    BY <1>11 DEF StartCapture
  <2> QED
    BY <2>1, <2>2, <2>3, TypesKept DEF TypeOK
<1>12. ASSUME NEW t \in Targets, StopBegin(t) \/ StopJoin(t) \/ StopClose(t)
       PROVE  TypeOK'
  <2>1. EventTypes'
    BY <1>12 DEF StopBegin, StopJoin, StopClose, EventTypes
  <2>2. SourceTypes'
    <3>1. sess' \in [Targets -> SessionStates]
      BY <1>12 DEF StopBegin, StopJoin, StopClose, SourceTypes, SessionStates
    <3>2. capturing' \in [Targets -> BOOLEAN]
      BY <1>12 DEF StopBegin, StopJoin, StopClose, SourceTypes
    <3>3. view' \in [Targets -> 0..MaxMaps]
      BY <1>12 DEF StopBegin, StopJoin, StopClose, SourceTypes
    <3>4. UNCHANGED <<cpc, offset, size, leaked, crashes>>
      BY <1>12 DEF StopBegin, StopJoin, StopClose
    <3> QED
      BY <3>1, <3>2, <3>3, <3>4 DEF SourceTypes
  <2>3. UNCHANGED <<hookVars, mutexVars, mapVars, history>>
    BY <1>12 DEF StopBegin, StopJoin, StopClose
  <2> QED
    BY <2>1, <2>2, <2>3, TypesKept DEF TypeOK
<1>13. ASSUME NEW t \in Targets, LoopTop(t)
       PROVE  TypeOK'
  <2>1. MutexTypes'
    BY <1>13 DEF LoopTop, MutexTypes, mutexVars
  <2>2. SourceTypes'
    BY <1>13 DEF LoopTop, SourceTypes, SessionStates, CaptureStates
  <2>3. UNCHANGED <<hookVars, eventVars, mapVars, history>>
    BY <1>13 DEF LoopTop
  <2> QED
    BY <2>1, <2>2, <2>3, TypesKept DEF TypeOK
<1>14. ASSUME NEW t \in Targets, Wake(t) \/ WaitTimeout(t) \/ LockTimeout(t)
       PROVE  TypeOK'
  <2>1. EventTypes'
    BY <1>14 DEF Wake, WaitTimeout, LockTimeout, EventTypes, eventVars
  <2>2. SourceTypes'
    BY <1>14 DEF Wake, WaitTimeout, LockTimeout, SourceTypes, SessionStates, CaptureStates
  <2>3. UNCHANGED <<hookVars, mutexVars, mapVars, history>>
    BY <1>14 DEF Wake, WaitTimeout, LockTimeout
  <2> QED
    BY <2>1, <2>2, <2>3, TypesKept DEF TypeOK
<1>15. ASSUME NEW t \in Targets, Lock(t)
       PROVE  TypeOK'
  <2>1. MutexTypes'
    BY <1>15 DEF Lock, MutexTypes
  <2>2. SourceTypes'
    <3>1. avail[view[t]] \in 0..BufferSize
      BY <1>15 DEF Lock, SessionInv, HookTypes, Maps, MapTypes
    <3> QED
      BY <1>15, <3>1 DEF Lock, SourceTypes, CaptureStates
  <2>3. UNCHANGED <<hookVars, eventVars, mapVars, history>>
    BY <1>15 DEF Lock
  <2> QED
    BY <2>1, <2>2, <2>3, TypesKept DEF TypeOK
<1>16. ASSUME NEW t \in Targets, LockAbandoned(t)
       PROVE  TypeOK'
  <2>1. MutexTypes'
    BY <1>16 DEF LockAbandoned, MutexTypes
  <2>2. SourceTypes'
    BY <1>16 DEF LockAbandoned, SourceTypes, SessionStates, CaptureStates
  <2>3. UNCHANGED <<hookVars, eventVars, mapVars, history>>
    BY <1>16 DEF LockAbandoned
  <2> QED
    BY <2>1, <2>2, <2>3, TypesKept DEF TypeOK
<1>17. ASSUME NEW t \in Targets, ReadPacket(t)
       PROVE  TypeOK'
  <2>1. MapTypes'
    <3>1. avail[mapId[t]] - mem[mapId[t]][offset[t]].size \in 0..BufferSize
      BY <1>17, ReadFacts
    <3>2. avail' = [avail EXCEPT ![mapId[t]] = avail[mapId[t]] - mem[mapId[t]][offset[t]].size]
      BY <1>17, ReadFacts
    <3>3. UNCHANGED mem
      BY <1>17 DEF ReadPacket
    <3> QED
      BY <3>1, <3>2, <3>3 DEF MapTypes
  <2>2. SourceTypes'
    <3>1. offset[t] + mem[mapId[t]][offset[t]].size \in 0..BufferSize
      BY <1>17, ReadFacts
    <3>2. offset' = [offset EXCEPT ![t] = offset[t] + mem[mapId[t]][offset[t]].size]
      BY <1>17, ReadFacts
    <3>3. UNCHANGED <<sess, capturing, cpc, view, size, leaked, crashes>>
      BY <1>17 DEF ReadPacket
    <3> QED
      BY <3>1, <3>2, <3>3 DEF SourceTypes
  <2>3. HistoryTypes'
    <3> DEFINE packet == mem[mapId[t]][offset[t]]
    <3>1. packet.from \in Targets /\ packet.n \in 0..MaxPackets
      BY <1>17, ReadFacts DEF Packets
    <3>2. /\ got' = [got EXCEPT ![mapId[t]] = packet.n]
          /\ heard' = [heard EXCEPT ![t] = heard[t] \cup {packet.from}]
      BY <1>17, ReadFacts
    <3>3. UNCHANGED sent
      BY <1>17 DEF ReadPacket
    <3> HIDE DEF packet
    <3> QED
      BY <3>1, <3>2, <3>3 DEF HistoryTypes
  <2>4. UNCHANGED <<hookVars, eventVars, mutexVars>>
    BY <1>17 DEF ReadPacket
  <2> QED
    BY <2>1, <2>2, <2>3, <2>4, TypesKept DEF TypeOK
<1>18. ASSUME NEW t \in Targets, EndRead(t)
       PROVE  TypeOK'
  <2>1. MutexTypes'
    BY <1>18 DEF EndRead, MutexTypes
  <2>2. SourceTypes'
    BY <1>18 DEF EndRead, SourceTypes, SessionStates, CaptureStates
  <2>3. UNCHANGED <<hookVars, eventVars, mapVars, history>>
    BY <1>18 DEF EndRead
  <2> QED
    BY <2>1, <2>2, <2>3, TypesKept DEF TypeOK
<1>19. ASSUME NEW t \in Targets, TargetDies(t)
       PROVE  TypeOK'
  <2>1. HookTypes'
    BY <1>19 DEF TargetDies, HookTypes, RendererStates
  <2>2. MutexTypes'
    BY <1>19 DEF TargetDies, MutexTypes
  <2>3. UNCHANGED <<eventVars, mapVars, sourceVars, history>>
    BY <1>19 DEF TargetDies
  <2> QED
    BY <2>1, <2>2, <2>3, TypesKept DEF TypeOK
<1>20. ASSUME NEW t \in Targets, SourceDies(t)
       PROVE  TypeOK'
  <2>1. EventTypes'
    BY <1>20 DEF SourceDies, EventTypes
  <2>2. MutexTypes'
    BY <1>20 DEF SourceDies, MutexTypes
  <2>3. SourceTypes'
    BY <1>20 DEF SourceDies, SourceTypes, SessionStates, CaptureStates
  <2>4. UNCHANGED <<hookVars, mapVars, history>>
    BY <1>20 DEF SourceDies
  <2> QED
    BY <2>1, <2>2, <2>3, <2>4, TypesKept DEF TypeOK
<1>21. CASE UNCHANGED vars
  BY <1>21, TypesKept DEF vars, TypeOK
<1> QED
  BY <1>1, <1>2, <1>3, <1>4, <1>5, <1>6, <1>7, <1>8, <1>9, <1>10, <1>11,
     <1>12, <1>13, <1>14, <1>15, <1>16, <1>17, <1>18, <1>19, <1>20, <1>21
     DEF Next, Renderer, OutAudio, Tick, StopCapture, CaptureThread

\* A renderer stays under its locks.
LEMMA HookStep ==
  ASSUME Facts, [Next]_vars
  PROVE  HookInv'
<1> USE DEF Facts, HookInv, MutexInv, HookTypes, MutexTypes, InHook, InRegion, RendererStates, hookVars, mutexVars
<1>1. ASSUME NEW r \in Renderers, CaptureCheck(r)
      PROVE  HookInv'
  BY <1>1 DEF CaptureCheck, CheckActive, CheckIdle, CheckInit, CheckInitFails, ShouldStop, ShouldInit
<1>2. ASSUME NEW r \in Renderers, OutInactive(r)
      PROVE  HookInv'
  BY <1>2 DEF OutInactive
<1>3. ASSUME NEW r \in Renderers, NEW k \in Sizes, OutAudioData(r, k)
      PROVE  HookInv'
  BY <1>3 DEF OutAudioData
<1>4. ASSUME NEW r \in Renderers, TryMutex(r)
      PROVE  HookInv'
  BY <1>4 DEF TryMutex
<1>5. ASSUME NEW r \in Renderers, Drop(r)
      PROVE  HookInv'
  BY <1>5 DEF Drop
<1>6. ASSUME NEW r \in Renderers, WriteData(r)
      PROVE  HookInv'
  BY <1>6 DEF WriteData
<1>7. ASSUME NEW r \in Renderers, Commit(r)
      PROVE  HookInv'
  BY <1>7 DEF Commit
<1>8. ASSUME NEW r \in Renderers, Release(r)
      PROVE  HookInv'
  BY <1>8 DEF Release
<1>9. ASSUME NEW r \in Renderers, Signal(r)
      PROVE  HookInv'
  BY <1>9 DEF Signal
<1>10. ASSUME NEW t \in Targets, Attach(t) \/ AttachDone(t) \/ AttachFail(t)
       PROVE  HookInv'
  BY <1>10 DEF Attach, AttachDone, AttachFail
<1>11. ASSUME NEW t \in Targets, StartCapture(t)
       PROVE  HookInv'
  BY <1>11 DEF StartCapture
<1>12. ASSUME NEW t \in Targets, StopBegin(t) \/ StopJoin(t) \/ StopClose(t)
       PROVE  HookInv'
  BY <1>12 DEF StopBegin, StopJoin, StopClose
<1>13. ASSUME NEW t \in Targets, LoopTop(t)
       PROVE  HookInv'
  BY <1>13 DEF LoopTop
<1>14. ASSUME NEW t \in Targets, Wake(t) \/ WaitTimeout(t) \/ LockTimeout(t)
       PROVE  HookInv'
  BY <1>14 DEF Wake, WaitTimeout, LockTimeout
<1>15. ASSUME NEW t \in Targets, Lock(t)
       PROVE  HookInv'
  BY <1>15 DEF Lock
<1>16. ASSUME NEW t \in Targets, LockAbandoned(t)
       PROVE  HookInv'
  BY <1>16 DEF LockAbandoned
<1>17. ASSUME NEW t \in Targets, ReadPacket(t)
       PROVE  HookInv'
  BY <1>17 DEF ReadPacket
<1>18. ASSUME NEW t \in Targets, EndRead(t)
       PROVE  HookInv'
  BY <1>18 DEF EndRead
<1>19. ASSUME NEW t \in Targets, TargetDies(t)
       PROVE  HookInv'
  BY <1>19 DEF TargetDies
<1>20. ASSUME NEW t \in Targets, SourceDies(t)
       PROVE  HookInv'
  BY <1>20 DEF SourceDies
<1>21. CASE UNCHANGED vars
  BY <1>21 DEF vars, hookVars, eventVars, mutexVars, mapVars, sourceVars, history
<1> QED
  BY <1>1, <1>2, <1>3, <1>4, <1>5, <1>6, <1>7, <1>8, <1>9, <1>10, <1>11,
     <1>12, <1>13, <1>14, <1>15, <1>16, <1>17, <1>18, <1>19, <1>20, <1>21
     DEF Next, Renderer, OutAudio, Tick, StopCapture, CaptureThread

\* Every hand-over of audio_data_mutex, and the crashes that abandon it.
LEMMA MutexStep ==
  ASSUME Facts, [Next]_vars
  PROVE  MutexInv'
<1> USE DEF Facts, HookInv, MutexInv, HookTypes, MutexTypes, SourceTypes, InHook, InRegion, CaptureStates, hookVars, mutexVars, sourceVars
<1>1. ASSUME NEW r \in Renderers, CaptureCheck(r)
      PROVE  MutexInv'
  BY <1>1 DEF CaptureCheck, CheckActive, CheckIdle, CheckInit, CheckInitFails, ShouldStop, ShouldInit
<1>2. ASSUME NEW r \in Renderers, OutInactive(r)
      PROVE  MutexInv'
  BY <1>2 DEF OutInactive
<1>3. ASSUME NEW r \in Renderers, NEW k \in Sizes, OutAudioData(r, k)
      PROVE  MutexInv'
  BY <1>3 DEF OutAudioData
<1>4. ASSUME NEW r \in Renderers, TryMutex(r)
      PROVE  MutexInv'
  BY <1>4 DEF TryMutex
<1>5. ASSUME NEW r \in Renderers, Drop(r)
      PROVE  MutexInv'
  BY <1>5 DEF Drop
<1>6. ASSUME NEW r \in Renderers, WriteData(r)
      PROVE  MutexInv'
  BY <1>6 DEF WriteData
<1>7. ASSUME NEW r \in Renderers, Commit(r)
      PROVE  MutexInv'
  BY <1>7 DEF Commit
<1>8. ASSUME NEW r \in Renderers, Release(r)
      PROVE  MutexInv'
  BY <1>8 DEF Release
<1>9. ASSUME NEW r \in Renderers, Signal(r)
      PROVE  MutexInv'
  BY <1>9 DEF Signal
<1>10. ASSUME NEW t \in Targets, Attach(t) \/ AttachDone(t) \/ AttachFail(t)
       PROVE  MutexInv'
  BY <1>10 DEF Attach, AttachDone, AttachFail
<1>11. ASSUME NEW t \in Targets, StartCapture(t)
       PROVE  MutexInv'
  BY <1>11 DEF StartCapture, SessionInv
<1>12. ASSUME NEW t \in Targets, StopBegin(t) \/ StopJoin(t) \/ StopClose(t)
       PROVE  MutexInv'
  BY <1>12 DEF StopBegin, StopJoin, StopClose
<1>13. ASSUME NEW t \in Targets, LoopTop(t)
       PROVE  MutexInv'
  BY <1>13 DEF LoopTop
<1>14. ASSUME NEW t \in Targets, Wake(t) \/ WaitTimeout(t) \/ LockTimeout(t)
       PROVE  MutexInv'
  BY <1>14 DEF Wake, WaitTimeout, LockTimeout
<1>15. ASSUME NEW t \in Targets, Lock(t)
       PROVE  MutexInv'
  BY <1>15 DEF Lock
<1>16. ASSUME NEW t \in Targets, LockAbandoned(t)
       PROVE  MutexInv'
  BY <1>16 DEF LockAbandoned
<1>17. ASSUME NEW t \in Targets, ReadPacket(t)
       PROVE  MutexInv'
  BY <1>17 DEF ReadPacket
<1>18. ASSUME NEW t \in Targets, EndRead(t)
       PROVE  MutexInv'
  BY <1>18 DEF EndRead
<1>19. ASSUME NEW t \in Targets, TargetDies(t)
       PROVE  MutexInv'
  BY <1>19 DEF TargetDies
<1>20. ASSUME NEW t \in Targets, SourceDies(t)
       PROVE  MutexInv'
  BY <1>20 DEF SourceDies
<1>21. CASE UNCHANGED vars
  BY <1>21 DEF vars, hookVars, eventVars, mutexVars, mapVars, sourceVars, history
<1> QED
  BY <1>1, <1>2, <1>3, <1>4, <1>5, <1>6, <1>7, <1>8, <1>9, <1>10, <1>11,
     <1>12, <1>13, <1>14, <1>15, <1>16, <1>17, <1>18, <1>19, <1>20, <1>21
     DEF Next, Renderer, OutAudio, Tick, StopCapture, CaptureThread

\* The handshake of the events: a hook that captures is not stopped, nor asked to be.
LEMMA SessionStep ==
  ASSUME Facts, SingleTarget, [Next]_vars
  PROVE  SessionInv'
<1> USE DEF Facts, HookInv, SessionInv, HookTypes, EventTypes, SourceTypes, InHook, CaptureStates, SessionStates, hookVars, eventVars, sourceVars
<1>1. ASSUME NEW r \in Renderers, CaptureCheck(r)
      PROVE  SessionInv'
  BY <1>1 DEF CaptureCheck, CheckActive, CheckIdle, CheckInit, CheckInitFails, ShouldStop, ShouldInit
<1>2. ASSUME NEW r \in Renderers, OutInactive(r)
      PROVE  SessionInv'
  BY <1>2 DEF OutInactive
<1>3. ASSUME NEW r \in Renderers, NEW k \in Sizes, OutAudioData(r, k)
      PROVE  SessionInv'
  BY <1>3 DEF OutAudioData
<1>4. ASSUME NEW r \in Renderers, TryMutex(r)
      PROVE  SessionInv'
  BY <1>4 DEF TryMutex
<1>5. ASSUME NEW r \in Renderers, Drop(r)
      PROVE  SessionInv'
  BY <1>5 DEF Drop
<1>6. ASSUME NEW r \in Renderers, WriteData(r)
      PROVE  SessionInv'
  BY <1>6 DEF WriteData
<1>7. ASSUME NEW r \in Renderers, Commit(r)
      PROVE  SessionInv'
  BY <1>7 DEF Commit
<1>8. ASSUME NEW r \in Renderers, Release(r)
      PROVE  SessionInv'
  BY <1>8 DEF Release
<1>9. ASSUME NEW r \in Renderers, Signal(r)
      PROVE  SessionInv'
  BY <1>9 DEF Signal
<1>10. ASSUME NEW t \in Targets, Attach(t) \/ AttachDone(t) \/ AttachFail(t)
       PROVE  SessionInv'
  BY <1>10 DEF Attach, AttachDone, AttachFail
<1>11. ASSUME NEW t \in Targets, StartCapture(t)
       PROVE  SessionInv'
  BY <1>11 DEF StartCapture, Exists, SingleTarget
<1>12. ASSUME NEW t \in Targets, StopBegin(t) \/ StopJoin(t) \/ StopClose(t)
       PROVE  SessionInv'
  BY <1>12 DEF StopBegin, StopJoin, StopClose
<1>13. ASSUME NEW t \in Targets, LoopTop(t)
       PROVE  SessionInv'
  BY <1>13 DEF LoopTop
<1>14. ASSUME NEW t \in Targets, Wake(t) \/ WaitTimeout(t) \/ LockTimeout(t)
       PROVE  SessionInv'
  BY <1>14 DEF Wake, WaitTimeout, LockTimeout
<1>15. ASSUME NEW t \in Targets, Lock(t)
       PROVE  SessionInv'
  BY <1>15 DEF Lock
<1>16. ASSUME NEW t \in Targets, LockAbandoned(t)
       PROVE  SessionInv'
  BY <1>16 DEF LockAbandoned
<1>17. ASSUME NEW t \in Targets, ReadPacket(t)
       PROVE  SessionInv'
  BY <1>17 DEF ReadPacket
<1>18. ASSUME NEW t \in Targets, EndRead(t)
       PROVE  SessionInv'
  BY <1>18 DEF EndRead
<1>19. ASSUME NEW t \in Targets, TargetDies(t)
       PROVE  SessionInv'
  BY <1>19 DEF TargetDies
<1>20. ASSUME NEW t \in Targets, SourceDies(t)
       PROVE  SessionInv'
  BY <1>20 DEF SourceDies
<1>21. CASE UNCHANGED vars
  BY <1>21 DEF vars, hookVars, eventVars, mutexVars, mapVars, sourceVars, history
<1> QED
  BY <1>1, <1>2, <1>3, <1>4, <1>5, <1>6, <1>7, <1>8, <1>9, <1>10, <1>11,
     <1>12, <1>13, <1>14, <1>15, <1>16, <1>17, <1>18, <1>19, <1>20, <1>21
     DEF Next, Renderer, OutAudio, Tick, StopCapture, CaptureThread

\* The bookkeeping of the maps: available_audio_size against what is left to read.
LEMMA MapStep ==
  ASSUME Facts, SingleTarget, [Next]_vars
  PROVE  MapInv'
<1> USE DEF Facts
<1>1. ASSUME NEW r \in Renderers, CaptureCheck(r)
      PROVE  MapInv'
  <2> DEFINE t == ProcessOf[r]
  <2>1. /\ t \in Targets /\ \A s \in Targets : s = t
        /\ alive[t] /\ lk[t] = NoThread
        /\ \A q \in Renderers : ProcessOf[q] = t
    BY <1>1 DEF SingleTarget, CaptureCheck, HookInv
  <2>2. UNCHANGED <<alive, cpc, size, offset, abandoned, pend, mem, sent, got>>
    BY <1>1 DEF CaptureCheck, sourceVars, mutexVars, history
  <2>3. \A q \in Renderers : pc'[q] = "commit" => pc[q] = "commit"
    BY <1>1 DEF CaptureCheck, HookTypes
  <2>4. CASE UNCHANGED <<mapId, avail, ready>>
    BY <2>2, <2>3, <2>4 DEF MapInv, Readable
  <2>5. CASE CheckInit(t)
    <3>1. cpc[t] = "off" /\ (\A q \in Renderers : pc[q] \notin InHook) /\ mapId[t] + 1 \in Maps
      BY <2>1, <2>5, InitAlone
    <3>2. mapId'[t] = mapId[t] + 1 /\ avail'[mapId[t] + 1] = 0
      BY <2>1, <2>5, <3>1 DEF CheckInit, HookTypes, MapTypes
    <3>3. \A i \in Maps : i > mapId[t] + 1 => sent[i] = 0 /\ got[i] = 0
      BY <2>1 DEF MapInv, Maps, HookTypes
    <3>4. \A q \in Renderers : pc'[q] # "commit"
      BY <2>3, <3>1 DEF InHook
    <3> QED
      BY <2>1, <2>2, <3>1, <3>2, <3>3, <3>4 DEF MapInv
  <2> QED
    BY <1>1, <2>4, <2>5 DEF CaptureCheck, CheckActive, CheckIdle, CheckInitFails
<1>2. ASSUME NEW r \in Renderers, OutInactive(r)
      PROVE  MapInv'
  BY <1>2 DEF OutInactive, HookTypes, HookInv, MutexInv, SessionInv, MapInv, InHook, Readable, Maps, hookVars, eventVars, mutexVars, mapVars, sourceVars, history
<1>3. ASSUME NEW r \in Renderers, NEW k \in Sizes, OutAudioData(r, k)
      PROVE  MapInv'
  BY <1>3 DEF OutAudioData, HookTypes, HookInv, MutexInv, SessionInv, MapInv, InHook, Readable, Maps, hookVars, eventVars, mutexVars, mapVars, sourceVars, history
<1>4. ASSUME NEW r \in Renderers, TryMutex(r)
      PROVE  MapInv'
  BY <1>4 DEF TryMutex, HookTypes, HookInv, MutexInv, SessionInv, MapInv, InHook, Readable, Maps, hookVars, eventVars, mutexVars, mapVars, sourceVars, history
<1>5. ASSUME NEW r \in Renderers, Drop(r)
      PROVE  MapInv'
  BY <1>5 DEF Drop, HookTypes, HookInv, MutexInv, SessionInv, MapInv, InHook, Readable, Maps, hookVars, eventVars, mutexVars, mapVars, sourceVars, history
<1>6. ASSUME NEW r \in Renderers, WriteData(r)
      PROVE  MapInv'
  <2> DEFINE t == ProcessOf[r]
             id == mapId[t]
  <2>1. /\ pc[r] = "write" /\ id \in Maps /\ t \in Targets
        /\ \A s \in Targets : s = t
        /\ \A q \in Renderers : pc[q] \in InHook => q = r
        /\ cpc[t] # "read"
    BY <1>6, RendererAlone DEF WriteData, InRegion
  <2>2. UNCHANGED <<alive, mapId, pend, ready, abandoned, avail, cpc, size, offset, sent, got>>
    BY <1>6 DEF WriteData, eventVars, mutexVars, sourceVars, history
  <2>3. \A q \in Renderers : pc'[q] = "commit" => q = r
    BY <1>6, <2>1 DEF WriteData, HookTypes, InHook
  <2>4. pc'[r] = "commit" =>
          /\ avail[id] + pend[r] <= BufferSize /\ sent[id] < MaxPackets
          /\ mem'[id][avail[id]] = [from |-> t, n |-> sent[id] + 1, size |-> pend[r]]
          /\ \A o \in Offsets :
               o > avail[id] /\ o < avail[id] + pend[r] => mem'[id][o] = Empty
    BY <1>6, WriteFacts DEF Fits
  <2> HIDE DEF t
  <2> QED
    BY <2>1, <2>2, <2>3, <2>4 DEF MapInv, Readable
<1>7. ASSUME NEW r \in Renderers, Commit(r)
      PROVE  MapInv'
  <2> DEFINE t == ProcessOf[r]
             id == mapId[t]
  <2>1. /\ pc[r] = "commit" /\ id \in Maps /\ t \in Targets
        /\ \A s \in Targets : s = t
        /\ \A q \in Renderers : pc[q] \in InHook => q = r
        /\ cpc[t] # "read" /\ ~abandoned[t]
    BY <1>7, RendererAlone DEF Commit, InRegion
  <2>2. UNCHANGED <<alive, mapId, abandoned, cpc, got>>
    BY <1>7 DEF Commit, mutexVars, sourceVars
  <2>3. \A q \in Renderers : pc'[q] # "commit"
    BY <1>7, <2>1 DEF Commit, HookTypes, InHook
  <2>4. \A i \in Maps : i > id => sent'[i] = 0
    BY <1>7, <2>1 DEF Commit, MapInv, HistoryTypes, Maps
  <2> HIDE DEF t
  <2> QED
    BY <2>1, <2>2, <2>3, <2>4 DEF MapInv
<1>8. ASSUME NEW r \in Renderers, Release(r)
      PROVE  MapInv'
  BY <1>8 DEF Release, HookTypes, HookInv, MutexInv, SessionInv, MapInv, InHook, Readable, Maps, hookVars, eventVars, mutexVars, mapVars, sourceVars, history
<1>9. ASSUME NEW r \in Renderers, Signal(r)
      PROVE  MapInv'
  BY <1>9 DEF Signal, HookTypes, HookInv, MutexInv, SessionInv, MapInv, InHook, Readable, Maps, hookVars, eventVars, mutexVars, mapVars, sourceVars, history
<1>10. ASSUME NEW t \in Targets, Attach(t) \/ AttachDone(t) \/ AttachFail(t)
       PROVE  MapInv'
  BY <1>10 DEF Attach, AttachDone, AttachFail, HookTypes, HookInv, MutexInv, SessionInv, MapInv, InHook, Readable, Maps, hookVars, eventVars, mutexVars, mapVars, sourceVars, history
<1>11. ASSUME NEW t \in Targets, StartCapture(t)
       PROVE  MapInv'
  <2>1. UNCHANGED <<alive, abandoned, mapId, avail, mem, sent, got, pc, pend, size, offset>>
    BY <1>11 DEF StartCapture, hookVars, mutexVars, mapVars, history
  <2>2. \A s \in Targets : cpc'[s] = "read" => cpc[s] = "read"
    BY <1>11 DEF StartCapture, SourceTypes
  <2>3. \A s \in Targets : Readable(s)' => Readable(s)
    BY <1>11 DEF StartCapture, Readable, SourceTypes, EventTypes
  <2> QED
    BY <2>1, <2>2, <2>3, MapKept
<1>12. ASSUME NEW t \in Targets, StopBegin(t) \/ StopJoin(t) \/ StopClose(t)
       PROVE  MapInv'
  BY <1>12 DEF StopBegin, StopJoin, StopClose, HookTypes, HookInv, MutexInv, SessionInv, MapInv, InHook, Readable, Maps, hookVars, eventVars, mutexVars, mapVars, sourceVars, history
<1>13. ASSUME NEW t \in Targets, LoopTop(t)
       PROVE  MapInv'
  <2>1. UNCHANGED <<alive, mapId, ready, avail, mem, sent, got, pc, pend, size, offset>>
    BY <1>13 DEF LoopTop, hookVars, eventVars, mapVars, history
  <2>2. \A s \in Targets : cpc'[s] = "read" => cpc[s] = "read"
    BY <1>13 DEF LoopTop, SourceTypes
  <2>3. \A s \in Targets : Readable(s)' /\ abandoned'[s] => Readable(s) /\ abandoned[s]
    BY <1>13, <2>1 DEF LoopTop, Readable, SourceTypes, SessionInv, MutexTypes, mutexVars
  <2> QED
    BY <2>1, <2>2, <2>3 DEF MapInv
<1>14. ASSUME NEW t \in Targets, Wake(t) \/ WaitTimeout(t) \/ LockTimeout(t)
       PROVE  MapInv'
  <2>1. UNCHANGED <<alive, abandoned, mapId, ready, avail, mem, sent, got, pc, pend, size, offset>>
    BY <1>14 DEF Wake, WaitTimeout, LockTimeout, hookVars, eventVars, mutexVars, mapVars, history
  <2>2. \A s \in Targets : (cpc'[s] = "read" => cpc[s] = "read") /\ (cpc'[s] # "off" => cpc[s] # "off")
    BY <1>14 DEF Wake, WaitTimeout, LockTimeout, SourceTypes
  <2> QED
    BY <2>1, <2>2, MapKept DEF Readable
<1>15. ASSUME NEW t \in Targets, Lock(t)
       PROVE  MapInv'
  BY <1>15 DEF Lock, HookTypes, HookInv, MutexInv, SessionInv, MapInv, InHook, Readable, Maps, hookVars, eventVars, mutexVars, mapVars, sourceVars, history, MutexTypes, MapTypes, SourceTypes
<1>16. ASSUME NEW t \in Targets, LockAbandoned(t)
       PROVE  MapInv'
  BY <1>16 DEF LockAbandoned, HookTypes, HookInv, MutexInv, SessionInv, MapInv, InHook, Readable, Maps, hookVars, eventVars, mutexVars, mapVars, sourceVars, history, MutexTypes
<1>17. ASSUME NEW t \in Targets, ReadPacket(t)
       PROVE  MapInv'
  <2> DEFINE id == mapId[t]
             packet == mem[id][offset[t]]
  <2>1. \A s \in Targets : s = t
    BY DEF SingleTarget
  <2>2. /\ cpc[t] = "read" /\ id \in Maps
        /\ packet.size \in Nat \ {0} /\ offset[t] + packet.size <= size[t]
        /\ offset[t] \in Int /\ size[t] \in Int
        /\ avail[id] = size[t] - offset[t]
    BY <1>17, ReadFacts
  <2>3. owner[t] = t /\ ~abandoned[t] /\ \A q \in Renderers : pc[q] # "commit"
    BY <2>1, <2>2 DEF MutexInv, HookInv, InRegion
  <2>4. offset'[t] = offset[t] + packet.size /\ avail'[id] = avail[id] - packet.size
    BY <1>17, <2>2, ReadFacts DEF SourceTypes, MapTypes
  <2>5. \A i \in Maps : i > id => got'[i] = 0
    <3>1. \A i \in Maps \ {id} : got'[i] = got[i]
      BY <1>17, ReadFacts DEF HistoryTypes
    <3>2. id \in Int /\ Maps \subseteq Int
      BY DEF HookTypes, Maps
    <3> QED
      BY <3>1, <3>2 DEF MapInv
  <2>6. UNCHANGED <<alive, mapId, abandoned, cpc, sent, size, pc>>
    BY <1>17 DEF ReadPacket, hookVars, mutexVars
  <2> HIDE DEF packet
  <2>7. avail'[id] = size'[t] - offset'[t] /\ offset'[t] <= size'[t]
    BY <2>2, <2>4, <2>6
  <2> QED
    BY <2>1, <2>3, <2>5, <2>6, <2>7 DEF MapInv
<1>18. ASSUME NEW t \in Targets, EndRead(t)
       PROVE  MapInv'
  BY <1>18 DEF EndRead, HookTypes, HookInv, MutexInv, SessionInv, MapInv, InHook, Readable, Maps, hookVars, eventVars, mutexVars, mapVars, sourceVars, history, MapTypes, SourceTypes
<1>19. ASSUME NEW t \in Targets, TargetDies(t)
       PROVE  MapInv'
  BY <1>19 DEF TargetDies, HookTypes, HookInv, MutexInv, SessionInv, MapInv, InHook, Readable, Maps, hookVars, eventVars, mutexVars, mapVars, sourceVars, history, MutexTypes
<1>20. ASSUME NEW t \in Targets, SourceDies(t)
       PROVE  MapInv'
  <2>1. \A s \in Targets : s = t
    BY DEF SingleTarget
  <2>2. UNCHANGED <<alive, mapId, ready, avail, mem, sent, got, pc, pend>>
    BY <1>20 DEF SourceDies, hookVars, mapVars, history
  <2>3. cpc'[t] = "off"
    BY <1>20 DEF SourceDies, SourceTypes
  <2>4. ready[t] /\ abandoned'[t] => abandoned[t]
    BY <1>20 DEF SourceDies, MutexInv, SessionInv, MutexTypes
  <2> QED
    BY <2>1, <2>2, <2>3, <2>4 DEF MapInv, Readable
<1>21. CASE UNCHANGED vars
  BY <1>21 DEF vars, MapInv, Readable, hookVars, eventVars, mutexVars, mapVars, sourceVars, history
<1> QED
  BY <1>1, <1>2, <1>3, <1>4, <1>5, <1>6, <1>7, <1>8, <1>9, <1>10, <1>11,
     <1>12, <1>13, <1>14, <1>15, <1>16, <1>17, <1>18, <1>19, <1>20, <1>21
     DEF Next, Renderer, OutAudio, Tick, StopCapture, CaptureThread

\* The packets stay whole: what a renderer adds, what the capture thread takes.
LEMMA PacketStep ==
  ASSUME Facts, SingleTarget, [Next]_vars
  PROVE  WholePackets'
<1> USE DEF Facts
<1>1. ASSUME NEW r \in Renderers, CaptureCheck(r)
      PROVE  WholePackets'
  <2> DEFINE t == ProcessOf[r]
  <2>1. t \in Targets /\ (\A s \in Targets : s = t) /\ alive[t] /\ lk[t] = NoThread
    BY <1>1 DEF SingleTarget, CaptureCheck, HookInv
  <2>2. UNCHANGED <<sourceVars, history, mem>>
    BY <1>1 DEF CaptureCheck
  <2>3. CASE UNCHANGED <<mapId, avail, ready>>
    BY <2>2, <2>3 DEF WholePackets, sourceVars, history
  <2>4. CASE CheckInit(t)
    <3>1. cpc[t] = "off" /\ mapId[t] + 1 \in Maps
      BY <2>1, <2>4, InitAlone
    <3>2. /\ mapId'[t] = mapId[t] + 1 /\ avail'[mapId[t] + 1] = 0
          /\ sent[mapId[t] + 1] = 0 /\ got[mapId[t] + 1] = 0
      BY <2>1, <2>4, <3>1 DEF CheckInit, HookTypes, MapTypes, MapInv
    <3>3. Tiled(mem[mapId[t] + 1], 0, 0, 0, 0)
      BY PacketFacts DEF Tiled
    <3> QED
      BY <2>1, <2>2, <3>1, <3>2, <3>3 DEF WholePackets, sourceVars, history
  <2> QED
    BY <1>1, <2>3, <2>4 DEF CaptureCheck, CheckActive, CheckIdle, CheckInitFails
<1>2. ASSUME NEW r \in Renderers, OutInactive(r)
      PROVE  WholePackets'
  BY <1>2 DEF OutInactive, HookTypes, SessionInv, WholePackets, hookVars, eventVars, mapVars, sourceVars, history
<1>3. ASSUME NEW r \in Renderers, NEW k \in Sizes, OutAudioData(r, k)
      PROVE  WholePackets'
  BY <1>3 DEF OutAudioData, HookTypes, SessionInv, WholePackets, hookVars, eventVars, mapVars, sourceVars, history
<1>4. ASSUME NEW r \in Renderers, TryMutex(r)
      PROVE  WholePackets'
  BY <1>4 DEF TryMutex, HookTypes, SessionInv, WholePackets, hookVars, eventVars, mapVars, sourceVars, history
<1>5. ASSUME NEW r \in Renderers, Drop(r)
      PROVE  WholePackets'
  BY <1>5 DEF Drop, HookTypes, SessionInv, WholePackets, hookVars, eventVars, mapVars, sourceVars, history
<1>6. ASSUME NEW r \in Renderers, WriteData(r)
      PROVE  WholePackets'
  <2> DEFINE t == ProcessOf[r]
             id == mapId[t]
  <2>1. /\ id \in Maps /\ t \in Targets /\ (\A s \in Targets : s = t) /\ cpc[t] # "read"
    BY <1>6, RendererAlone DEF WriteData, InRegion
  <2>2. UNCHANGED <<mapId, ready, avail, sourceVars, history>>
    BY <1>6 DEF WriteData, eventVars
  <2>3. /\ mem[id] \in [Offsets -> Packets \cup {Empty}]
        /\ avail[id] \in Nat /\ avail[id] <= BufferSize /\ got[id] \in Nat /\ sent[id] \in Nat
    BY <2>1 DEF MapTypes, HistoryTypes
  <2>4. Tiled(mem[id], 0, avail[id], got[id], sent[id])
          => Tiled(mem'[id], 0, avail[id], got[id], sent[id])
    <3>1. CASE Fits(id, pend[r])
      <4>1. /\ mem'[id] \in [Offsets -> Packets \cup {Empty}]
            /\ \A o \in Offsets : o < avail[id] => mem'[id][o] = mem[id][o]
        BY <1>6, <3>1, WriteFacts
      <4> QED
        BY <2>3, <4>1, TiledKept
    <3>2. CASE ~Fits(id, pend[r])
      BY <1>6, <3>2, WriteFacts
    <3> QED BY <3>1, <3>2
  <2> HIDE DEF t
  <2> QED
    BY <2>1, <2>2, <2>4 DEF WholePackets, sourceVars, history
<1>7. ASSUME NEW r \in Renderers, Commit(r)
      PROVE  WholePackets'
  <2> DEFINE t == ProcessOf[r]
             id == mapId[t]
  <2>1. /\ pc[r] = "commit" /\ id \in Maps /\ t \in Targets /\ (\A s \in Targets : s = t)
        /\ cpc[t] # "read"
    BY <1>7, RendererAlone DEF Commit, InRegion
  <2>2. UNCHANGED <<mapId, ready, mem, got, sourceVars>>
    BY <1>7 DEF Commit, eventVars
  <2>3. /\ pend[r] \in Nat \ {0} /\ avail[id] \in Nat /\ sent[id] \in Nat
        /\ avail[id] + pend[r] <= BufferSize
        /\ avail'[id] = avail[id] + pend[r] /\ sent'[id] = sent[id] + 1
    <3>1. pend[r] \in Sizes /\ avail[id] \in 0..BufferSize /\ sent[id] \in 0..MaxPackets
          /\ avail[id] + pend[r] \in 0..BufferSize
      BY <1>7, CommitFacts
    <3>2. avail'[id] = avail[id] + pend[r] /\ sent'[id] = sent[id] + 1
      BY <1>7, <2>1, CommitFacts DEF MapTypes, HistoryTypes
    <3>3. pend[r] \in Nat \ {0}
      BY <3>1
    <3> QED
      BY <3>1, <3>2, <3>3
  <2>4. /\ mem[id] \in [Offsets -> Packets \cup {Empty}] /\ got[id] \in Nat
        /\ mem[id][avail[id]] = [from |-> t, n |-> sent[id] + 1, size |-> pend[r]]
        /\ \A o \in Offsets : o > avail[id] /\ o < avail[id] + pend[r] => mem[id][o] = Empty
    BY <2>1 DEF MapTypes, HistoryTypes, MapInv
  <2>5. mem[id][avail[id]] # Empty
    <3>1. sent[id] + 1 # 0 /\ Empty.n = 0 /\ mem[id][avail[id]].n = sent[id] + 1
      BY <2>3, <2>4 DEF Empty
    <3> QED BY <3>1
  <2>6. Tiled(mem[id], 0, avail[id], got[id], sent[id])
          => Tiled(mem[id], 0, avail[id] + pend[r], got[id], sent[id] + 1)
    <3>1. mem[id][avail[id]].size = pend[r] /\ mem[id][avail[id]].n = sent[id] + 1
      BY <2>4
    <3>2. avail[id] < BufferSize
      BY <2>3
    <3> HIDE DEF id
    <3> QED
      BY <2>3, <2>4, <2>5, <3>1, <3>2, TiledExtend
  <2> HIDE DEF t
  <2> QED
    BY <2>1, <2>2, <2>3, <2>6 DEF WholePackets, sourceVars
<1>8. ASSUME NEW r \in Renderers, Release(r)
      PROVE  WholePackets'
  BY <1>8 DEF Release, HookTypes, SessionInv, WholePackets, hookVars, eventVars, mapVars, sourceVars, history
<1>9. ASSUME NEW r \in Renderers, Signal(r)
      PROVE  WholePackets'
  BY <1>9 DEF Signal, HookTypes, SessionInv, WholePackets, hookVars, eventVars, mapVars, sourceVars, history
<1>10. ASSUME NEW t \in Targets, Attach(t) \/ AttachDone(t) \/ AttachFail(t)
       PROVE  WholePackets'
  BY <1>10 DEF Attach, AttachDone, AttachFail, HookTypes, SessionInv, WholePackets, hookVars, eventVars, mapVars, sourceVars, history
<1>11. ASSUME NEW t \in Targets, StartCapture(t)
       PROVE  WholePackets'
  BY <1>11 DEF StartCapture, HookTypes, SessionInv, WholePackets, hookVars, eventVars, mapVars, sourceVars, history, EventTypes, SourceTypes
<1>12. ASSUME NEW t \in Targets, StopBegin(t) \/ StopJoin(t) \/ StopClose(t)
       PROVE  WholePackets'
  BY <1>12 DEF StopBegin, StopJoin, StopClose, HookTypes, SessionInv, WholePackets, hookVars, eventVars, mapVars, sourceVars, history
<1>13. ASSUME NEW t \in Targets, LoopTop(t)
       PROVE  WholePackets'
  <2>1. UNCHANGED <<mapId, ready, avail, mem, sent, got, size, offset>>
    BY <1>13 DEF LoopTop, hookVars, eventVars, mapVars, history
  <2>2. \A s \in Targets : s = t
    BY DEF SingleTarget
  <2>3. cpc[t] = "top" /\ cpc'[t] # "read"
    BY <1>13 DEF LoopTop, SourceTypes
  <2> QED
    BY <2>1, <2>2, <2>3 DEF WholePackets
<1>14. ASSUME NEW t \in Targets, Wake(t) \/ WaitTimeout(t) \/ LockTimeout(t)
       PROVE  WholePackets'
  <2>1. UNCHANGED <<mapId, ready, avail, mem, sent, got, size, offset>>
    BY <1>14 DEF Wake, WaitTimeout, LockTimeout, hookVars, eventVars, mapVars, history
  <2>2. \A s \in Targets : s = t
    BY DEF SingleTarget
  <2>3. cpc[t] \in {"wait", "lock"} /\ cpc'[t] # "read"
    BY <1>14 DEF Wake, WaitTimeout, LockTimeout, SourceTypes
  <2> QED
    BY <2>1, <2>2, <2>3 DEF WholePackets
<1>15. ASSUME NEW t \in Targets, Lock(t)
       PROVE  WholePackets'
  BY <1>15 DEF Lock, HookTypes, SessionInv, WholePackets, hookVars, eventVars, mapVars, sourceVars, history, SourceTypes
<1>16. ASSUME NEW t \in Targets, LockAbandoned(t)
       PROVE  WholePackets'
  BY <1>16 DEF LockAbandoned, HookTypes, SessionInv, WholePackets, hookVars, eventVars, mapVars, sourceVars, history
<1>17. ASSUME NEW t \in Targets, ReadPacket(t)
       PROVE  WholePackets'
  <2> DEFINE id == mapId[t]
             packet == mem[id][offset[t]]
  <2>1. \A s \in Targets : s = t
    BY DEF SingleTarget
  <2>2. /\ cpc[t] = "read" /\ id \in Maps
        /\ Tiled(mem[id], offset[t] + packet.size, size[t], packet.n, sent[id])
        /\ offset'[t] = offset[t] + packet.size /\ got'[id] = packet.n
    BY <1>17, ReadFacts DEF SourceTypes, HistoryTypes
  <2>3. UNCHANGED <<mapId, cpc, size, mem, sent>>
    BY <1>17 DEF ReadPacket, hookVars
  <2> QED
    BY <2>1, <2>2, <2>3 DEF WholePackets
<1>18. ASSUME NEW t \in Targets, EndRead(t)
       PROVE  WholePackets'
  <2> DEFINE id == mapId[t]
  <2>1. \A s \in Targets : s = t
    BY DEF SingleTarget
  <2>2. /\ cpc[t] = "read" /\ offset[t] >= size[t] /\ id \in Maps
        /\ Tiled(mem[id], offset[t], size[t], got[id], sent[id])
        /\ avail[id] = size[t] - offset[t] /\ offset[t] <= size[t]
    BY <1>18 DEF EndRead, SessionInv, HookTypes, Maps, WholePackets, MapInv
  <2>3. offset[t] = size[t] /\ avail[id] = 0
    BY <2>2 DEF SourceTypes
  <2>4. got[id] = sent[id]
    BY <2>2, <2>3 DEF Tiled
  <2>5. Tiled(mem[id], 0, 0, sent[id], sent[id])
    BY PacketFacts DEF Tiled
  <2>6. UNCHANGED <<hookVars, eventVars, mapVars, history>> /\ cpc'[t] = "top"
    BY <1>18 DEF EndRead, SourceTypes
  <2> QED
    BY <2>1, <2>3, <2>4, <2>5, <2>6 DEF WholePackets, hookVars, mapVars, history
<1>19. ASSUME NEW t \in Targets, TargetDies(t)
       PROVE  WholePackets'
  BY <1>19 DEF TargetDies, HookTypes, SessionInv, WholePackets, hookVars, eventVars, mapVars, sourceVars, history
<1>20. ASSUME NEW t \in Targets, SourceDies(t)
       PROVE  WholePackets'
  <2>1. UNCHANGED <<mapId, ready, avail, mem, sent, got>>
    BY <1>20 DEF SourceDies, hookVars, mapVars, history
  <2>2. \A s \in Targets : s = t
    BY DEF SingleTarget
  <2>3. cpc'[t] = "off"
    BY <1>20 DEF SourceDies, SourceTypes
  <2>4. ready[t] => cpc[t] = "off"
    BY DEF SessionInv
  <2> QED
    BY <2>1, <2>2, <2>3, <2>4 DEF WholePackets
<1>21. CASE UNCHANGED vars
  BY <1>21 DEF vars, WholePackets, hookVars, eventVars, mapVars, sourceVars, history
<1> QED
  BY <1>1, <1>2, <1>3, <1>4, <1>5, <1>6, <1>7, <1>8, <1>9, <1>10, <1>11,
     <1>12, <1>13, <1>14, <1>15, <1>16, <1>17, <1>18, <1>19, <1>20, <1>21
     DEF Next, Renderer, OutAudio, Tick, StopCapture, CaptureThread

\* No wake-up is lost.
LEMMA WakeupStep ==
  ASSUME Facts, SingleTarget, [Next]_vars
  PROVE  WakeupInv'
<1> USE DEF Facts
<1>1. ASSUME NEW r \in Renderers, CaptureCheck(r)
      PROVE  WakeupInv'
  <2> DEFINE t == ProcessOf[r]
  <2>1. t \in Targets /\ (\A s \in Targets : s = t) /\ alive[t] /\ lk[t] = NoThread
    BY <1>1 DEF SingleTarget, CaptureCheck, HookInv
  <2>2. UNCHANGED <<alive, cpc, capturing, dataEvent>>
    BY <1>1 DEF CaptureCheck, sourceVars
  <2>3. WillSignal(t) => WillSignal(t)'
    <3>1. \A q \in Renderers : pc[q] # "render" => pc'[q] = pc[q]
      BY <1>1 DEF CaptureCheck, HookTypes
    <3> QED BY <3>1 DEF WillSignal
  <2>4. CASE UNCHANGED <<mapId, avail, ready>>
    BY <2>1, <2>2, <2>3, <2>4 DEF WakeupInv
  <2>5. CASE CheckInit(t)
    <3>1. mapId[t] + 1 \in Maps
      BY <2>1, <2>5, InitAlone
    <3>2. mapId'[t] = mapId[t] + 1 /\ avail'[mapId[t] + 1] = 0
      BY <2>1, <2>5, <3>1 DEF CheckInit, HookTypes, MapTypes
    <3> QED
      BY <2>1, <3>2 DEF WakeupInv
  <2> QED
    BY <1>1, <2>4, <2>5 DEF CaptureCheck, CheckActive, CheckIdle, CheckInitFails
<1>2. ASSUME NEW r \in Renderers, OutInactive(r)
      PROVE  WakeupInv'
  <2>1. UNCHANGED <<alive, cpc, capturing, dataEvent, mapId, avail, ready>>
    BY <1>2 DEF OutInactive, eventVars, mapVars, sourceVars
  <2>2. \A q \in Renderers : pc'[q] = pc[q] \/ (q = r /\ pc[q] = "out")
    BY <1>2 DEF OutInactive, HookTypes
  <2>3. \A s \in Targets : WillSignal(s) => WillSignal(s)'
    BY <2>2 DEF WillSignal
  <2> QED
    BY <2>1, <2>3 DEF WakeupInv
<1>3. ASSUME NEW r \in Renderers, NEW k \in Sizes, OutAudioData(r, k)
      PROVE  WakeupInv'
  <2>1. UNCHANGED <<alive, cpc, capturing, dataEvent, mapId, avail, ready>>
    BY <1>3 DEF OutAudioData, eventVars, mapVars, sourceVars
  <2>2. \A q \in Renderers : pc'[q] = pc[q] \/ (q = r /\ pc[q] = "out")
    BY <1>3 DEF OutAudioData, HookTypes
  <2>3. \A s \in Targets : WillSignal(s) => WillSignal(s)'
    BY <2>2 DEF WillSignal
  <2> QED
    BY <2>1, <2>3 DEF WakeupInv
<1>4. ASSUME NEW r \in Renderers, TryMutex(r)
      PROVE  WakeupInv'
  BY <1>4 DEF TryMutex, HookTypes, WakeupInv, WillSignal, hookVars, eventVars, mutexVars, mapVars, sourceVars
<1>5. ASSUME NEW r \in Renderers, Drop(r)
      PROVE  WakeupInv'
  <2>1. UNCHANGED <<alive, cpc, capturing, dataEvent, mapId, avail, ready>>
    BY <1>5 DEF Drop, eventVars, mapVars, sourceVars
  <2>2. \A q \in Renderers : pc'[q] = pc[q] \/ (q = r /\ pc[q] = "try")
    BY <1>5 DEF Drop, HookTypes
  <2>3. \A s \in Targets : WillSignal(s) => WillSignal(s)'
    BY <2>2 DEF WillSignal
  <2> QED
    BY <2>1, <2>3 DEF WakeupInv
<1>6. ASSUME NEW r \in Renderers, WriteData(r)
      PROVE  WakeupInv'
  BY <1>6 DEF WriteData, HookTypes, WakeupInv, WillSignal, hookVars, eventVars, mutexVars, mapVars, sourceVars
<1>7. ASSUME NEW r \in Renderers, Commit(r)
      PROVE  WakeupInv'
  BY <1>7 DEF Commit, HookInv, HookTypes, MutexInv, SessionInv, MapInv, WakeupInv, MapTypes, SourceTypes, EventTypes, InHook, InRegion, WillSignal, Readable, SingleTarget, Maps, MutexTypes, hookVars, eventVars, mutexVars, mapVars, sourceVars, history
<1>8. ASSUME NEW r \in Renderers, Release(r)
      PROVE  WakeupInv'
  BY <1>8 DEF Release, HookTypes, WakeupInv, WillSignal, hookVars, eventVars, mutexVars, mapVars, sourceVars
<1>9. ASSUME NEW r \in Renderers, Signal(r)
      PROVE  WakeupInv'
  BY <1>9 DEF Signal, HookTypes, EventTypes, WakeupInv, WillSignal, hookVars, eventVars, mutexVars, mapVars, sourceVars
<1>10. ASSUME NEW t \in Targets, Attach(t) \/ AttachDone(t) \/ AttachFail(t)
       PROVE  WakeupInv'
  BY <1>10 DEF Attach, AttachDone, AttachFail, WakeupInv, WillSignal, hookVars, eventVars, mutexVars, mapVars, sourceVars
<1>11. ASSUME NEW t \in Targets, StartCapture(t)
       PROVE  WakeupInv'
  BY <1>11 DEF StartCapture, SourceTypes, EventTypes, WakeupInv, WillSignal, hookVars, eventVars, mutexVars, mapVars, sourceVars
<1>12. ASSUME NEW t \in Targets, StopBegin(t) \/ StopJoin(t) \/ StopClose(t)
       PROVE  WakeupInv'
  BY <1>12 DEF StopBegin, StopJoin, StopClose, SourceTypes, EventTypes, WakeupInv, WillSignal, hookVars, eventVars, mutexVars, mapVars, sourceVars
<1>13. ASSUME NEW t \in Targets, LoopTop(t)
       PROVE  WakeupInv'
  BY <1>13 DEF LoopTop, SourceTypes, SessionInv, WakeupInv, WillSignal, hookVars, eventVars, mutexVars, mapVars, sourceVars
<1>14. ASSUME NEW t \in Targets, Wake(t) \/ WaitTimeout(t) \/ LockTimeout(t)
       PROVE  WakeupInv'
  <2>1. UNCHANGED <<hookVars, ready, mapVars, capturing>>
    BY <1>14 DEF Wake, WaitTimeout, LockTimeout, eventVars
  <2>2. \A s \in Targets : WillSignal(s) => WillSignal(s)'
    BY <2>1 DEF WillSignal, hookVars
  <2>3. \A s \in Targets : s = t
    BY DEF SingleTarget
  <2>4. CASE Wake(t)
    <3>1. ~ready[t] /\ (capturing[t] => cpc'[t] = "lock")
      BY <2>4 DEF Wake, SessionInv, SourceTypes
    <3> QED
      BY <2>1, <2>3, <3>1 DEF WakeupInv
  <2>5. CASE WaitTimeout(t)
    BY <2>1, <2>2, <2>3, <2>5 DEF WaitTimeout, WakeupInv, eventVars, hookVars, mapVars
  <2>6. CASE LockTimeout(t)
    <3>1. owner[t] \in Renderers
      BY <2>3, <2>6 DEF LockTimeout, MutexTypes
    <3>2. WillSignal(t)
      BY <3>1 DEF MutexInv, WillSignal, InRegion
    <3> QED
      BY <2>2, <2>3, <3>2 DEF WakeupInv
  <2> QED BY <1>14, <2>4, <2>5, <2>6
<1>15. ASSUME NEW t \in Targets, Lock(t)
       PROVE  WakeupInv'
  BY <1>15 DEF Lock, SourceTypes, SessionInv, WakeupInv, WillSignal, hookVars, eventVars, mutexVars, mapVars, sourceVars
<1>16. ASSUME NEW t \in Targets, LockAbandoned(t)
       PROVE  WakeupInv'
  BY <1>16 DEF LockAbandoned, SingleTarget, MapInv, Readable, MutexTypes, WakeupInv, WillSignal, hookVars, eventVars, mutexVars, mapVars, sourceVars
<1>17. ASSUME NEW t \in Targets, ReadPacket(t)
       PROVE  WakeupInv'
  BY <1>17 DEF ReadPacket, HookInv, HookTypes, MutexInv, SessionInv, MapInv, WakeupInv, MapTypes, SourceTypes, EventTypes, InHook, InRegion, WillSignal, Readable, SingleTarget, Maps, MutexTypes, hookVars, eventVars, mutexVars, mapVars, sourceVars, history
<1>18. ASSUME NEW t \in Targets, EndRead(t)
       PROVE  WakeupInv'
  BY <1>18 DEF EndRead, SingleTarget, MapInv, SourceTypes, WakeupInv, WillSignal, hookVars, eventVars, mutexVars, mapVars, sourceVars
<1>19. ASSUME NEW t \in Targets, TargetDies(t)
       PROVE  WakeupInv'
  BY <1>19 DEF TargetDies, HookTypes, WakeupInv, WillSignal, hookVars, eventVars, mutexVars, mapVars, sourceVars
<1>20. ASSUME NEW t \in Targets, SourceDies(t)
       PROVE  WakeupInv'
  BY <1>20 DEF SourceDies, SourceTypes, WakeupInv, WillSignal, hookVars, eventVars, mutexVars, mapVars, sourceVars
<1>21. CASE UNCHANGED vars
  BY <1>21 DEF vars, WakeupInv, WillSignal, hookVars, eventVars, mapVars, sourceVars
<1> QED
  BY <1>1, <1>2, <1>3, <1>4, <1>5, <1>6, <1>7, <1>8, <1>9, <1>10, <1>11,
     <1>12, <1>13, <1>14, <1>15, <1>16, <1>17, <1>18, <1>19, <1>20, <1>21
     DEF Next, Renderer, OutAudio, Tick, StopCapture, CaptureThread
-----------------------------------------------------------------------------
(* The theorems. *)

\* The invariant holds of a process whose hook has just been initialised.
LEMMA InitInv == Init => IInv
<1> SUFFICES ASSUME Init PROVE Facts
  BY FactsOfIInv
<1>1. HookTypes
  BY DEF Init, HookTypes, RendererStates
<1>2. EventTypes
  BY DEF Init, EventTypes
<1>3. MutexTypes
  BY DEF Init, MutexTypes
<1>4. MapTypes
  <2>1. 0 \in 0..BufferSize /\ NoPackets \in [Offsets -> Packets \cup {Empty}]
    BY DEF NoPackets
  <2> QED
    BY <2>1 DEF Init, MapTypes
<1>5. SourceTypes
  BY DEF Init, SourceTypes, SessionStates, CaptureStates
<1>6. HistoryTypes
  BY DEF Init, HistoryTypes
<1>7. HookInv
  BY DEF Init, HookInv, InHook, InRegion
<1>8. MutexInv
  BY DEF Init, MutexInv
<1>9. SessionInv
  BY DEF Init, SessionInv
<1>10. WholePackets
  BY DEF Init, WholePackets
<1>11. MapInv
  BY DEF Init, MapInv, Readable
<1>12. WakeupInv
  BY DEF Init, WakeupInv
<1> QED
  BY <1>1, <1>2, <1>3, <1>4, <1>5, <1>6, <1>7, <1>8, <1>9, <1>10, <1>11, <1>12 DEF Facts

\* ... and every step keeps it: the six lemmas above, one conjunct each.
LEMMA Inductive == SingleTarget /\ IInv /\ [Next]_vars => IInv'
<1> SUFFICES ASSUME SingleTarget, Facts, [Next]_vars PROVE IInv'
  BY FactsOfIInv
<1> QED
  BY TypeStep, HookStep, MutexStep, SessionStep, PacketStep, MapStep, WakeupStep DEF IInv

\* The inductive invariant holds in every reachable state: the sessions, the
\* two locks and the map of a process agree at every step of its threads.
THEOREM Invariance == SingleTarget => (Spec => []IInv)
<1> SUFFICES ASSUME SingleTarget PROVE Spec => []IInv
  OBVIOUS
<1>1. Init => IInv
  BY InitInv
<1>2. IInv /\ [Next]_vars => IInv'
  BY Inductive
<1> QED
  BY <1>1, <1>2, PTL DEF Spec

\* available_audio_size stays within the buffer and never wraps, nor does the
\* offset the capture thread reads at leave the buffer.
THEOREM TypeCorrect == SingleTarget => (Spec => []TypeOK)
<1>1. IInv => TypeOK
  BY DEF IInv
<1> QED
  BY <1>1, Invariance, PTL

\* A renderer that writes and the capture thread that reads are never in the
\* map at the same time, abandoned mutexes and crashes notwithstanding.
THEOREM Exclusion == SingleTarget => (Spec => []RegionExclusive)
<1> SUFFICES ASSUME SingleTarget PROVE Spec => []RegionExclusive
  OBVIOUS
<1>1. IInv => RegionExclusive
  <2> SUFFICES ASSUME Facts PROVE RegionExclusive
    BY FactsOfIInv
  <2>1. ASSUME NEW r \in Renderers, NEW q \in Renderers,
               ProcessOf[r] = ProcessOf[q], pc[r] \in InRegion, pc[q] \in InRegion
        PROVE  r = q
    BY <2>1 DEF Facts, HookInv
  <2>2. ASSUME NEW r \in Renderers, pc[r] \in InRegion PROVE cpc[ProcessOf[r]] # "read"
    BY <2>2, RendererAlone DEF Facts
  <2> QED
    BY <2>1, <2>2 DEF RegionExclusive
<1> QED
  BY <1>1, Invariance, PTL

\* The capture thread always has the map the hook publishes in.
THEOREM Mapped == SingleTarget => (Spec => []NoUseAfterUnmap)
<1>1. IInv => NoUseAfterUnmap
  BY FactsOfIInv DEF Facts, SessionInv, NoUseAfterUnmap
<1> QED
  BY <1>1, Invariance, PTL

\* start_capture, which does not look, never starts a second capture thread.
THEOREM OneCaptureThread == SingleTarget => (Spec => []NoSecondStart)
<1>1. IInv => NoSecondStart
  BY FactsOfIInv DEF Facts, SessionInv, NoSecondStart
<1> QED
  BY <1>1, Invariance, PTL

\* The capture thread walks whole packets, in the order they were published.
THEOREM Whole == SingleTarget => (Spec => []WholePackets)
<1>1. IInv => WholePackets
  BY DEF IInv
<1> QED
  BY <1>1, Invariance, PTL

\* A packet is never published without a wake-up to come.
THEOREM WokenUp == SingleTarget => (Spec => []NoLostWakeup)
<1>1. IInv => NoLostWakeup
  <2> SUFFICES ASSUME Facts, NEW t \in Targets,
                      cpc[t] \in {"top", "wait"}, avail[view[t]] > 0, alive[t], capturing[t]
               PROVE  dataEvent[t] \/ WillSignal(t)
    BY FactsOfIInv DEF NoLostWakeup
  <2>1. view[t] = mapId[t]
    BY DEF Facts, SessionInv
  <2> QED
    BY <2>1 DEF Facts, WakeupInv
<1> QED
  BY <1>1, Invariance, PTL

\* Only a crash of OBS can make its capture thread keep the mutex.
THEOREM NoQuietLeak == SingleTarget => (Spec => []LeakNeedsCrash)
<1>1. IInv => LeakNeedsCrash
  BY FactsOfIInv DEF Facts, MutexInv, LeakNeedsCrash
<1> QED
  BY <1>1, Invariance, PTL

\* The hook and the capture thread implement the stream of packets a map
\* promises: Commit is its Put, ReadPacket its Get, the rest stutters.
THEOREM Implements == SingleTarget => (Spec => StreamSpec)
<1> SUFFICES ASSUME SingleTarget PROVE Spec => StreamSpec
  OBVIOUS
<1>1. Init => Stream!Init
  BY DEF Init, Stream!Init
<1>2. ASSUME IInv, [Next]_vars PROVE [Stream!Next]_(Stream!vars)
  <2>1. Facts
    BY <1>2, FactsOfIInv
  <2>2. ASSUME NEW r \in Renderers, Commit(r) PROVE Stream!Next
    <3>1. /\ mapId[ProcessOf[r]] \in Maps
          /\ sent' = [sent EXCEPT ![mapId[ProcessOf[r]]] = @ + 1]
      BY <2>1, <2>2, CommitFacts
    <3>2. UNCHANGED got
      BY <2>2 DEF Commit
    <3> QED
      BY <3>1, <3>2 DEF Stream!Next, Stream!Put
  <2>3. ASSUME NEW t \in Targets, ReadPacket(t) PROVE Stream!Next
    <3> DEFINE id == mapId[t]
               packet == mem[id][offset[t]]
    <3>1. /\ id \in Maps /\ packet.n = got[id] + 1 /\ packet.n <= sent[id]
          /\ got' = [got EXCEPT ![id] = packet.n]
      BY <2>1, <2>3, ReadFacts
    <3>2. UNCHANGED sent
      BY <2>3 DEF ReadPacket
    <3>3. got[id] \in Int /\ sent[id] \in Int
      BY <2>1, <3>1 DEF Facts, HistoryTypes
    <3> HIDE DEF packet, id
    <3>4. got[id] < sent[id]
      BY <3>1, <3>3
    <3> QED
      BY <3>1, <3>2, <3>4 DEF Stream!Next, Stream!Get
  <2>4. ASSUME NEW r \in Renderers, Renderer(r), ~Commit(r) PROVE UNCHANGED history
    BY <2>4 DEF Renderer, OutAudio, CaptureCheck, OutInactive, OutAudioData, TryMutex, Drop,
                WriteData, Release, Signal
  <2>5. ASSUME NEW t \in Targets, Tick(t) PROVE UNCHANGED history
    BY <2>5 DEF Tick, StopCapture, Attach, AttachDone, AttachFail, StartCapture, StopBegin,
                StopJoin, StopClose
  <2>6. ASSUME NEW t \in Targets, CaptureThread(t), ~ReadPacket(t) PROVE UNCHANGED history
    BY <2>6 DEF CaptureThread, LoopTop, Wake, WaitTimeout, Lock, LockAbandoned, LockTimeout, EndRead
  <2>7. ASSUME NEW t \in Targets, TargetDies(t) \/ SourceDies(t) PROVE UNCHANGED history
    BY <2>7 DEF TargetDies, SourceDies
  <2>8. UNCHANGED vars => UNCHANGED history
    BY DEF vars
  <2> QED
    BY <1>2, <2>2, <2>3, <2>4, <2>5, <2>6, <2>7, <2>8 DEF Next, Stream!vars, history
<1>3. Spec => []IInv
  BY Invariance
<1> QED
  BY <1>1, <1>2, <1>3, PTL DEF Spec, StreamSpec, Stream!Spec
=============================================================================
