---------------------------- MODULE MixerProofs ----------------------------
(***************************************************************************)
(* Proofs about Mixer, for any number of clients and of sessions, any      *)
(* sizes, lateness and thresholds: the accounts of the buffering, the      *)
(* stream of ticks that OBS is given, the correction of the time stamps,   *)
(* the order of the sounds, and that none is heard twice.                  *)
(*                                                                         *)
(* The invariant IInv is a conjunction of parts, each about some           *)
(* variables.  A step can only disturb the parts that speak of what it     *)
(* changes.  OnceInv, which is proved on top of it, is about the buffers   *)
(* between being mixed and being discarded.                                *)
(***************************************************************************)
EXTENDS Mixer, AudioChannelProofs, WellFoundedInduction

\* The hooked process, and the session.
HookInv ==
  /\ scenario \in Scenarios /\ now \in 1..scenario.end
  /\ rendered \in [Clients -> Nat] /\ \A c \in Clients : rendered[c] <= now
  /\ playing \subseteq Clients
  /\ flight \in Seq(Packets)
  /\ capturing \in BOOLEAN /\ sessions \in 0..scenario.sessions

\* A packet of those released, not too late.
Due(p) ==
  /\ p \in Packets /\ 1 <= p.ts /\ p.ts <= rendered[p.client]
  /\ now <= p.ts + scenario.late

\* Packet q begins after p, of the same client, has ended.
After(p, q) == p.client = q.client => p.ts + PacketTime <= q.ts

\* The packets come one after the other.
TravelInv ==
  /\ \A k \in DOMAIN flight : Due(flight[k])
  /\ \A j, k \in DOMAIN flight :
       j < k => flight[j].ts <= flight[k].ts /\ After(flight[j], flight[k])
  /\ cpc \in {"output", "place"} =>
       Due(packet) /\ \A k \in DOMAIN flight : After(packet, flight[k])

\* The capture thread.
CaptureInv ==
  /\ order \in Seq(Clients) /\ IsInjective(order)
  /\ cpc \in {"off", "wait", "output", "place"}
  /\ packet \in Packets \cup {NoPacket}

Ahead == Max({0, scenario.late - MaxVar})

\* The channels, and the times of their last packets.
ChannelInv ==
  /\ channel \in [Clients -> Channel]
  /\ \A c \in Clients :
       /\ Len(channel[c].buf) <= MaxBuf
       /\ channel[c].adjust <= scenario.late
       /\ channel[c].nextTs + channel[c].adjust < now + Smooth + PacketTime + Ahead

\* A channel that was reset begins where the packet will be placed.
ResetInv ==
  cpc = "place" => channel[packet.client].nextSys = channel[packet.client].audioTs

\* A channel has been picked.
Ready(ch) == ch.pending \/ Len(ch.out) = Block

\* The rounds of the mix thread.
RoundInv ==
  /\ mpc \in {"off", "sleep", "pick", "find", "mark", "refind", "buffer", "mix", "discard"}
  /\ mixing \in 0..Len(order)
  /\ IF mpc \in {"pick", "mix"} THEN i \in 1..mixing ELSE i = 1
  /\ mpc = "pick" => \A k \in 1..(i - 1) : Ready(channel[order[k]])
  /\ mpc \in {"find", "mark", "refind", "buffer", "mix"} =>
       \A k \in 1..mixing : Ready(channel[order[k]])

\* The accounts of the buffering.  All the ticks held back are in line, not only
\* the one in front: it is at work, and the next one will be.
AccountInv ==
  /\ ts \in Interval /\ minTs \in Int
  /\ queue \in Seq(Interval)
  /\ wait \in Nat /\ total \in 0..MaxTicks /\ bufferedTs \in Int
  /\ wait <= total
  /\ Len(queue) = total + (IF mpc \in {"off", "sleep"} THEN 0 ELSE 1)
  /\ \A k \in 1..wait : queue[k].start = bufferedTs - (wait + 1 - k) * Tick
  /\ mpc \notin {"off", "sleep"} => ts.start = queue[1].start
  /\ mpc \in {"pick", "find", "mark", "refind", "buffer"} => minTs = ts.start \/ minTs \in Nat
  /\ BehindIsBuffered

\* Tick y comes after tick x.
Follows(x, y) ==
  \/ y = x + Tick
  \/ sessions > 1 /\ y >= x

\* The ticks that OBS was and will be given: lastOut, those of the queue that do
\* not wait, and the one to begin next.
LineInv ==
  /\ audioTime \in Nat /\ lastOut \in Int /\ lastOut <= now
  /\ sessions = 0 => mpc = "off" /\ queue = <<>> /\ lastOut = 0
  /\ \A k \in DOMAIN queue : k > wait => queue[k].start <= now
  /\ \A k \in DOMAIN queue : k > wait /\ k < Len(queue) => Follows(queue[k].start, queue[k + 1].start)
  /\ Len(queue) > wait => Follows(queue[Len(queue)].start, audioTime)
  /\ lastOut # 0 => Follows(lastOut, IF Len(queue) > wait THEN queue[wait + 1].start ELSE audioTime)

\* The time before which all of client c's sounds so far are.
Limit(c) == IF rendered[c] = 0 THEN 0 ELSE rendered[c] + Delay + PacketTime

\* What is in a buffer comes before what is on its way.
SoundInv ==
  /\ \A c \in Clients :
       /\ Ordered(channel[c].buf) /\ Ordered(channel[c].out)
       /\ Below(channel[c].buf, Limit(c))
  /\ \A k \in DOMAIN flight : Below(channel[flight[k].client].buf, flight[k].ts + Delay)
  /\ cpc \in {"output", "place"} => Below(channel[packet.client].buf, packet.ts + Delay)

\* What was heard.
HeardInv ==
  /\ lost \subseteq Clients
  /\ heard \in [Clients -> SUBSET (Nat \X Int)]
  /\ unheard \in [Clients -> Nat]
  /\ \A c \in Clients : \A g, h \in heard[c] : g[1] < h[1] => g[2] < h[2]

IInv ==
  /\ HookInv /\ TravelInv /\ CaptureInv /\ ChannelInv /\ ResetInv
  /\ RoundInv /\ AccountInv /\ LineInv /\ SoundInv /\ HeardInv
-----------------------------------------------------------------------------
(* The constants, and the operators of the model. *)

\* What a scenario may be.
LEMMA ScenarioFacts ==
  ASSUME scenario \in Scenarios
  PROVE  /\ scenario.late \in Nat /\ scenario.end \in Nat /\ scenario.sessions \in Nat
         /\ scenario.end <= Horizon /\ scenario.clients \subseteq Clients
         /\ scenario.quiet \in BOOLEAN /\ scenario.late <= Horizon /\ Horizon \in Nat
<1>1. scenario \in Scenario /\ Horizon \in Nat
  BY MixerAssumption
<1>2. QED
  BY <1>1 DEF Scenario

\* A packet has frames, and lasts.
LEMMA PacketFacts == Packet \in Nat \ {0} /\ PacketTime \in Nat \ {0} /\ PacketTime = Packet * Frame
BY ChannelAssumption, MixerAssumption DEF PacketTime, FramesToTime

\* How far ahead of the clock lateness can put a channel.
LEMMA AheadFacts ==
  ASSUME scenario \in Scenarios
  PROVE  Ahead \in Nat /\ scenario.late - MaxVar <= Ahead
<1> DEFINE S == {0, scenario.late - MaxVar}
           m == IF 0 >= scenario.late - MaxVar THEN 0 ELSE scenario.late - MaxVar
<1>1. scenario.late \in Nat /\ MaxVar \in Nat
  BY ScenarioFacts, ChannelAssumption
<1>2. m \in S /\ \A y \in S : m >= y
  BY <1>1
<1>3. Max(S) \in S /\ \A y \in S : Max(S) >= y
  BY <1>2 DEF Max
<1>4. QED
  BY <1>1, <1>3 DEF Ahead

\* A set of natural numbers that is not empty has a least element.
LEMMA LeastFacts ==
  ASSUME NEW A, A \subseteq Nat, A # {}
  PROVE  \E x \in A : \A y \in A : x <= y
<1>1. IsWellFoundedOn(OpToRel(<, Nat), Nat)
  BY NatLessThanWellFounded
<1>2. PICK x \in A : \A y \in A : ~(<<y, x>> \in OpToRel(<, Nat))
  BY <1>1, WFMin
<1>3. \A y \in A : x <= y
  <2> SUFFICES ASSUME NEW y \in A, ~(x <= y)
               PROVE  FALSE
    OBVIOUS
  <2>1. x \in Nat /\ y \in Nat /\ y < x
    OBVIOUS
  <2>2. QED
    BY <2>1, <1>2 DEF OpToRel
<1>4. QED
  BY <1>3

\* The time of the channel that is furthest behind, or of the tick at work.
LEMMA MinFacts ==
  ASSUME NEW m \in Int, NEW A, A \subseteq Nat
  PROVE  /\ Min({m} \cup A) \in Int /\ Min({m} \cup A) <= m
         /\ Min({m} \cup A) = m \/ Min({m} \cup A) \in A
<1> DEFINE S == {m} \cup A
<1>1. \E x \in S : \A y \in S : x <= y
  <2>1. CASE A = {}
    BY <2>1
  <2>2. CASE A # {}
    <3>1. PICK x \in A : \A y \in A : x <= y
      BY <2>2, LeastFacts
    <3>2. x \in Int /\ A \subseteq Int
      OBVIOUS
    <3>3. CASE m <= x
      <4>1. \A y \in A : m <= y
        BY <3>1, <3>2, <3>3
      <4>2. QED
        BY <4>1
    <3>4. CASE ~(m <= x)
      <4>1. x <= m
        BY <3>2, <3>4
      <4>2. QED
        BY <4>1, <3>1
    <3>5. QED
      BY <3>3, <3>4
  <2>3. QED
    BY <2>1, <2>2
<1>2. m \in S /\ S \subseteq Int /\ \A y \in S : y = m \/ y \in A
  OBVIOUS
<1> HIDE DEF S
<1>3. Min(S) \in S /\ \A y \in S : Min(S) <= y
  BY <1>1 DEF Min
<1>4. Min(S) \in Int /\ Min(S) <= m /\ (Min(S) = m \/ Min(S) \in A)
  BY <1>2, <1>3
<1>5. QED
  BY <1>4, Zenon DEF S

\* The samples of a packet are heard one after the other, from the delay after
\* its time stamp to the end of the packet.
LEMMA SampleFacts ==
  ASSUME NEW p \in Packets
  PROVE  LET s == Samples(p)
         IN /\ s \in Seq(Nat) /\ Len(s) = Packet /\ Ordered(s)
            /\ \A k \in DOMAIN s : s[k] # 0 => s[k] >= p.ts + Delay
            /\ \A u \in Int : u >= p.ts + Delay + PacketTime => Below(s, u)
<1> DEFINE e(k) == IF p.silent THEN 0 ELSE p.ts + Delay + FramesToTime(k - 1)
           s == Samples(p)
<1>1. /\ p.ts \in Nat /\ Delay \in Nat /\ Frame \in Nat \ {0} /\ Packet \in Nat
      /\ PacketTime = Packet * Frame
  BY ChannelAssumption, PacketFacts DEF Packets
<1>2. ASSUME NEW k \in 1..Packet
      PROVE  FramesToTime(k - 1) \in Nat /\ FramesToTime(k - 1) < PacketTime
  <2>1. (k - 1) * Frame = k * Frame - Frame /\ k * Frame <= Packet * Frame /\ (k - 1) * Frame >= 0
    BY <1>1
  <2>2. (k - 1) * Frame \in Int /\ k * Frame \in Int /\ Packet * Frame \in Int
    BY <1>1
  <2>3. QED
    BY <2>1, <2>2, <1>1 DEF FramesToTime
<1>3. s = [k \in 1..Packet |-> e(k)]
  BY DEF Samples
<1>4. \A k \in 1..Packet : /\ e(k) \in Nat
                           /\ e(k) # 0 => e(k) >= p.ts + Delay /\ e(k) < p.ts + Delay + PacketTime
  <2> SUFFICES ASSUME NEW k \in 1..Packet
               PROVE  /\ e(k) \in Nat
                      /\ e(k) # 0 => e(k) >= p.ts + Delay /\ e(k) < p.ts + Delay + PacketTime
    OBVIOUS
  <2>1. FramesToTime(k - 1) \in Nat /\ FramesToTime(k - 1) < PacketTime
    BY <1>2
  <2>2. PacketTime \in Nat
    BY PacketFacts
  <2>3. QED
    BY <2>1, <2>2, <1>1
<1>5. \A j, k \in 1..Packet : j < k /\ e(j) # 0 /\ e(k) # 0 => e(j) < e(k)
  <2> SUFFICES ASSUME NEW j \in 1..Packet, NEW k \in 1..Packet, j < k, ~p.silent
               PROVE  FramesToTime(j - 1) < FramesToTime(k - 1)
    BY <1>1, <1>2
  <2>1. (k - 1) * Frame = (j - 1) * Frame + (k - j) * Frame /\ (k - j) * Frame > 0
    BY <1>1
  <2>2. (k - 1) * Frame \in Int /\ (j - 1) * Frame \in Int /\ (k - j) * Frame \in Int
    BY <1>1
  <2>3. QED
    BY <2>1, <2>2 DEF FramesToTime
<1> HIDE DEF e
<1>6. s \in [1..Packet -> Nat]
  BY <1>3, <1>4
<1>7. s \in Seq(Nat) /\ Len(s) = Packet /\ DOMAIN s = 1..Packet
  <2>1. \A g, m : m \in Nat /\ g \in [1..m -> Nat] => g \in Seq(Nat) /\ Len(g) = m /\ DOMAIN g = 1..m
    OBVIOUS
  <2> HIDE DEF s
  <2>2. QED
    BY <1>1, <1>6, <2>1
<1>8. \A k \in 1..Packet : s[k] = e(k)
  BY <1>3
<1> HIDE DEF s
<1>9. Ordered(s)
  BY <1>5, <1>7, <1>8 DEF Ordered
<1>10. \A u \in Int : u >= p.ts + Delay + PacketTime => Below(s, u)
  <2> SUFFICES ASSUME NEW u \in Int, u >= p.ts + Delay + PacketTime, NEW k \in DOMAIN s, s[k] # 0
               PROVE  s[k] < u
    BY DEF Below
  <2>1. s[k] = e(k) /\ e(k) \in Nat /\ e(k) < p.ts + Delay + PacketTime
    BY <1>4, <1>7, <1>8
  <2>2. QED
    BY <2>1, <1>1, PacketFacts
<1>11. QED
  BY <1>4, <1>7, <1>8, <1>9, <1>10 DEF s

\* The ticks to put before one that began t after min_ts: enough, but for less
\* than a frame, and less than one too many.
LEMMA BehindFacts ==
  ASSUME NEW t \in Nat
  PROVE  LET n == TicksBehind(t)
         IN n \in Nat /\ n * Tick \in Nat /\ t - Frame < n * Tick /\ n * Tick < t + Tick
<1> DEFINE f == TimeToFrames(t)
           n == TicksBehind(t)
<1>1. Block \in Nat \ {0} /\ Frame \in Nat \ {0} /\ Tick = Block * Frame
  BY ChannelAssumption, TickFacts
<1>2. f \in Nat /\ f * Frame <= t /\ t < f * Frame + Frame
  BY <1>1, Division DEF TimeToFrames
<1> HIDE DEF f
<1>3. n = (f + Block - 1) \div Block
  BY DEF TicksBehind, f
<1> DEFINE x == f + Block - 1
<1>4. x \in Nat
  BY <1>1, <1>2
<1> HIDE DEF x
<1>5. n \in Nat /\ n * Block <= x /\ x < n * Block + Block
  BY <1>1, <1>3, <1>4, Division DEF x
<1> HIDE DEF n
<1>6. f <= n * Block /\ n * Block < f + Block
  BY <1>1, <1>2, <1>5 DEF x
<1> DEFINE m == n * Block
<1>7. m \in Nat /\ n * Tick = m * Frame
  BY <1>1, <1>5
<1> HIDE DEF m
<1>8. f <= m /\ m <= f + Block - 1
  BY <1>1, <1>2, <1>6, <1>7 DEF m
<1>9. f * Frame <= m * Frame
  BY <1>1, <1>2, <1>7, <1>8
<1>10. m * Frame <= (f + Block - 1) * Frame /\ (f + Block - 1) * Frame = f * Frame + Block * Frame - Frame
  BY <1>1, <1>2, <1>7, <1>8
<1>11. f * Frame \in Int /\ m * Frame \in Nat /\ Block * Frame \in Int
  BY <1>1, <1>2, <1>7
<1>12. QED
  BY <1>1, <1>2, <1>5, <1>7, <1>9, <1>10, <1>11 DEF n

\* A tick is an interval that begins where it should, unless it ends before time does.
LEMMA SpanFacts ==
  ASSUME NEW s \in Int, s + Tick >= 0
  PROVE  Span(s) \in Interval /\ Span(s).start = s
BY TickFacts DEF Span, Interval
-----------------------------------------------------------------------------
(* A step that changes none of the variables of a part leaves it true. *)

\* The hooked process,
LEMMA HookStays ==
  ASSUME HookInv, UNCHANGED <<scenario, now, rendered, playing, flight, capturing, sessions>>
  PROVE  HookInv'
BY DEF HookInv

\* the packets on their way,
LEMMA TravelStays ==
  ASSUME TravelInv, UNCHANGED <<scenario, now, rendered, flight, cpc, packet>>
  PROVE  TravelInv'
BY DEF TravelInv, Due, After

\* the capture thread,
LEMMA CaptureStays ==
  ASSUME CaptureInv, UNCHANGED <<cpc, packet, order>>
  PROVE  CaptureInv'
BY DEF CaptureInv

\* the channels,
LEMMA ChannelStays ==
  ASSUME ChannelInv, UNCHANGED <<scenario, now, channel>>
  PROVE  ChannelInv'
BY DEF ChannelInv, Ahead

\* a reset,
LEMMA ResetStays ==
  ASSUME ResetInv, UNCHANGED <<cpc, packet, channel>>
  PROVE  ResetInv'
BY DEF ResetInv

\* the rounds of the mix thread,
LEMMA RoundStays ==
  ASSUME RoundInv, UNCHANGED <<mpc, i, mixing, order, channel>>
  PROVE  RoundInv'
BY DEF RoundInv, Ready

\* the accounts of the buffering,
LEMMA AccountStays ==
  ASSUME AccountInv, UNCHANGED <<mpc, ts, minTs, queue, wait, total, bufferedTs>>
  PROVE  AccountInv'
BY DEF AccountInv, BehindIsBuffered

\* the line of the ticks,
LEMMA LineStays ==
  ASSUME LineInv, UNCHANGED <<mpc, queue, wait, audioTime, lastOut, now, sessions>>
  PROVE  LineInv'
BY DEF LineInv, Follows

\* the order of the sounds,
LEMMA SoundStays ==
  ASSUME SoundInv, UNCHANGED <<channel, rendered, flight, cpc, packet>>
  PROVE  SoundInv'
BY DEF SoundInv, Limit

\* and what was heard, stay when their variables do.
LEMMA HeardStays ==
  ASSUME HeardInv, UNCHANGED <<lost, heard, unheard>>
  PROVE  HeardInv'
BY DEF HeardInv
-----------------------------------------------------------------------------
(* The hooked process, and time. *)

\* Nothing is on its way at the beginning.
LEMMA InitStep == ASSUME Init PROVE IInv
<1>1. /\ scenario \in Scenarios /\ now = 1 /\ scenario.late \in Nat /\ scenario.end \in Nat \ {0}
      /\ scenario.sessions \in Nat /\ Ahead \in Nat
  <2>1. scenario \in Scenarios
    BY DEF Init
  <2>2. scenario.end # 0
    BY <2>1, MixerAssumption DEF Scenario
  <2>3. QED
    BY <2>1, <2>2, ScenarioFacts, AheadFacts DEF Init
<1>2. Created \in Channel /\ Created.buf = <<>> /\ Created.out = <<>> /\ Created.adjust = 0 /\ Created.nextTs = 0
  BY ChannelAssumption DEF Created, Channel
<1>3. HookInv
  <2>1. /\ scenario \in Scenarios /\ rendered = [c \in Clients |-> 0] /\ playing = {}
        /\ flight = <<>> /\ capturing = FALSE /\ sessions = 0
    BY DEF Init
  <2>2. flight \in Seq(Packets)
    BY <2>1
  <2>3. rendered \in [Clients -> Nat] /\ \A c \in Clients : rendered[c] <= now
    BY <2>1, <1>1
  <2>4. now \in 1..scenario.end /\ sessions \in 0..scenario.sessions
    BY <2>1, <1>1
  <2>5. QED
    BY <2>1, <2>2, <2>3, <2>4 DEF HookInv
<1>4. TravelInv
  BY DEF Init, TravelInv
<1>5. CaptureInv
  BY DEF Init, CaptureInv, IsInjective
<1>6. ChannelInv
  <2>1. Smooth \in Nat \ {0} /\ PacketTime \in Nat /\ MaxBuf \in Nat /\ Len(<<>>) = 0
    BY ChannelAssumption, PacketFacts
  <2>2. channel = [c \in Clients |-> Created]
    BY DEF Init
  <2>3. QED
    BY <1>1, <1>2, <2>1, <2>2 DEF ChannelInv
<1>7. ResetInv
  BY DEF Init, ResetInv
<1>8. RoundInv
  BY DEF Init, RoundInv
<1>9. AccountInv
  <2>1. MaxTicks \in Nat /\ NoTick \in Interval
    BY MixerAssumption DEF NoTick, Interval
  <2>2. QED
    BY <2>1 DEF Init, AccountInv, BehindIsBuffered
<1>10. LineInv
  BY <1>1 DEF Init, LineInv
<1>11. SoundInv
  BY <1>2, EmptyFacts DEF Init, SoundInv, Limit
<1>12. HeardInv
  BY DEF Init, HeardInv
<1>13. QED
  BY <1>3, <1>4, <1>5, <1>6, <1>7, <1>8, <1>9, <1>10, <1>11, <1>12 DEF IInv
-----------------------------------------------------------------------------
(* Sequences that grow behind, and are read in front. *)

\* The elements of a sequence with one more,
LEMMA AppendFacts ==
  ASSUME NEW S, NEW s \in Seq(S), NEW e \in S
  PROVE  LET t == Append(s, e)
         IN /\ t \in Seq(S) /\ Len(s) \in Nat /\ Len(t) = Len(s) + 1
            /\ DOMAIN s = 1..Len(s) /\ DOMAIN t = 1..(Len(s) + 1)
            /\ \A k \in 1..Len(s) : t[k] = s[k]
            /\ t[Len(s) + 1] = e
OBVIOUS

\* of two sequences, one behind the other,
LEMMA ConcatFacts ==
  ASSUME NEW S, NEW a \in Seq(S), NEW b \in Seq(S)
  PROVE  LET t == a \o b
         IN /\ t \in Seq(S) /\ Len(t) = Len(a) + Len(b) /\ DOMAIN t = 1..(Len(a) + Len(b))
            /\ \A k \in 1..Len(a) : t[k] = a[k]
            /\ \A k \in DOMAIN t : k > Len(a) => t[k] = b[k - Len(a)]
OBVIOUS

\* and of a sequence without its first.
LEMMA TailFacts ==
  ASSUME NEW S, NEW s \in Seq(S), s # <<>>
  PROVE  LET t == Tail(s)
         IN /\ Len(s) \in Nat \ {0} /\ DOMAIN s = 1..Len(s) /\ Head(s) = s[1] /\ s[1] \in S
            /\ t \in Seq(S) /\ Len(t) = Len(s) - 1 /\ DOMAIN t = 1..(Len(s) - 1)
            /\ \A k \in 1..(Len(s) - 1) : t[k] = s[k + 1] /\ k + 1 \in 1..Len(s)
OBVIOUS
-----------------------------------------------------------------------------
(* The hooked process, and time. *)

\* The queue of the ticks, and how long it is.
LEMMA QueueFacts ==
  ASSUME AccountInv
  PROVE  /\ queue \in Seq(Interval) /\ Len(queue) \in Nat /\ DOMAIN queue = 1..Len(queue)
         /\ \A k \in DOMAIN queue : queue[k].start \in Int /\ queue[k].end \in Nat
         /\ wait \in Nat /\ total \in Nat /\ wait <= total /\ wait <= Len(queue)
         /\ mpc \in {"off", "sleep"} => Len(queue) = total
         /\ mpc \notin {"off", "sleep"} => Len(queue) = total + 1
<1>1. /\ queue \in Seq(Interval) /\ wait \in Nat /\ total \in 0..MaxTicks /\ wait <= total
      /\ Len(queue) = total + (IF mpc \in {"off", "sleep"} THEN 0 ELSE 1)
  BY DEF AccountInv
<1>2. \A k \in DOMAIN queue : queue[k] \in Interval
  BY <1>1
<1>3. Len(queue) \in Nat /\ DOMAIN queue = 1..Len(queue) /\ total \in Nat
  BY <1>1, MixerAssumption
<1>4. wait <= Len(queue)
  BY <1>1, <1>3
<1>5. QED
  BY <1>1, <1>2, <1>3, <1>4 DEF Interval

\* A packet that is released comes after all that are on their way, and after
\* the sounds of its client.
LEMMA ReleaseStep == ASSUME IInv, NEW c \in Clients, Release(c) PROVE IInv'
<1>1. /\ HookInv /\ TravelInv /\ CaptureInv /\ ChannelInv /\ ResetInv
      /\ RoundInv /\ AccountInv /\ LineInv /\ SoundInv /\ HeardInv
  BY DEF IInv
<1>2. PICK silent \in BOOLEAN : flight' = Append(flight, [client |-> c, ts |-> now, silent |-> silent])
  <2>1. scenario.quiet \in BOOLEAN
    BY <1>1, ScenarioFacts DEF HookInv
  <2>2. QED
    BY <2>1 DEF Release
<1> DEFINE p == [client |-> c, ts |-> now, silent |-> silent]
           n == Len(flight) + 1
<1>3. /\ now \in Nat \ {0} /\ now <= scenario.end /\ scenario.late \in Nat
      /\ PacketTime \in Nat \ {0} /\ Delay \in Nat
  <2>1. scenario \in Scenarios /\ now \in 1..scenario.end
    BY <1>1 DEF HookInv
  <2>2. scenario.end \in Nat /\ scenario.late \in Nat
    BY <2>1, ScenarioFacts
  <2>3. PacketTime \in Nat \ {0} /\ Delay \in Nat
    BY PacketFacts, ChannelAssumption
  <2>4. QED
    BY <2>1, <2>2, <2>3
<1>4. p \in Packets /\ p.client = c /\ p.ts = now
  BY <1>3 DEF Packets
<1> HIDE DEF p
<1>5. /\ flight' \in Seq(Packets) /\ Len(flight) \in Nat /\ flight'[n] = p
      /\ DOMAIN flight = 1..Len(flight) /\ DOMAIN flight' = 1..n
      /\ \A k \in 1..Len(flight) : flight'[k] = flight[k]
  <2>1. flight' = Append(flight, p) /\ flight \in Seq(Packets)
    BY <1>1, <1>2 DEF p, HookInv
  <2>2. QED
    BY <2>1, <1>4, AppendFacts
<1>6. \A k \in DOMAIN flight' :
         \/ k \in DOMAIN flight /\ flight'[k] = flight[k]
         \/ k = n /\ flight'[k] = p
  BY <1>5
<1>7. /\ UNCHANGED <<scenario, now, sessionVars, channelVars, captureVars, mixVars,
                     bufferingVars, lastOut, heard, lost>>
      /\ cpc \in {"off", "wait"}
      /\ rendered' = [rendered EXCEPT ![c] = now]
      /\ rendered[c] = 0 \/ rendered[c] + PacketTime <= now
  BY DEF Release, AtRest
<1>8. /\ rendered \in [Clients -> Nat]
      /\ rendered'[c] = now /\ \A d \in Clients : d # c => rendered'[d] = rendered[d]
      /\ \A d \in Clients : rendered[d] <= rendered'[d] /\ rendered'[d] <= now
  <2>1. rendered \in [Clients -> Nat] /\ \A d \in Clients : rendered[d] <= now
    BY <1>1 DEF HookInv
  <2>2. QED
    BY <2>1, <1>3, <1>7
<1>9. HookInv'
  <2>1. rendered' \in [Clients -> Nat] /\ playing' \subseteq Clients
    BY <1>1, <1>3, <1>7 DEF HookInv, Release
  <2>2. QED
    BY <2>1, <1>1, <1>5, <1>7, <1>8 DEF HookInv, sessionVars
<1>10. \A k \in DOMAIN flight : /\ flight[k] \in Packets /\ flight[k].ts \in Nat /\ flight[k].client \in Clients
                                /\ flight[k].ts <= now /\ 1 <= flight[k].ts
                                /\ flight[k].ts <= rendered[flight[k].client]
  BY <1>1, <1>3 DEF TravelInv, Due, Packets, HookInv
<1>11. TravelInv'
  <2> DEFINE D(q) == /\ q \in Packets /\ 1 <= q.ts /\ q.ts <= rendered'[q.client]
                     /\ now <= q.ts + scenario.late
  <2>1. D(p)
    BY <1>3, <1>4, <1>8
  <2>2. ASSUME NEW k \in DOMAIN flight
        PROVE  D(flight[k])
    <3>1. now <= flight[k].ts + scenario.late
      BY <1>1 DEF TravelInv, Due
    <3>2. rendered[flight[k].client] \in Nat /\ rendered'[flight[k].client] \in Nat
      BY <1>8, <1>10, <1>9 DEF HookInv
    <3>3. QED
      BY <3>1, <3>2, <1>8, <1>10
  <2>3. \A k \in DOMAIN flight' : D(flight'[k])
    BY <1>6, <2>1, <2>2
  <2>4. ASSUME NEW k \in DOMAIN flight
        PROVE  flight[k].ts <= p.ts /\ After(flight[k], p)
    BY <1>3, <1>4, <1>7, <1>8, <1>10 DEF After
  <2> HIDE DEF D
  <2>5. \A j, k \in DOMAIN flight' :
          j < k => flight'[j].ts <= flight'[k].ts /\ After(flight'[j], flight'[k])
    <3> SUFFICES ASSUME NEW j \in DOMAIN flight', NEW k \in DOMAIN flight', j < k
                 PROVE  flight'[j].ts <= flight'[k].ts /\ After(flight'[j], flight'[k])
      OBVIOUS
    <3>1. j \in DOMAIN flight /\ flight'[j] = flight[j]
      BY <1>5
    <3>2. CASE k \in DOMAIN flight /\ flight'[k] = flight[k]
      BY <3>1, <3>2, <1>1 DEF TravelInv
    <3>3. CASE flight'[k] = p
      BY <3>1, <3>3, <2>4
    <3>4. QED
      BY <3>2, <3>3, <1>6
  <2>6. \A k \in DOMAIN flight' : Due(flight[k])'
    BY <2>3, <1>7 DEF D, Due
  <2>7. cpc' \notin {"output", "place"}
    BY <1>7 DEF captureVars
  <2>8. QED
    BY <2>5, <2>6, <2>7 DEF TravelInv, After
<1>12. SoundInv'
  <2>1. \A d \in Clients : channel'[d] = channel[d] /\ channel[d].buf \in Seq(Nat)
    BY <1>1, <1>7 DEF ChannelInv, Channel, channelVars
  <2>2. Below(channel[c].buf, now + Delay)
    <3>1. Limit(c) \in Int /\ now + Delay \in Int /\ Limit(c) <= now + Delay
      BY <1>3, <1>7, <1>8 DEF Limit
    <3>2. QED
      BY <3>1, <2>1, <1>1, BelowLater DEF SoundInv
  <2>3. ASSUME NEW d \in Clients
        PROVE  Below(channel[d].buf, Limit(d)')
    <3>1. CASE d = c
      <4>1. Limit(c)' = now + Delay + PacketTime
        BY <1>3, <1>8 DEF Limit
      <4>2. now + Delay + PacketTime \in Int /\ now + Delay \in Int /\ now + Delay <= now + Delay + PacketTime
        BY <1>3
      <4>3. QED
        BY <4>1, <4>2, <3>1, <2>1, <2>2, BelowLater
    <3>2. CASE d # c
      BY <3>2, <1>1, <1>8 DEF SoundInv, Limit
    <3>3. QED
      BY <3>1, <3>2
  <2>4. \A k \in DOMAIN flight' : Below(channel[flight'[k].client].buf, flight'[k].ts + Delay)
    BY <1>1, <1>4, <1>6, <2>2 DEF SoundInv
  <2>5. QED
    BY <2>1, <2>3, <2>4, <1>1, <1>7, <1>9 DEF SoundInv, captureVars, HookInv, channelVars
<1>13. HeardInv'
  <2>1. unheard' \in [Clients -> Nat]
    BY <1>1 DEF HeardInv, Release
  <2>2. QED
    BY <2>1, <1>1, <1>7 DEF HeardInv
<1>14. /\ CaptureInv' /\ ChannelInv' /\ ResetInv' /\ RoundInv' /\ AccountInv' /\ LineInv'
  BY <1>1, <1>7, CaptureStays, ChannelStays, ResetStays, RoundStays, AccountStays, LineStays
     DEF sessionVars, channelVars, captureVars, mixVars, bufferingVars
<1>15. QED
  BY <1>9, <1>11, <1>12, <1>13, <1>14 DEF IInv

\* When time passes no packet becomes too late, for the first is the oldest.
LEMMA PassStep == ASSUME IInv, Pass PROVE IInv'
<1>1. /\ HookInv /\ TravelInv /\ CaptureInv /\ ChannelInv /\ ResetInv
      /\ RoundInv /\ AccountInv /\ LineInv /\ SoundInv /\ HeardInv
  BY DEF IInv
<1>2. /\ UNCHANGED <<scenario, hookVars, sessionVars, channelVars, captureVars, mixVars,
                     bufferingVars, history>>
      /\ cpc \in {"off", "wait"} /\ now' = now + 1 /\ now < scenario.end
      /\ flight # <<>> => now < Head(flight).ts + scenario.late
  BY DEF Pass, AtRest
<1>3. /\ now \in Nat \ {0} /\ scenario.end \in Nat /\ scenario.late \in Nat
      /\ rendered \in [Clients -> Nat] /\ \A c \in Clients : rendered[c] <= now
      /\ flight \in Seq(Packets)
  BY <1>1, ScenarioFacts DEF HookInv
<1>4. HookInv'
  <2>1. now' \in 1..scenario.end /\ \A c \in Clients : rendered[c] <= now'
    BY <1>2, <1>3
  <2>2. QED
    BY <2>1, <1>1, <1>2 DEF HookInv, hookVars, sessionVars
<1>5. TravelInv'
  <2>1. \A k \in DOMAIN flight : now' <= flight[k].ts + scenario.late
    <3> SUFFICES ASSUME NEW k \in DOMAIN flight
                 PROVE  now' <= flight[k].ts + scenario.late
      OBVIOUS
    <3> flight # <<>>
      BY <1>3
    <3>a. /\ Len(flight) \in Nat \ {0} /\ DOMAIN flight = 1..Len(flight)
          /\ Head(flight) = flight[1] /\ flight[1] \in Packets
      BY <1>3, TailFacts
    <3>1. 1 \in DOMAIN flight /\ k \in Nat /\ (k = 1 \/ 1 < k) /\ flight[k] \in Packets
      BY <3>a, <1>3
    <3>2. flight[1].ts <= flight[k].ts /\ flight[1].ts \in Nat /\ flight[k].ts \in Nat
      BY <3>1, <3>a, <1>1 DEF TravelInv, Packets
    <3>3. QED
      BY <3>1, <3>a, <3>2, <1>2, <1>3
  <2>2. \A k \in DOMAIN flight : Due(flight[k])'
    BY <2>1, <1>1, <1>2 DEF TravelInv, Due, hookVars
  <2>3. QED
    BY <2>2, <1>1, <1>2 DEF TravelInv, After, hookVars, captureVars
<1>6. ChannelInv'
  <2>1. \A c \in Clients : channel[c].nextTs \in Nat /\ channel[c].adjust \in Nat
    BY <1>1 DEF ChannelInv, Channel
  <2>2. Smooth \in Nat /\ PacketTime \in Nat /\ Ahead \in Nat /\ Ahead' = Ahead
    BY <1>1, <1>2, ChannelAssumption, PacketFacts, AheadFacts DEF HookInv, Ahead
  <2>3. \A c \in Clients : channel[c].nextTs + channel[c].adjust < now' + Smooth + PacketTime + Ahead'
    BY <2>1, <2>2, <1>1, <1>2, <1>3 DEF ChannelInv
  <2>4. QED
    BY <2>3, <1>1, <1>2 DEF ChannelInv, channelVars
<1>7. LineInv'
  <2>1. lastOut <= now' /\ \A k \in DOMAIN queue : k > wait => queue[k].start <= now'
    <3>1. \A k \in DOMAIN queue : queue[k].start \in Int
      BY <1>1, QueueFacts
    <3>2. QED
      BY <3>1, <1>1, <1>2, <1>3 DEF LineInv
  <2>2. QED
    BY <2>1, <1>1, <1>2 DEF LineInv, Follows, mixVars, bufferingVars, history, sessionVars
<1>8. CaptureInv' /\ ResetInv' /\ RoundInv' /\ AccountInv' /\ SoundInv' /\ HeardInv'
  BY <1>1, <1>2, CaptureStays, ResetStays, RoundStays, AccountStays, SoundStays, HeardStays
     DEF hookVars, channelVars, captureVars, mixVars, bufferingVars, history
<1>9. QED
  BY <1>4, <1>5, <1>6, <1>7, <1>8 DEF IInv

\* A new session begins its ticks at the clock, which is past all those before.
LEMMA StartStep == ASSUME IInv, Start PROVE IInv'
<1>1. /\ HookInv /\ TravelInv /\ CaptureInv /\ ChannelInv /\ ResetInv
      /\ RoundInv /\ AccountInv /\ LineInv /\ SoundInv /\ HeardInv
  BY DEF IInv
<1>2. /\ UNCHANGED <<scenario, now, hookVars, channelVars, packet, i, mixing, ts, minTs,
                     bufferingVars, history>>
      /\ cpc = "off" /\ cpc' = "wait" /\ mpc = "off" /\ mpc' = "sleep"
      /\ capturing' = TRUE /\ sessions' = sessions + 1 /\ sessions < scenario.sessions
      /\ audioTime' = now
  BY DEF Start
<1>3. now \in Nat /\ sessions \in Nat /\ scenario.sessions \in Nat
  BY <1>1, ScenarioFacts DEF HookInv
<1>4. HookInv'
  <2>1. sessions' \in 0..scenario.sessions
    BY <1>2, <1>3
  <2>2. QED
    BY <2>1, <1>1, <1>2 DEF HookInv, hookVars
<1>5. TravelInv'
  BY <1>1, <1>2 DEF TravelInv, Due, After, hookVars
<1>6. CaptureInv'
  BY <1>1, <1>2 DEF CaptureInv, channelVars
<1>7. ResetInv'
  BY <1>2 DEF ResetInv
<1>8. RoundInv'
  BY <1>1, <1>2 DEF RoundInv, channelVars
<1>9. AccountInv'
  BY <1>1, <1>2 DEF AccountInv, BehindIsBuffered, bufferingVars
<1>10. LineInv'
  <2>1. UNCHANGED <<now, queue, wait, lastOut>>
    BY <1>2 DEF bufferingVars, history
  <2>2. /\ queue \in Seq(Interval) /\ wait \in Nat /\ lastOut \in Int
        /\ Len(queue) \in Nat /\ DOMAIN queue = 1..Len(queue)
        /\ \A k \in DOMAIN queue : queue[k].start \in Int
    BY <1>1, QueueFacts DEF LineInv
  <2>3. sessions' # 0 /\ audioTime' \in Nat
    BY <1>2, <1>3
  <2>4. CASE sessions = 0
    <3>1. queue = <<>> /\ lastOut = 0 /\ Len(queue) = 0 /\ DOMAIN queue = {}
      BY <2>4, <1>1 DEF LineInv
    <3>2. QED
      BY <3>1, <2>1, <2>2, <2>3, <1>1 DEF LineInv
  <2>5. CASE sessions # 0
    <3>1. sessions' > 1
      BY <2>5, <1>2, <1>3
    <3>2. \A x \in Int : x <= now => audioTime' >= x
      BY <1>2, <1>3
    <3>3. lastOut' <= now' /\ \A k \in DOMAIN queue' : k > wait' => queue'[k].start <= now'
      BY <2>1, <1>1 DEF LineInv
    <3>4. \A k \in DOMAIN queue' : k > wait' /\ k < Len(queue') =>
             Follows(queue[k].start, queue[k + 1].start)'
      BY <2>1, <3>1, <1>1 DEF LineInv, Follows
    <3>5. Len(queue) > wait => Len(queue) \in DOMAIN queue /\ wait + 1 \in DOMAIN queue
      BY <2>2
    <3>6. Len(queue) > wait => queue[Len(queue)].start <= now
      BY <3>5, <1>1, <2>2 DEF LineInv
    <3>7. Len(queue') > wait' => Follows(queue[Len(queue)].start, audioTime)'
      BY <2>1, <2>2, <3>1, <3>2, <3>5, <3>6 DEF Follows
    <3>8. lastOut # 0 => IF Len(queue) > wait THEN Follows(lastOut, queue[wait + 1].start)
                         ELSE sessions' > 1 /\ lastOut <= audioTime'
      BY <2>2, <3>1, <3>2, <1>1 DEF LineInv
    <3>9. lastOut' # 0 => Follows(lastOut, IF Len(queue) > wait THEN queue[wait + 1].start ELSE audioTime)'
      <4>1. CASE Len(queue) > wait
        BY <4>1, <2>1, <3>1, <3>8 DEF Follows
      <4>2. CASE ~(Len(queue) > wait)
        BY <4>2, <2>1, <3>1, <3>8 DEF Follows
      <4>3. QED
        BY <4>1, <4>2
    <3>10. QED
      BY <2>1, <2>2, <2>3, <3>3, <3>4, <3>7, <3>9 DEF LineInv
  <2>6. QED
    BY <2>4, <2>5
<1>11. SoundInv'
  BY <1>1, <1>2 DEF SoundInv, Limit, hookVars, channelVars
<1>12. ChannelInv' /\ HeardInv'
  BY <1>1, <1>2, ChannelStays, HeardStays DEF channelVars, history
<1>13. QED
  BY <1>4, <1>5, <1>6, <1>7, <1>8, <1>9, <1>10, <1>11, <1>12 DEF IInv

\* What stops is the source; the clients begin anew with the next session.
LEMMA StopStep == ASSUME IInv, Stop PROVE IInv'
<1>1. /\ HookInv /\ TravelInv /\ CaptureInv /\ ChannelInv /\ ResetInv
      /\ RoundInv /\ AccountInv /\ LineInv /\ SoundInv /\ HeardInv
  BY DEF IInv
<1>2. /\ UNCHANGED <<scenario, now, rendered, flight, sessions, channelVars, captureVars, mixVars,
                     bufferingVars, history>>
      /\ capturing' = FALSE /\ playing' = {}
  BY DEF Stop
<1>3. HookInv'
  BY <1>1, <1>2 DEF HookInv
<1>4. /\ TravelInv' /\ CaptureInv' /\ ChannelInv' /\ ResetInv' /\ RoundInv' /\ AccountInv'
      /\ LineInv' /\ SoundInv' /\ HeardInv'
  BY <1>1, <1>2, TravelStays, CaptureStays, ChannelStays, ResetStays, RoundStays, AccountStays,
     LineStays, SoundStays, HeardStays
     DEF channelVars, captureVars, mixVars, bufferingVars, history
<1>5. QED
  BY <1>3, <1>4 DEF IInv
-----------------------------------------------------------------------------
(* The capture thread. *)

\* The packet received is the first, and the others come after it.
LEMMA ReceiveStep == ASSUME IInv, Receive PROVE IInv'
<1>1. /\ HookInv /\ TravelInv /\ CaptureInv /\ ChannelInv /\ ResetInv
      /\ RoundInv /\ AccountInv /\ LineInv /\ SoundInv /\ HeardInv
  BY DEF IInv
<1>2. /\ UNCHANGED <<scenario, now, rendered, playing, sessionVars, channel, mixVars, bufferingVars, history>>
      /\ flight # <<>> /\ packet' = Head(flight) /\ flight' = Tail(flight)
      /\ cpc' = "output"
      /\ order' = IF Contains(order, Head(flight).client) THEN order
                  ELSE Append(order, Head(flight).client)
  BY DEF Receive
<1>3. /\ Len(flight) \in Nat \ {0} /\ DOMAIN flight = 1..Len(flight)
      /\ packet' = flight[1] /\ flight[1] \in Packets /\ flight' \in Seq(Packets)
      /\ DOMAIN flight' = 1..(Len(flight) - 1)
      /\ \A k \in 1..(Len(flight) - 1) : flight'[k] = flight[k + 1] /\ k + 1 \in 1..Len(flight)
  BY <1>1, <1>2, TailFacts DEF HookInv
<1>4. 1 \in DOMAIN flight
  BY <1>3
<1>5. \A k \in DOMAIN flight' : k \in Int /\ k + 1 \in DOMAIN flight /\ flight'[k] = flight[k + 1]
  BY <1>3
<1>6. HookInv'
  BY <1>1, <1>2, <1>3 DEF HookInv, sessionVars
<1>7. TravelInv'
  <2>1. \A k \in DOMAIN flight : /\ flight[k] \in Packets /\ 1 <= flight[k].ts
                                 /\ flight[k].ts <= rendered[flight[k].client]
                                 /\ now <= flight[k].ts + scenario.late
    BY <1>1 DEF TravelInv, Due
  <2>2. Due(packet)' /\ \A k \in DOMAIN flight' : Due(flight[k])'
    BY <2>1, <1>2, <1>3, <1>4, <1>5 DEF Due
  <2>3. \A j, k \in DOMAIN flight' :
          j < k => flight'[j].ts <= flight'[k].ts /\ After(flight'[j], flight'[k])
    <3> SUFFICES ASSUME NEW j \in DOMAIN flight', NEW k \in DOMAIN flight', j < k
                 PROVE  flight'[j].ts <= flight'[k].ts /\ After(flight'[j], flight'[k])
      OBVIOUS
    <3>1. j + 1 < k + 1
      BY <1>5
    <3>2. QED
      BY <3>1, <1>1, <1>5 DEF TravelInv
  <2>4. \A k \in DOMAIN flight' : After(packet', flight'[k])
    <3> SUFFICES ASSUME NEW k \in DOMAIN flight'
                 PROVE  After(flight[1], flight[k + 1])
      BY <1>3, <1>5
    <3>1. 1 < k + 1
      BY <1>3
    <3>2. QED
      BY <3>1, <1>1, <1>4, <1>5 DEF TravelInv
  <2>5. QED
    BY <2>2, <2>3, <2>4 DEF TravelInv, After
<1>8. /\ order' \in Seq(Clients) /\ IsInjective(order') /\ Len(order) <= Len(order')
      /\ \A k \in 1..Len(order) : order'[k] = order[k]
  <2> DEFINE c == Head(flight).client
  <2>1. c \in Clients /\ order \in Seq(Clients) /\ IsInjective(order) /\ Len(order) \in Nat
    BY <1>1, <1>3, <1>2 DEF CaptureInv, Packets
  <2>2. CASE Contains(order, c)
    BY <2>1, <2>2, <1>2
  <2>3. CASE ~Contains(order, c)
    <3>1. order' = Append(order, c)
      BY <2>3, <1>2
    <3> HIDE DEF c
    <3>2. /\ order' \in Seq(Clients) /\ Len(order') = Len(order) + 1
          /\ DOMAIN order = 1..Len(order) /\ DOMAIN order' = 1..(Len(order) + 1)
          /\ \A k \in 1..Len(order) : order'[k] = order[k]
          /\ order'[Len(order) + 1] = c
      BY <3>1, <2>1, AppendFacts
    <3>3. \A k \in 1..Len(order) : order[k] # c
      BY <2>3 DEF Contains
    <3>4. \A k \in DOMAIN order' : k \in 1..Len(order) \/ k = Len(order) + 1
      BY <3>2, <2>1
    <3>5. IsInjective(order')
      BY <3>2, <3>3, <3>4, <2>1 DEF IsInjective
    <3>6. QED
      BY <3>2, <3>5, <2>1
  <2>4. QED
    BY <2>2, <2>3
<1>9. CaptureInv'
  BY <1>2, <1>3, <1>8 DEF CaptureInv
<1>10. ResetInv'
  BY <1>2 DEF ResetInv
<1>11. RoundInv'
  <2>1. /\ UNCHANGED <<mpc, i, mixing, channel>>
        /\ Len(order) \in Nat /\ Len(order') \in Nat /\ mixing \in 0..Len(order)
        /\ i \in Int
    BY <1>1, <1>2, <1>8 DEF RoundInv, mixVars, CaptureInv
  <2>2. mixing' \in 0..Len(order')
    BY <2>1, <1>8
  <2>3. \A k \in 1..mixing : order'[k] = order[k]
    BY <2>1, <1>8
  <2>4. mpc = "pick" => \A k \in 1..(i - 1) : order'[k] = order[k]
    BY <2>1, <2>3, <1>1 DEF RoundInv
  <2>5. QED
    BY <2>1, <2>2, <2>3, <2>4, <1>1 DEF RoundInv, Ready
<1>12. SoundInv'
  <2>1. \A k \in DOMAIN flight : Below(channel[flight[k].client].buf, flight[k].ts + Delay)
    BY <1>1 DEF SoundInv
  <2>2. UNCHANGED <<channel, rendered>>
    BY <1>2
  <2>3. \A k \in DOMAIN flight' : Below(channel[flight'[k].client].buf, flight'[k].ts + Delay)
    BY <2>1, <1>5
  <2>4. Below(channel[packet'.client].buf, packet'.ts + Delay)
    BY <2>1, <1>3, <1>4
  <2>5. QED
    BY <2>2, <2>3, <2>4, <1>1 DEF SoundInv, Limit
<1>13. ChannelInv' /\ AccountInv' /\ LineInv' /\ HeardInv'
  BY <1>1, <1>2, ChannelStays, AccountStays, LineStays, HeardStays
     DEF mixVars, bufferingVars, history, sessionVars
<1>14. QED
  BY <1>6, <1>7, <1>9, <1>10, <1>11, <1>12, <1>13 DEF IInv

\* The packets on their way are dropped.
LEMMA CaptureLeavesStep == ASSUME IInv, CaptureLeaves PROVE IInv'
<1>1. /\ HookInv /\ TravelInv /\ CaptureInv /\ ChannelInv /\ ResetInv
      /\ RoundInv /\ AccountInv /\ LineInv /\ SoundInv /\ HeardInv
  BY DEF IInv
<1>2. /\ UNCHANGED <<scenario, now, rendered, playing, sessionVars, channelVars, packet, mixVars,
                     bufferingVars, history>>
      /\ cpc' = "off" /\ flight' = <<>>
  BY DEF CaptureLeaves
<1>3. HookInv'
  <2>1. <<>> \in Seq(Packets)
    OBVIOUS
  <2>2. QED
    BY <2>1, <1>1, <1>2 DEF HookInv, sessionVars
<1>4. TravelInv'
  BY <1>2 DEF TravelInv
<1>5. CaptureInv' /\ ResetInv'
  BY <1>1, <1>2 DEF CaptureInv, ResetInv, channelVars
<1>6. SoundInv'
  BY <1>1, <1>2 DEF SoundInv, Limit, channelVars
<1>7. ChannelInv' /\ RoundInv' /\ AccountInv' /\ LineInv' /\ HeardInv'
  BY <1>1, <1>2, ChannelStays, RoundStays, AccountStays, LineStays, HeardStays
     DEF channelVars, mixVars, bufferingVars, history, sessionVars
<1>8. QED
  BY <1>3, <1>4, <1>5, <1>6, <1>7 DEF IInv

\* The capture thread changes the channel of its packet to ch, and is done with
\* the packet, or has reset the channel to place it.
Puts(ch) ==
  LET c == packet.client
  IN /\ cpc \in {"output", "place"}
     /\ Bounded(ch) /\ ch.out = channel[c].out /\ ch.pending = channel[c].pending
     /\ ch.adjust <= scenario.late
     /\ ch.nextTs + ch.adjust < now + Smooth + PacketTime + Ahead
     /\ Ordered(ch.buf)
     /\ \A u \in Int : u >= packet.ts + Delay + PacketTime => Below(ch.buf, u)
     /\ channel' = [channel EXCEPT ![c] = ch]
     /\ lost' \in {lost, lost \cup {c}} /\ unheard' \in [Clients -> Nat]
     /\ \/ cpc' = "wait" /\ packet' = NoPacket
        \/ cpc' = "place" /\ packet' = packet /\ ch.buf = <<>> /\ ch.nextSys = ch.audioTs
     /\ UNCHANGED <<scenario, now, hookVars, sessionVars, order, mixVars, bufferingVars, lastOut, heard>>

\* A channel that is left ordered, within its limit, and near the clock, may be put
\* in place of the one before.
LEMMA PutsStep == ASSUME IInv, NEW ch, Puts(ch) PROVE IInv'
<1> DEFINE c == packet.client
<1>1. /\ HookInv /\ TravelInv /\ CaptureInv /\ ChannelInv /\ ResetInv
      /\ RoundInv /\ AccountInv /\ LineInv /\ SoundInv /\ HeardInv
  BY DEF IInv
<1>2. /\ cpc \in {"output", "place"}
      /\ Bounded(ch) /\ ch.out = channel[c].out /\ ch.pending = channel[c].pending
      /\ ch.adjust <= scenario.late
      /\ ch.nextTs + ch.adjust < now + Smooth + PacketTime + Ahead
      /\ Ordered(ch.buf)
      /\ \A u \in Int : u >= packet.ts + Delay + PacketTime => Below(ch.buf, u)
      /\ channel' = [channel EXCEPT ![c] = ch]
      /\ lost' \in {lost, lost \cup {c}} /\ unheard' \in [Clients -> Nat]
      /\ \/ cpc' = "wait" /\ packet' = NoPacket
         \/ cpc' = "place" /\ packet' = packet /\ ch.buf = <<>> /\ ch.nextSys = ch.audioTs
      /\ UNCHANGED <<scenario, now, rendered, playing, flight, sessionVars, order, mixVars,
                     bufferingVars, lastOut, heard>>
  BY DEF Puts, hookVars
<1>3. /\ packet \in Packets /\ c \in Clients /\ packet.ts \in Nat /\ 1 <= packet.ts
      /\ packet.ts <= rendered[c] /\ rendered[c] \in Nat
      /\ Delay \in Nat /\ PacketTime \in Nat
  BY <1>1, <1>2, ChannelAssumption, PacketFacts DEF TravelInv, Due, Packets, HookInv
<1>4. ch \in Channel /\ Len(ch.buf) <= MaxBuf
  BY <1>2 DEF Bounded
<1>5. /\ channel \in [Clients -> Channel] /\ channel' \in [Clients -> Channel]
      /\ channel'[c] = ch /\ \A d \in Clients : d # c => channel'[d] = channel[d]
  BY <1>1, <1>2, <1>3, <1>4 DEF ChannelInv
<1> HIDE DEF c
<1>6. HookInv'
  BY <1>1, <1>2, HookStays DEF sessionVars
<1>7. TravelInv'
  BY <1>1, <1>2 DEF TravelInv, Due, After
<1>8. CaptureInv'
  BY <1>1, <1>2 DEF CaptureInv
<1>9. ChannelInv'
  <2>1. Ahead' = Ahead
    BY <1>2 DEF Ahead
  <2>2. QED
    BY <2>1, <1>1, <1>2, <1>4, <1>5 DEF ChannelInv
<1>10. ResetInv'
  BY <1>2, <1>5 DEF ResetInv, c
<1>11. RoundInv'
  <2>1. \A d \in Clients : Ready(channel[d]) => Ready(channel'[d])
    BY <1>2, <1>5 DEF Ready, c
  <2>2. /\ UNCHANGED <<mpc, i, mixing, order>>
        /\ mixing \in 0..Len(order) /\ i \in Int /\ Len(order) \in Nat /\ order \in Seq(Clients)
    BY <1>1, <1>2 DEF RoundInv, mixVars, CaptureInv
  <2>3. \A k \in 1..mixing : order[k] \in Clients
    BY <2>2
  <2>4. mpc = "pick" => \A k \in 1..(i - 1) : order[k] \in Clients
    BY <2>2, <2>3, <1>1 DEF RoundInv
  <2>5. mpc = "pick" => \A k \in 1..(i - 1) : Ready(channel'[order[k]])
    BY <2>1, <2>4, <1>1 DEF RoundInv
  <2>6. mpc \in {"find", "mark", "refind", "buffer", "mix"} => \A k \in 1..mixing : Ready(channel'[order[k]])
    BY <2>1, <2>3, <1>1 DEF RoundInv
  <2>7. QED
    BY <2>2, <2>5, <2>6, <1>1 DEF RoundInv, Ready
<1>12. SoundInv'
  <2>1. ASSUME NEW d \in Clients
        PROVE  /\ Ordered(channel'[d].buf) /\ Ordered(channel'[d].out)
               /\ Below(channel'[d].buf, Limit(d)')
    <3>1. Limit(d)' = Limit(d)
      BY <1>2 DEF Limit
    <3>2. CASE d = c
      <4>1. Limit(c) \in Int /\ Limit(c) >= packet.ts + Delay + PacketTime
        BY <1>3 DEF Limit
      <4>2. Ordered(channel[c].out)
        BY <1>1, <1>3 DEF SoundInv
      <4>3. QED
        BY <3>1, <3>2, <4>1, <4>2, <1>2, <1>5 DEF c
    <3>3. CASE d # c
      BY <3>1, <3>3, <1>1, <1>5 DEF SoundInv
    <3>4. QED
      BY <3>2, <3>3
  <2>2. ASSUME NEW k \in DOMAIN flight
        PROVE  Below(channel'[flight[k].client].buf, flight[k].ts + Delay)
    <3>1. flight[k].client \in Clients /\ flight[k].ts \in Nat
      BY <1>1 DEF TravelInv, Due, Packets
    <3>2. CASE flight[k].client = c
      <4>1. packet.ts + PacketTime <= flight[k].ts
        BY <3>2, <1>1, <1>2 DEF TravelInv, After, c
      <4>2. flight[k].ts + Delay \in Int /\ flight[k].ts + Delay >= packet.ts + Delay + PacketTime
        BY <3>1, <4>1, <1>3
      <4>3. QED
        BY <3>2, <4>2, <1>2, <1>5
    <3>3. CASE flight[k].client # c
      BY <3>1, <3>3, <1>1, <1>5 DEF SoundInv
    <3>4. QED
      BY <3>2, <3>3
  <2>3. cpc' \in {"output", "place"} => Below(channel'[packet'.client].buf, packet'.ts + Delay)
    BY <1>2, <1>5, EmptyFacts DEF c
  <2>4. QED
    BY <2>1, <2>2, <2>3, <1>2 DEF SoundInv
<1>13. HeardInv'
  BY <1>1, <1>2, <1>3 DEF HeardInv
<1>14. AccountInv' /\ LineInv'
  BY <1>1, <1>2, AccountStays, LineStays DEF mixVars, bufferingVars, sessionVars
<1>15. QED
  BY <1>6, <1>7, <1>8, <1>9, <1>10, <1>11, <1>12, <1>13, <1>14 DEF IInv

\* The packet is output, and its channel becomes ch.
LEMMA OutputFacts ==
  ASSUME IInv, cpc \in {"output", "place"}, NEW ch, Output(packet, ch)
  PROVE  /\ channel' = [channel EXCEPT ![packet.client] = ch]
         /\ lost' \in {lost, lost \cup {packet.client}} /\ unheard' \in [Clients -> Nat]
         /\ cpc' = "wait" /\ packet' = NoPacket
<1>1. unheard \in [Clients -> Nat] /\ Packet \in Nat
  BY PacketFacts DEF IInv, HeardInv
<1>2. unheard' = [unheard EXCEPT ![packet.client] = unheard[packet.client] + Packet]
  BY DEF Output
<1>3. unheard' \in [Clients -> Nat]
  <2> DEFINE n == unheard[packet.client] + Packet
  <2>1. packet.client \in Clients => n \in Nat
    BY <1>1
  <2> HIDE DEF n
  <2>2. unheard' = [unheard EXCEPT ![packet.client] = n]
    BY <1>2 DEF n
  <2>3. QED
    BY <2>1, <2>2, <1>1
<1>4. QED
  BY <1>3 DEF Output

\* What the packet in hand may be, and its channel.
LEMMA PacketInHand ==
  ASSUME IInv, cpc \in {"output", "place"}
  PROVE  LET c == packet.client
             t == packet.ts + Delay
             s == Samples(packet)
         IN /\ packet \in Packets /\ c \in Clients /\ packet.ts \in Nat /\ t \in Int
            /\ packet.ts <= now /\ now - packet.ts <= scenario.late /\ now \in Nat
            /\ Bounded(channel[c]) /\ channel[c].adjust <= scenario.late
            /\ channel[c].nextTs + channel[c].adjust < now + Smooth + PacketTime + Ahead
            /\ Ordered(channel[c].buf) /\ Below(channel[c].buf, t)
            /\ s \in Seq(Nat) /\ Ordered(s) /\ \A k \in DOMAIN s : s[k] # 0 => s[k] >= t
            /\ \A u \in Int : u >= packet.ts + Delay + PacketTime => u >= t /\ Below(s, u)
            /\ scenario.late \in Nat /\ Ahead \in Nat /\ scenario.late - MaxVar <= Ahead
<1> DEFINE c == packet.client
<1>1. HookInv /\ TravelInv /\ ChannelInv /\ SoundInv
  BY DEF IInv
<1>2. Due(packet) /\ now \in Nat /\ scenario.late \in Nat /\ Ahead \in Nat /\ scenario.late - MaxVar <= Ahead
  BY <1>1, ScenarioFacts, AheadFacts DEF TravelInv, HookInv
<1>3. /\ packet \in Packets /\ c \in Clients /\ packet.ts \in Nat
      /\ packet.ts <= rendered[c] /\ now <= packet.ts + scenario.late
  BY <1>2 DEF Due, Packets
<1>4. rendered[c] \in Nat /\ rendered[c] <= now
  BY <1>1, <1>3 DEF HookInv
<1>5. packet.ts <= now /\ now - packet.ts <= scenario.late
  BY <1>2, <1>3, <1>4
<1>6. Delay \in Nat /\ PacketTime \in Nat
  BY ChannelAssumption, PacketFacts
<1>7. packet.ts + Delay \in Int /\ \A u \in Int : u >= packet.ts + Delay + PacketTime => u >= packet.ts + Delay
  BY <1>3, <1>6
<1>8. /\ Bounded(channel[c]) /\ channel[c].adjust <= scenario.late
      /\ channel[c].nextTs + channel[c].adjust < now + Smooth + PacketTime + Ahead
  BY <1>1, <1>3 DEF ChannelInv, Bounded
<1>9. Ordered(channel[c].buf) /\ Below(channel[c].buf, packet.ts + Delay)
  BY <1>1, <1>3 DEF SoundInv
<1>10. QED
  BY <1>2, <1>3, <1>5, <1>7, <1>8, <1>9, SampleFacts

\* A packet goes behind the last one, is placed by its time, or has its channel
\* reset; either way its sounds come after those of the channel.
LEMMA OutputAudioStep == ASSUME IInv, OutputAudio PROVE IInv'
<1> DEFINE c == packet.client
           samples == Samples(packet)
           t == packet.ts + Delay
           s == Stamped(channel[c], packet.ts, Packet, now)
<1>1. cpc \in {"output", "place"}
  BY DEF OutputAudio
<1>2. /\ packet \in Packets /\ c \in Clients /\ packet.ts \in Nat /\ t \in Int
      /\ packet.ts <= now /\ now - packet.ts <= scenario.late /\ now \in Nat
      /\ Bounded(channel[c]) /\ channel[c].adjust <= scenario.late
      /\ Ordered(channel[c].buf) /\ Below(channel[c].buf, t)
      /\ samples \in Seq(Nat) /\ Ordered(samples) /\ \A k \in DOMAIN samples : samples[k] # 0 => samples[k] >= t
      /\ \A u \in Int : u >= packet.ts + Delay + PacketTime => u >= t /\ Below(samples, u)
      /\ scenario.late \in Nat /\ Ahead \in Nat /\ scenario.late - MaxVar <= Ahead
  BY <1>1, PacketInHand
<1> HIDE DEF s, samples, t
<1>3. /\ Bounded(s.channel) /\ s.ts \in Nat
      /\ s.channel.buf = channel[c].buf /\ s.channel.out = channel[c].out
      /\ s.channel.pending = channel[c].pending /\ s.channel.adjust <= scenario.late
      /\ s.channel.nextTs + s.channel.adjust < now + Smooth + PacketTime + Ahead
  <2>1. Packet \in Nat /\ channel[c] \in Channel /\ Len(channel[c].buf) <= MaxBuf
        /\ PacketTime = FramesToTime(Packet)
    BY <1>2, PacketFacts DEF Bounded, PacketTime
  <2>2. /\ s.channel \in Channel /\ s.ts \in Nat
        /\ s.channel.buf = channel[c].buf /\ s.channel.out = channel[c].out
        /\ s.channel.pending = channel[c].pending /\ s.channel.adjust <= scenario.late
        /\ s.channel.nextTs + s.channel.adjust < now + Smooth + FramesToTime(Packet) + Ahead
    <3> DEFINE x == channel[c]
               at == packet.ts
               late == scenario.late
    <3>1. /\ x \in Channel /\ at \in Nat /\ Packet \in Nat /\ now \in Nat /\ at <= now
          /\ late \in Nat /\ now - at <= late /\ x.adjust <= late
          /\ Ahead \in Nat /\ late - MaxVar <= Ahead
      BY <2>1, <1>2
    <3>2. s = Stamped(x, at, Packet, now)
      BY DEF s
    <3> HIDE DEF x, at, late
    <3>3. LET r == Stamped(x, at, Packet, now)
          IN /\ r.channel \in Channel /\ r.ts \in Nat /\ r.pushBack \in BOOLEAN
             /\ r.channel.buf = x.buf /\ r.channel.out = x.out /\ r.channel.pending = x.pending
             /\ r.channel.audioTs = x.audioTs
             /\ r.channel.adjust <= late
             /\ r.channel.nextTs + r.channel.adjust < now + Smooth + FramesToTime(Packet) + Ahead
      BY <3>1, StampedFacts, Zenon
    <3>4. QED
      BY <3>2, <3>3 DEF x, late
  <2>3. Len(s.channel.buf) <= MaxBuf
    BY <2>1, <2>2
  <2>4. QED
    BY <2>1, <2>2, <2>3 DEF Bounded
<1>4. s.channel.audioTs \in Nat
  BY <1>3 DEF Bounded, Channel
<1>5. /\ UNCHANGED <<scenario, now, hookVars, sessionVars, order, mixVars, bufferingVars, lastOut, heard>>
      /\ \/ Output(packet, PushedBack(s.channel, samples))
         \/ ~NeedsReset(s.channel, s.ts) /\ Output(packet, Placed(s.channel, s.ts, samples))
         \/ /\ channel' = [channel EXCEPT ![c] = ResetData(s.channel, s.ts)]
            /\ lost' \in {lost, lost \cup {c}}
            /\ cpc' = "place"
            /\ UNCHANGED <<packet, unheard>>
  BY DEF OutputAudio, s, samples
<1>6. CASE Output(packet, PushedBack(s.channel, samples))
  <2> DEFINE ch == PushedBack(s.channel, samples)
  <2>1. /\ Bounded(ch) /\ ch.out = s.channel.out /\ ch.pending = s.channel.pending
        /\ ch.adjust = s.channel.adjust /\ ch.nextTs = s.channel.nextTs
        /\ Ordered(ch.buf) /\ \A u \in Int : u >= t /\ Below(samples, u) => Below(ch.buf, u)
    BY <1>2, <1>3, PushedBackFacts
  <2> HIDE DEF ch
  <2>2. /\ channel' = [channel EXCEPT ![c] = ch]
        /\ lost' \in {lost, lost \cup {c}} /\ unheard' \in [Clients -> Nat]
        /\ cpc' = "wait" /\ packet' = NoPacket
    BY <1>1, <1>6, OutputFacts DEF ch
  <2>3. \A u \in Int : u >= packet.ts + Delay + PacketTime => Below(ch.buf, u)
    BY <2>1, <1>2
  <2>4. Puts(ch)
    BY <2>1, <2>2, <2>3, <1>1, <1>3, <1>5 DEF Puts
  <2>5. QED
    BY <2>4, PutsStep
<1>7. CASE ~NeedsReset(s.channel, s.ts) /\ Output(packet, Placed(s.channel, s.ts, samples))
  <2> DEFINE ch == Placed(s.channel, s.ts, samples)
  <2>1. s.ts >= s.channel.audioTs
    BY <1>3, <1>4, <1>7 DEF NeedsReset
  <2>2. /\ Bounded(ch) /\ ch.out = s.channel.out /\ ch.pending = s.channel.pending
        /\ ch.adjust = s.channel.adjust /\ ch.nextTs = s.channel.nextTs
        /\ Ordered(ch.buf) /\ \A u \in Int : u >= t /\ Below(samples, u) => Below(ch.buf, u)
    BY <2>1, <1>2, <1>3, PlacedFacts
  <2> HIDE DEF ch
  <2>3. /\ channel' = [channel EXCEPT ![c] = ch]
        /\ lost' \in {lost, lost \cup {c}} /\ unheard' \in [Clients -> Nat]
        /\ cpc' = "wait" /\ packet' = NoPacket
    BY <1>1, <1>7, OutputFacts DEF ch
  <2>4. \A u \in Int : u >= packet.ts + Delay + PacketTime => Below(ch.buf, u)
    BY <2>2, <1>2
  <2>5. Puts(ch)
    BY <2>2, <2>3, <2>4, <1>1, <1>3, <1>5 DEF Puts
  <2>6. QED
    BY <2>5, PutsStep
<1>8. CASE /\ channel' = [channel EXCEPT ![c] = ResetData(s.channel, s.ts)]
           /\ lost' \in {lost, lost \cup {c}}
           /\ cpc' = "place"
           /\ UNCHANGED <<packet, unheard>>
  <2> DEFINE ch == ResetData(s.channel, s.ts)
  <2>1. /\ ch \in Channel /\ ch.buf = <<>> /\ ch.out = s.channel.out /\ ch.pending = s.channel.pending
        /\ ch.adjust = s.channel.adjust /\ ch.nextTs = s.channel.nextTs /\ ch.nextSys = ch.audioTs
    <3>1. s.channel \in Channel
      BY <1>3 DEF Bounded
    <3>2. QED
      BY <3>1, <1>3, ResetFacts
  <2> HIDE DEF ch
  <2>2. Bounded(ch)
    <3>1. Len(<<>>) = 0 /\ MaxBuf \in Nat
      BY ChannelAssumption
    <3>2. QED
      BY <3>1, <2>1 DEF Bounded
  <2>3. Ordered(ch.buf) /\ \A u \in Int : Below(ch.buf, u)
    BY <2>1, EmptyFacts
  <2>4. unheard' \in [Clients -> Nat]
    BY <1>8 DEF IInv, HeardInv
  <2>5. channel' = [channel EXCEPT ![c] = ch]
    BY <1>8 DEF ch
  <2>6. Puts(ch)
    BY <2>1, <2>2, <2>3, <2>4, <2>5, <1>1, <1>3, <1>5, <1>8 DEF Puts
  <2>7. QED
    BY <2>6, PutsStep
<1>9. QED
  BY <1>5, <1>6, <1>7, <1>8

\* After the reset the packet is placed at the beginning.
LEMMA PlaceStep == ASSUME IInv, Place PROVE IInv'
<1> DEFINE c == packet.client
           samples == Samples(packet)
           t == packet.ts + Delay
           ch == Placed(channel[c], channel[c].nextSys, samples)
<1>1. /\ cpc = "place" /\ Output(packet, ch)
      /\ UNCHANGED <<scenario, now, hookVars, sessionVars, order, mixVars, bufferingVars, lastOut, heard>>
  BY DEF Place
<1>2. /\ c \in Clients /\ t \in Int
      /\ Bounded(channel[c]) /\ channel[c].adjust <= scenario.late
      /\ channel[c].nextTs + channel[c].adjust < now + Smooth + PacketTime + Ahead
      /\ Ordered(channel[c].buf) /\ Below(channel[c].buf, t)
      /\ samples \in Seq(Nat) /\ Ordered(samples) /\ \A k \in DOMAIN samples : samples[k] # 0 => samples[k] >= t
      /\ \A u \in Int : u >= packet.ts + Delay + PacketTime => u >= t /\ Below(samples, u)
  BY <1>1, PacketInHand
<1>3. channel[c].nextSys \in Nat /\ channel[c].nextSys = channel[c].audioTs
  BY <1>1, <1>2 DEF IInv, ResetInv, Bounded, Channel
<1> HIDE DEF c, samples, t
<1>4. /\ Bounded(ch) /\ ch.out = channel[c].out /\ ch.pending = channel[c].pending
      /\ ch.adjust = channel[c].adjust /\ ch.nextTs = channel[c].nextTs
      /\ Ordered(ch.buf) /\ \A u \in Int : u >= t /\ Below(samples, u) => Below(ch.buf, u)
  <2>1. channel[c].nextSys >= channel[c].audioTs
    BY <1>3
  <2>2. QED
    BY <2>1, <1>2, <1>3, PlacedFacts
<1> HIDE DEF ch
<1>5. /\ channel' = [channel EXCEPT ![c] = ch]
      /\ lost' \in {lost, lost \cup {c}} /\ unheard' \in [Clients -> Nat]
      /\ cpc' = "wait" /\ packet' = NoPacket
  BY <1>1, OutputFacts DEF c
<1>6. \A u \in Int : u >= packet.ts + Delay + PacketTime => Below(ch.buf, u)
  BY <1>2, <1>4
<1>7. Puts(ch)
  BY <1>1, <1>2, <1>4, <1>5, <1>6 DEF Puts, c
<1>8. QED
  BY <1>7, PutsStep
-----------------------------------------------------------------------------
(* The mix thread. *)

\* A tick begins, and goes behind those that wait.
LEMMA FetchAudioStep == ASSUME IInv, FetchAudio PROVE IInv'
<1>1. /\ HookInv /\ TravelInv /\ CaptureInv /\ ChannelInv /\ ResetInv
      /\ RoundInv /\ AccountInv /\ LineInv /\ SoundInv /\ HeardInv
  BY DEF IInv
<1>2. /\ UNCHANGED <<scenario, now, hookVars, sessionVars, channelVars, captureVars, i, wait, total,
                     bufferedTs, history>>
      /\ mpc = "sleep" /\ audioTime <= now
      /\ queue' = Append(queue, Span(audioTime))
      /\ ts' = Head(queue') /\ minTs' = ts'.start
      /\ mixing' = Len(order) /\ audioTime' = audioTime + Tick
      /\ mpc' = IF order = <<>> THEN "find" ELSE "pick"
  BY DEF FetchAudio
<1> DEFINE n == Len(queue)
<1>3. /\ queue \in Seq(Interval) /\ n \in Nat /\ DOMAIN queue = 1..n
      /\ \A k \in DOMAIN queue : queue[k].start \in Int
      /\ wait \in Nat /\ total \in Nat /\ wait <= n /\ n = total /\ wait <= total
  BY <1>1, <1>2, QueueFacts
<1>4. /\ audioTime \in Nat /\ Tick \in Nat \ {0} /\ lastOut \in Int /\ now \in Nat
      /\ Span(audioTime) \in Interval /\ Span(audioTime).start = audioTime
  BY <1>1, TickFacts, SpanFacts DEF LineInv, HookInv
<1>5. /\ queue' \in Seq(Interval) /\ Len(queue') = n + 1 /\ DOMAIN queue' = 1..(n + 1)
      /\ \A k \in 1..n : queue'[k] = queue[k]
      /\ queue'[n + 1].start = audioTime
  BY <1>2, <1>3, <1>4, AppendFacts
<1>6. ts' = queue'[1] /\ ts' \in Interval /\ ts'.start \in Int
  <2>1. queue' # <<>>
    BY <1>3, <1>5
  <2>2. ts' = queue'[1] /\ ts' \in Interval
    BY <2>1, <1>2, <1>5, TailFacts
  <2>3. QED
    BY <2>2 DEF Interval
<1>7. RoundInv'
  <2>1. order \in Seq(Clients) /\ Len(order) \in Nat /\ order' = order /\ i = 1
    BY <1>1, <1>2 DEF CaptureInv, RoundInv, channelVars
  <2>2. CASE order = <<>>
    BY <2>1, <2>2, <1>2 DEF RoundInv
  <2>3. CASE order # <<>>
    <3>1. Len(order) >= 1
      BY <2>1, <2>3
    <3>2. QED
      BY <3>1, <2>1, <2>3, <1>2 DEF RoundInv
  <2>4. QED
    BY <2>2, <2>3
<1>8. AccountInv'
  <2>1. mpc' \in {"find", "pick"}
    BY <1>2
  <2>2. \A k \in 1..wait : queue'[k].start = bufferedTs - (wait + 1 - k) * Tick
    <3>1. \A k \in 1..wait : k \in 1..n
      BY <1>3
    <3>2. QED
      BY <3>1, <1>1, <1>5 DEF AccountInv
  <2>3. BehindIsBuffered'
    BY <2>1 DEF BehindIsBuffered
  <2>4. Len(queue') = total + 1 /\ UNCHANGED <<wait, total, bufferedTs>>
    BY <1>2, <1>3, <1>5
  <2>5. minTs' \in Int /\ minTs' = ts'.start /\ ts'.start = queue'[1].start
    BY <1>2, <1>6
  <2>6. QED
    BY <2>1, <2>2, <2>3, <2>4, <2>5, <1>1, <1>5, <1>6 DEF AccountInv
<1>9. LineInv'
  <2>1. UNCHANGED <<wait, lastOut, now, sessions>>
    BY <1>2 DEF history, sessionVars
  <2>2. audioTime' \in Nat /\ sessions # 0
    BY <1>1, <1>2, <1>4 DEF LineInv
  <2>3. \A k \in DOMAIN queue' : k > wait => queue'[k].start <= now
    <3> SUFFICES ASSUME NEW k \in DOMAIN queue', k > wait
                 PROVE  queue'[k].start <= now
      OBVIOUS
    <3>1. CASE k \in 1..n
      BY <3>1, <1>1, <1>3, <1>5 DEF LineInv
    <3>2. CASE k = n + 1
      BY <3>2, <1>2, <1>5
    <3>3. QED
      BY <3>1, <3>2, <1>3, <1>5
  <2>4. \A k \in DOMAIN queue' : k > wait /\ k < Len(queue') =>
           Follows(queue'[k].start, queue'[k + 1].start)
    <3> SUFFICES ASSUME NEW k \in DOMAIN queue', k > wait, k < Len(queue')
                 PROVE  Follows(queue'[k].start, queue'[k + 1].start)
      OBVIOUS
    <3>1. k \in 1..n /\ queue'[k] = queue[k]
      BY <1>3, <1>5
    <3>2. CASE k < n
      <4>1. k + 1 \in 1..n /\ queue'[k + 1] = queue[k + 1]
        BY <3>1, <3>2, <1>3, <1>5
      <4>2. QED
        BY <3>1, <3>2, <4>1, <1>1, <1>3 DEF LineInv
    <3>3. CASE k = n
      BY <3>1, <3>3, <1>1, <1>3, <1>5 DEF LineInv
    <3>4. QED
      BY <3>1, <3>2, <3>3, <1>3
  <2>5. Follows(queue'[n + 1].start, audioTime')
    BY <1>2, <1>5 DEF Follows
  <2>6. Len(queue') > wait
    BY <1>3, <1>5
  <2>7. lastOut # 0 => Follows(lastOut, queue'[wait + 1].start)
    <3>1. CASE n > wait
      <4>1. wait + 1 \in 1..n
        BY <3>1, <1>3
      <4>2. QED
        BY <3>1, <4>1, <1>1, <1>5 DEF LineInv
    <3>2. CASE n = wait
      BY <3>2, <1>1, <1>3, <1>5 DEF LineInv
    <3>3. QED
      BY <3>1, <3>2, <1>3
  <2>8. QED
    BY <2>1, <2>2, <2>3, <2>4, <2>5, <2>6, <2>7, <1>1, <1>5 DEF LineInv, Follows
<1>10. /\ HookInv' /\ TravelInv' /\ CaptureInv' /\ ChannelInv' /\ ResetInv' /\ SoundInv' /\ HeardInv'
  BY <1>1, <1>2, HookStays, TravelStays, CaptureStays, ChannelStays, ResetStays, SoundStays, HeardStays
     DEF hookVars, sessionVars, channelVars, captureVars, history
<1>11. QED
  BY <1>7, <1>8, <1>9, <1>10 DEF IInv

\* The mix thread ends, and leaves the queue.
LEMMA MixLeavesStep == ASSUME IInv, MixLeaves PROVE IInv'
<1>1. /\ HookInv /\ TravelInv /\ CaptureInv /\ ChannelInv /\ ResetInv
      /\ RoundInv /\ AccountInv /\ LineInv /\ SoundInv /\ HeardInv
  BY DEF IInv
<1>2. /\ UNCHANGED <<scenario, now, hookVars, sessionVars, channelVars, captureVars, i, audioTime, mixing,
                     ts, minTs, bufferingVars, history>>
      /\ mpc = "sleep" /\ mpc' = "off"
  BY DEF MixLeaves
<1>3. RoundInv'
  BY <1>1, <1>2 DEF RoundInv, channelVars
<1>4. AccountInv'
  BY <1>1, <1>2 DEF AccountInv, BehindIsBuffered, bufferingVars
<1>5. LineInv'
  BY <1>1, <1>2 DEF LineInv, Follows, bufferingVars, history, sessionVars
<1>6. /\ HookInv' /\ TravelInv' /\ CaptureInv' /\ ChannelInv' /\ ResetInv' /\ SoundInv' /\ HeardInv'
  BY <1>1, <1>2, HookStays, TravelStays, CaptureStays, ChannelStays, ResetStays, SoundStays, HeardStays
     DEF hookVars, sessionVars, channelVars, captureVars, history
<1>7. QED
  BY <1>3, <1>4, <1>5, <1>6 DEF IInv

\* The channels of the list are of clients.
LEMMA ListedFacts ==
  ASSUME CaptureInv, RoundInv
  PROVE  /\ order \in Seq(Clients) /\ Len(order) \in Nat /\ mixing \in 0..Len(order)
         /\ \A k \in 1..Len(order) : order[k] \in Clients
         /\ Listed \subseteq Clients
BY DEF CaptureInv, RoundInv, Listed

\* A channel is picked while the capture thread is not placing a packet into it.
LEMMA PickStep == ASSUME IInv, Pick PROVE IInv'
<1> DEFINE c == order[i]
           d == Picked(channel[c])
<1>1. /\ HookInv /\ TravelInv /\ CaptureInv /\ ChannelInv /\ ResetInv
      /\ RoundInv /\ AccountInv /\ LineInv /\ SoundInv /\ HeardInv
  BY DEF IInv
<1>2. /\ UNCHANGED <<scenario, now, hookVars, sessionVars, order, captureVars, audioTime, mixing, ts, minTs,
                     bufferingVars, history>>
      /\ mpc = "pick" /\ ~AudioBufHeld(c)
      /\ channel' = [channel EXCEPT ![c] = d]
      /\ IF i < mixing THEN i' = i + 1 /\ mpc' = mpc ELSE i' = 1 /\ mpc' = "find"
  BY DEF Pick, Round
<1>3. /\ Len(order) \in Nat /\ mixing \in 0..Len(order) /\ i \in 1..mixing /\ c \in Clients
      /\ \A k \in 1..mixing : order[k] \in Clients
  <2>1. /\ Len(order) \in Nat /\ mixing \in 0..Len(order) /\ i \in 1..mixing
        /\ \A k \in 1..Len(order) : order[k] \in Clients
    BY <1>1, <1>2, ListedFacts DEF RoundInv
  <2>2. \A k \in 1..mixing : k \in 1..Len(order)
    BY <2>1
  <2>3. QED
    BY <2>1, <2>2
<1> HIDE DEF c
<1>4. /\ Bounded(d) /\ d.buf = channel[c].buf /\ d.adjust = channel[c].adjust
      /\ d.nextTs = channel[c].nextTs /\ Ordered(d.out) /\ (d.pending \/ Len(d.out) = Block)
  <2>1. Bounded(channel[c]) /\ Ordered(channel[c].buf) /\ Ordered(channel[c].out)
    BY <1>1, <1>3 DEF ChannelInv, SoundInv, Bounded
  <2>2. QED
    BY <2>1, PickedFacts
<1> HIDE DEF d
<1>5. /\ channel \in [Clients -> Channel] /\ channel' \in [Clients -> Channel]
      /\ channel'[c] = d /\ \A e \in Clients : e # c => channel'[e] = channel[e]
  BY <1>1, <1>2, <1>3, <1>4 DEF ChannelInv, Bounded
<1>6. ChannelInv'
  <2>1. Ahead' = Ahead
    BY <1>2 DEF Ahead
  <2>2. QED
    BY <2>1, <1>1, <1>2, <1>4, <1>5 DEF ChannelInv, Bounded
<1>7. ResetInv'
  <2>1. cpc = "place" => packet.client \in Clients /\ packet.client # c
    BY <1>2, PacketInHand DEF AudioBufHeld
  <2>2. QED
    BY <2>1, <1>1, <1>2, <1>5 DEF ResetInv, captureVars
<1>8. RoundInv'
  <2>1. Ready(channel'[c])
    BY <1>4, <1>5 DEF Ready
  <2>2. \A k \in 1..mixing : k < i => Ready(channel[order[k]])
    <3>1. \A k \in 1..mixing : k < i => k \in 1..(i - 1)
      BY <1>3
    <3>2. QED
      BY <3>1, <1>1, <1>2 DEF RoundInv
  <2>3. \A k \in 1..mixing : k <= i => Ready(channel'[order[k]])
    <3> SUFFICES ASSUME NEW k \in 1..mixing, k <= i
                 PROVE  Ready(channel'[order[k]])
      OBVIOUS
    <3>1. CASE order[k] = c
      BY <3>1, <2>1
    <3>2. CASE order[k] # c
      <4>1. k # i
        BY <3>2 DEF c
      <4>2. k < i
        BY <4>1, <1>3
      <4>3. QED
        BY <3>2, <4>2, <2>2, <1>3, <1>5
    <3>3. QED
      BY <3>1, <3>2
  <2>4. UNCHANGED <<mixing, order>>
    BY <1>2
  <2>5. CASE i < mixing
    <3>1. i' = i + 1 /\ mpc' = "pick" /\ i' \in 1..mixing
      BY <2>5, <1>2, <1>3
    <3>2. \A k \in 1..(i' - 1) : k \in 1..mixing /\ k <= i
      BY <3>1, <1>3
    <3>3. QED
      BY <3>1, <3>2, <2>3, <2>4, <1>1 DEF RoundInv, Ready
  <2>6. CASE ~(i < mixing)
    <3>1. i' = 1 /\ mpc' = "find" /\ \A k \in 1..mixing : k <= i
      BY <2>6, <1>2, <1>3
    <3>2. QED
      BY <3>1, <2>3, <2>4, <1>1 DEF RoundInv, Ready
  <2>7. QED
    BY <2>5, <2>6
<1>9. AccountInv'
  <2>1. mpc' \in {"pick", "find"} /\ UNCHANGED <<ts, minTs, queue, wait, total, bufferedTs>>
    BY <1>2 DEF bufferingVars
  <2>2. QED
    BY <2>1, <1>1, <1>2 DEF AccountInv, BehindIsBuffered
<1>10. LineInv'
  BY <1>1, <1>2 DEF LineInv, Follows, bufferingVars, history, sessionVars
<1>11. SoundInv'
  <2>1. \A e \in Clients : channel'[e].buf = channel[e].buf /\ Ordered(channel'[e].out)
    BY <1>1, <1>4, <1>5 DEF SoundInv
  <2>2. \A k \in DOMAIN flight : flight[k].client \in Clients
    BY <1>1 DEF TravelInv, Due, Packets
  <2>3. cpc \in {"output", "place"} => packet.client \in Clients
    BY PacketInHand
  <2>4. UNCHANGED <<rendered, flight, cpc, packet>>
    BY <1>2 DEF hookVars, captureVars
  <2>5. QED
    BY <2>1, <2>2, <2>3, <2>4, <1>1 DEF SoundInv, Limit
<1>12. HookInv' /\ TravelInv' /\ CaptureInv' /\ HeardInv'
  BY <1>1, <1>2, HookStays, TravelStays, CaptureStays, HeardStays
     DEF hookVars, sessionVars, captureVars, history
<1>13. QED
  BY <1>6, <1>7, <1>8, <1>9, <1>10, <1>11, <1>12 DEF IInv

\* The earliest of the channels is a time, or that of the tick at work.
LEMMA FindMinStep == ASSUME IInv, FindMin PROVE IInv'
<1> DEFINE A == {channel[c].audioTs : c \in {d \in Listed : ~channel[d].pending /\ channel[d].audioTs # 0}}
<1>1. /\ HookInv /\ TravelInv /\ CaptureInv /\ ChannelInv /\ ResetInv
      /\ RoundInv /\ AccountInv /\ LineInv /\ SoundInv /\ HeardInv
  BY DEF IInv
<1>2. /\ UNCHANGED <<scenario, now, hookVars, sessionVars, channelVars, captureVars, i, audioTime, mixing,
                     ts, bufferingVars, history>>
      /\ mpc \in {"find", "refind"} /\ mpc' \in {"mark", "buffer"}
      /\ minTs' = Min({minTs} \cup A)
  BY DEF FindMin
<1>3. A \subseteq Nat
  BY <1>1, ListedFacts DEF ChannelInv, Channel
<1> HIDE DEF A
<1>4. minTs' \in Int /\ (minTs' = ts.start \/ minTs' \in Nat)
  <2>1. minTs \in Int /\ (minTs = ts.start \/ minTs \in Nat)
    BY <1>1, <1>2 DEF AccountInv
  <2>2. minTs' \in Int /\ (minTs' = minTs \/ minTs' \in A)
    BY <2>1, <1>2, <1>3, MinFacts
  <2>3. QED
    BY <2>1, <2>2, <1>3
<1>5. RoundInv'
  BY <1>1, <1>2 DEF RoundInv, Ready, channelVars
<1>6. AccountInv'
  <2>1. UNCHANGED <<ts, queue, wait, total, bufferedTs>>
    BY <1>2 DEF bufferingVars
  <2>2. QED
    BY <2>1, <1>1, <1>2, <1>4 DEF AccountInv, BehindIsBuffered
<1>7. LineInv'
  BY <1>1, <1>2 DEF LineInv, Follows, bufferingVars, history, sessionVars
<1>8. /\ HookInv' /\ TravelInv' /\ CaptureInv' /\ ChannelInv' /\ ResetInv' /\ SoundInv' /\ HeardInv'
  BY <1>1, <1>2, HookStays, TravelStays, CaptureStays, ChannelStays, ResetStays, SoundStays, HeardStays
     DEF hookVars, sessionVars, channelVars, captureVars, history
<1>9. QED
  BY <1>5, <1>6, <1>7, <1>8 DEF IInv

\* A channel that is marked only becomes one to wait for.
LEMMA MarkStep == ASSUME IInv, Mark PROVE IInv'
<1> DEFINE short == {c \in Listed : Insufficient(channel[c], minTs)}
           e(c) == [channel[c] EXCEPT !.pending = @ \/ c \in short]
<1>1. /\ HookInv /\ TravelInv /\ CaptureInv /\ ChannelInv /\ ResetInv
      /\ RoundInv /\ AccountInv /\ LineInv /\ SoundInv /\ HeardInv
  BY DEF IInv
<1>2. /\ UNCHANGED <<scenario, now, hookVars, sessionVars, order, captureVars, i, audioTime, mixing,
                     ts, minTs, bufferingVars, history>>
      /\ mpc = "mark" /\ mpc' \in {"refind", "buffer"}
      /\ channel' = [c \in Clients |-> e(c)]
  BY DEF Mark
<1>3. ASSUME NEW c \in Clients
      PROVE  /\ channel'[c] \in Channel /\ channel'[c].buf = channel[c].buf /\ channel'[c].out = channel[c].out
             /\ channel'[c].adjust = channel[c].adjust /\ channel'[c].nextTs = channel[c].nextTs
             /\ channel'[c].nextSys = channel[c].nextSys /\ channel'[c].audioTs = channel[c].audioTs
             /\ Ready(channel[c]) => Ready(channel'[c])
  <2> DEFINE b == channel[c].pending \/ c \in short
  <2>1. channel[c] \in Channel /\ b \in BOOLEAN
    BY <1>1 DEF ChannelInv
  <2>2. channel'[c] = [channel[c] EXCEPT !.pending = b]
    BY <1>2
  <2>3. channel[c].pending => b
    OBVIOUS
  <2> HIDE DEF b, short
  <2>4. QED
    BY <2>1, <2>2, <2>3 DEF Channel, Ready
<1> HIDE DEF short, e
<1>4. channel' \in [Clients -> Channel]
  BY <1>2, <1>3
<1>5. ChannelInv'
  <2>1. Ahead' = Ahead
    BY <1>2 DEF Ahead
  <2>2. QED
    BY <2>1, <1>1, <1>2, <1>3, <1>4 DEF ChannelInv
<1>6. cpc \in {"output", "place"} => packet.client \in Clients
  BY PacketInHand
<1>7. ResetInv'
  BY <1>1, <1>2, <1>3, <1>6 DEF ResetInv, captureVars
<1>8. RoundInv'
  <2>1. \A k \in 1..mixing : order[k] \in Clients
    <3>1. mixing \in 0..Len(order) /\ Len(order) \in Nat /\ \A k \in 1..Len(order) : order[k] \in Clients
      BY <1>1, ListedFacts
    <3>2. QED
      BY <3>1
  <2>2. \A k \in 1..mixing : Ready(channel'[order[k]])
    BY <2>1, <1>1, <1>2, <1>3 DEF RoundInv
  <2>3. QED
    BY <2>2, <1>1, <1>2 DEF RoundInv, Ready
<1>9. AccountInv'
  <2>1. UNCHANGED <<ts, minTs, queue, wait, total, bufferedTs>>
    BY <1>2 DEF bufferingVars
  <2>2. QED
    BY <2>1, <1>1, <1>2 DEF AccountInv, BehindIsBuffered
<1>10. LineInv'
  BY <1>1, <1>2 DEF LineInv, Follows, bufferingVars, history, sessionVars
<1>11. SoundInv'
  <2>1. \A k \in DOMAIN flight : flight[k].client \in Clients
    BY <1>1 DEF TravelInv, Due, Packets
  <2>2. UNCHANGED <<rendered, flight, cpc, packet>>
    BY <1>2 DEF hookVars, captureVars
  <2>3. QED
    BY <2>1, <2>2, <1>1, <1>3, <1>6 DEF SoundInv, Limit
<1>12. HookInv' /\ TravelInv' /\ CaptureInv' /\ HeardInv'
  BY <1>1, <1>2, HookStays, TravelStays, CaptureStays, HeardStays
     DEF hookVars, sessionVars, captureVars, history
<1>13. QED
  BY <1>5, <1>7, <1>8, <1>9, <1>10, <1>11, <1>12 DEF IInv

\* The ticks that do not wait stay when n ticks are put before them, or one is
\* taken away that waited (n = -1).
LEMMA LineShift ==
  ASSUME LineInv, NEW n \in Int, queue \in Seq(Interval), queue' \in Seq(Interval),
         wait \in Nat, wait' = wait + n, wait' \in Nat, Len(queue') = Len(queue) + n,
         \A k \in DOMAIN queue' : k > wait' => queue'[k] = queue[k - n],
         wait <= Len(queue),
         mpc # "off", mpc' # "off", UNCHANGED <<audioTime, lastOut, now, sessions>>
  PROVE  LineInv'
<1>1. /\ Len(queue) \in Nat /\ DOMAIN queue = 1..Len(queue)
      /\ Len(queue') \in Nat /\ DOMAIN queue' = 1..Len(queue')
  OBVIOUS
<1>2. \A k \in DOMAIN queue' : k > wait' => k - n \in DOMAIN queue /\ k - n > wait
  BY <1>1
<1>3. \A k \in DOMAIN queue' : k > wait' => queue'[k].start <= now
  BY <1>2 DEF LineInv
<1>4. \A k \in DOMAIN queue' : k > wait' /\ k < Len(queue') =>
         Follows(queue'[k].start, queue'[k + 1].start)
  <2> SUFFICES ASSUME NEW k \in DOMAIN queue', k > wait', k < Len(queue')
               PROVE  Follows(queue'[k].start, queue'[k + 1].start)
    OBVIOUS
  <2>1. k + 1 \in DOMAIN queue' /\ k + 1 > wait' /\ k + 1 - n = k - n + 1 /\ k - n < Len(queue)
    BY <1>1
  <2>2. queue'[k] = queue[k - n] /\ queue'[k + 1] = queue[k - n + 1]
    <3>1. queue'[k + 1] = queue[k + 1 - n]
      BY <2>1
    <3>2. QED
      BY <3>1, <2>1
  <2>3. Follows(queue[k - n].start, queue[k - n + 1].start)
    BY <1>2, <2>1 DEF LineInv
  <2>4. QED
    BY <2>2, <2>3
<1>5. Len(queue') > wait' => Follows(queue'[Len(queue')].start, audioTime)
  <2> SUFFICES ASSUME Len(queue') > wait'
               PROVE  Follows(queue'[Len(queue')].start, audioTime)
    OBVIOUS
  <2>1. Len(queue') \in DOMAIN queue' /\ Len(queue') - n = Len(queue) /\ Len(queue) > wait
    BY <1>1
  <2>2. queue'[Len(queue')] = queue[Len(queue)]
    <3>1. queue'[Len(queue')] = queue[Len(queue') - n]
      BY <2>1
    <3>2. QED
      BY <3>1, <2>1
  <2>3. QED
    BY <2>1, <2>2 DEF LineInv
<1>6. lastOut # 0 => Follows(lastOut, IF Len(queue') > wait' THEN queue'[wait' + 1].start ELSE audioTime)
  <2>1. CASE Len(queue') > wait'
    <3>1. wait' + 1 \in DOMAIN queue' /\ wait' + 1 > wait' /\ wait' + 1 - n = wait + 1 /\ Len(queue) > wait
      BY <2>1, <1>1
    <3>2. queue'[wait' + 1] = queue[wait + 1]
      <4>1. queue'[wait' + 1] = queue[wait' + 1 - n]
        BY <3>1
      <4>2. QED
        BY <4>1, <3>1
    <3>3. QED
      BY <3>1, <3>2, <2>1 DEF LineInv
  <2>2. CASE ~(Len(queue') > wait')
    <3>1. ~(Len(queue) > wait)
      BY <2>2, <1>1
    <3>2. QED
      BY <3>1, <2>2 DEF LineInv
  <2>3. QED
    BY <2>1, <2>2
<1>7. QED
  BY <1>3, <1>4, <1>5, <1>6 DEF LineInv, Follows

\* The ticks that add_audio_buffering puts before the others: n of them, so many
\* that the first begins at min_ts or before, but for less than a frame, or the
\* limit is reached; and none that would end before the time begins.
LEMMA AddFacts ==
  ASSUME AccountInv, mpc = "buffer", minTs < ts.start, AddBuffering
  PROVE  \E n \in Nat :
           /\ total' = total + n /\ total' \in 0..MaxTicks /\ wait' = wait + n
           /\ bufferedTs' \in Int
           /\ queue' \in Seq(Interval) /\ Len(queue') = Len(queue) + n
           /\ \A k \in DOMAIN queue' : k > n => queue'[k] = queue[k - n]
           /\ \A k \in 1..wait' : queue'[k].start = bufferedTs' - (wait' + 1 - k) * Tick
           /\ ts' \in Interval /\ ts'.start = queue'[1].start
           /\ minTs > ts'.start - Frame \/ total' = MaxTicks
<1> DEFINE t == ts.start - minTs
           behind == TicksBehind(t)
           n == IF total + behind > MaxTicks THEN MaxTicks - total ELSE behind
           base == IF wait = 0 THEN ts.start ELSE bufferedTs
           start(k) == base - k * Tick
           added == [k \in 1..n |-> Span(start(wait + n + 1 - k))]
<1>1. /\ queue \in Seq(Interval) /\ Len(queue) \in Nat /\ DOMAIN queue = 1..Len(queue)
      /\ wait \in Nat /\ total \in Nat /\ total < MaxTicks /\ wait <= total /\ Len(queue) = total + 1
      /\ MaxTicks \in Nat /\ Tick \in Nat \ {0} /\ Frame \in Nat
  BY QueueFacts, TickFacts, ChannelAssumption, MixerAssumption DEF AddBuffering
<1>2. /\ ts.start \in Int /\ ts.start = queue[1].start /\ bufferedTs \in Int /\ minTs \in Nat
      /\ \A k \in 1..wait : queue[k].start = bufferedTs - (wait + 1 - k) * Tick
  <2>1. ts \in Interval
    BY DEF AccountInv
  <2>2. QED
    BY <2>1 DEF AccountInv, Interval
<1>3. /\ total' = total + n /\ wait' = wait + n /\ bufferedTs' = base /\ queue' = added \o queue
      /\ ts' \in IF n > 0 THEN {Head(queue')} ELSE [start : {start(wait)}, end : Junk]
  BY DEF AddBuffering
<1>4. t \in Nat /\ t > 0
  BY <1>2
<1> HIDE DEF t
<1>5. behind \in Nat /\ behind * Tick \in Nat /\ t - Frame < behind * Tick /\ behind * Tick < t + Tick
  BY <1>4, BehindFacts
<1> HIDE DEF behind
<1>6. n \in Nat /\ n <= behind /\ total + n <= MaxTicks /\ (n = behind \/ total + n = MaxTicks)
  BY <1>1, <1>5
<1> HIDE DEF n
<1>7. base \in Int /\ base - wait * Tick = ts.start
  <2>1. CASE wait = 0
    BY <2>1, <1>1, <1>2
  <2>2. CASE wait # 0
    <3>1. 1 \in 1..wait /\ wait + 1 - 1 = wait
      BY <2>2, <1>1
    <3>2. QED
      BY <3>1, <2>2, <1>2
  <2>3. QED
    BY <2>1, <2>2
<1> HIDE DEF base
<1>8. \A k \in Int : start(k) \in Int
  BY <1>1, <1>7
<1>9. n * Tick \in Nat /\ n * Tick <= behind * Tick
  BY <1>1, <1>5, <1>6
<1>10. \A k \in 1..n : start(wait + n + 1 - k) + Tick >= 0
  <2> SUFFICES ASSUME NEW k \in 1..n
               PROVE  start(wait + n + 1 - k) + Tick >= 0
    OBVIOUS
  <2>1. (wait + n + 1 - k) * Tick = wait * Tick + (n + 1 - k) * Tick
    BY <1>1, <1>6
  <2>2. (n + 1 - k) * Tick <= n * Tick
    BY <1>1, <1>6
  <2>3. (n + 1 - k) * Tick \in Int /\ wait * Tick \in Int
    BY <1>1, <1>6
  <2>4. start(wait + n + 1 - k) = ts.start - (n + 1 - k) * Tick
    BY <2>1, <2>3, <1>7
  <2>5. ts.start = minTs + t
    BY <1>2 DEF t
  <2>6. QED
    BY <2>2, <2>3, <2>4, <2>5, <1>1, <1>2, <1>4, <1>5, <1>9
<1> HIDE DEF start
<1>11. \A k \in 1..n : added[k] \in Interval /\ added[k].start = start(wait + n + 1 - k)
  <2> SUFFICES ASSUME NEW k \in 1..n
               PROVE  added[k] \in Interval /\ added[k].start = start(wait + n + 1 - k)
    OBVIOUS
  <2> DEFINE s == start(wait + n + 1 - k)
  <2>1. s \in Int /\ s + Tick >= 0
    <3>1. wait + n + 1 - k \in Int
      BY <1>1, <1>6
    <3>2. QED
      BY <3>1, <1>8, <1>10
  <2>2. added[k] = Span(s)
    OBVIOUS
  <2> HIDE DEF s, added
  <2>3. added[k] \in Interval /\ added[k].start = s
    BY <2>1, <2>2, SpanFacts
  <2>4. QED
    BY <2>3 DEF s
<1>12. added \in Seq(Interval) /\ Len(added) = n /\ DOMAIN added = 1..n
  <2>1. \A g, m : m \in Nat /\ g \in [1..m -> Interval] => g \in Seq(Interval) /\ Len(g) = m /\ DOMAIN g = 1..m
    OBVIOUS
  <2>2. added \in [1..n -> Interval]
    <3>1. DOMAIN added = 1..n /\ added = [k \in 1..n |-> added[k]]
      OBVIOUS
    <3> HIDE DEF added
    <3>2. QED
      BY <3>1, <1>11
  <2> HIDE DEF added
  <2>3. QED
    BY <2>1, <2>2, <1>6
<1> HIDE DEF added
<1>13. /\ queue' \in Seq(Interval) /\ Len(queue') = n + Len(queue) /\ DOMAIN queue' = 1..(n + Len(queue))
       /\ \A k \in 1..n : queue'[k] = added[k]
       /\ \A k \in DOMAIN queue' : k > n => queue'[k] = queue[k - n]
  <2>1. queue' = added \o queue
    BY <1>3
  <2>2. added \in Seq(Interval) /\ queue \in Seq(Interval)
    BY <1>1, <1>12
  <2>3. LET q == added \o queue
        IN /\ q \in Seq(Interval) /\ Len(q) = Len(added) + Len(queue)
           /\ DOMAIN q = 1..(Len(added) + Len(queue))
           /\ \A k \in 1..Len(added) : q[k] = added[k]
           /\ \A k \in DOMAIN q : k > Len(added) => q[k] = queue[k - Len(added)]
    BY <2>2, ConcatFacts, Zenon
  <2>4. QED
    BY <2>1, <2>3, <1>12, Zenon
<1>14. \A k \in 1..wait' : queue'[k].start = base - (wait' + 1 - k) * Tick
  <2> SUFFICES ASSUME NEW k \in 1..wait'
               PROVE  queue'[k].start = base - (wait' + 1 - k) * Tick
    OBVIOUS
  <2>0. k \in Int /\ 1 <= k /\ k <= wait + n /\ wait' = wait + n
    BY <1>1, <1>3, <1>6
  <2>1. CASE k <= n
    <3>1. k \in 1..n
      BY <2>0, <2>1, <1>6
    <3>2. queue'[k].start = start(wait + n + 1 - k)
      BY <3>1, <1>11, <1>13
    <3>3. QED
      BY <3>2, <1>3 DEF start
  <2>2. CASE k > n
    <3>1. k - n \in 1..wait /\ k \in DOMAIN queue' /\ wait + 1 - (k - n) = wait' + 1 - k
      <4>1. wait <= Len(queue) /\ k <= n + Len(queue)
        BY <2>0, <1>1, <1>6
      <4>2. DOMAIN queue' = 1..(n + Len(queue))
        BY <1>13
      <4>3. QED
        BY <4>1, <4>2, <2>0, <2>2, <1>1, <1>6
    <3>2. queue'[k] = queue[k - n]
      BY <3>1, <2>2, <1>13
    <3>3. wait # 0
      BY <3>1, <1>1
    <3>4. QED
      BY <3>1, <3>2, <3>3, <1>2 DEF base
  <2>3. QED
    BY <2>0, <2>1, <2>2, <1>6
<1>15. ts' \in Interval /\ ts'.start = queue'[1].start /\ ts'.start = ts.start - n * Tick
  <2>1. CASE n > 0
    <3>1. queue' # <<>> /\ 1 \in 1..n
      BY <2>1, <1>1, <1>6, <1>13
    <3>2. ts' = queue'[1] /\ ts' \in Interval
      BY <3>1, <2>1, <1>3, <1>13, TailFacts
    <3>3. queue'[1].start = start(wait + n + 1 - 1)
      BY <3>1, <1>11, <1>13
    <3>4. (wait + n + 1 - 1) * Tick = wait * Tick + n * Tick
      BY <1>1, <1>6
    <3>5. wait * Tick \in Int /\ n * Tick \in Int
      BY <1>1, <1>6
    <3>6. QED
      BY <3>2, <3>3, <3>4, <3>5, <1>7 DEF start
  <2>2. CASE n = 0
    <3>1. ts' \in [start : {start(wait)}, end : Junk]
      BY <2>2, <1>3
    <3>2. ts'.start = ts.start
      BY <3>1, <1>7 DEF start
    <3>3. start(wait) = ts.start
      BY <1>7 DEF start
    <3>4. ts' \in Interval
      BY <3>1, <3>3, <1>2, MixerAssumption DEF Interval
    <3>5. 1 \in DOMAIN queue' /\ 1 > n /\ 1 - n = 1
      BY <2>2, <1>1, <1>13
    <3>6. queue'[1] = queue[1]
      BY <3>5, <1>13
    <3>7. QED
      BY <3>2, <3>4, <3>6, <2>2, <1>1, <1>2
  <2>3. QED
    BY <2>1, <2>2, <1>6
<1>16. minTs > ts'.start - Frame \/ total' = MaxTicks
  <2>1. CASE n = behind
    <3>1. n * Tick = behind * Tick
      BY <2>1
    <3>2. ts.start = minTs + t
      BY <1>2 DEF t
    <3>3. QED
      BY <3>1, <3>2, <1>1, <1>2, <1>4, <1>5, <1>9, <1>15
  <2>2. CASE total + n = MaxTicks
    BY <2>2, <1>3
  <2>3. QED
    BY <2>1, <2>2, <1>6
<1>17. total' \in 0..MaxTicks /\ bufferedTs' \in Int
  BY <1>1, <1>3, <1>6, <1>7
<1>18. Len(queue') = Len(queue) + n
  BY <1>1, <1>6, <1>13
<1>19. QED
  BY <1>3, <1>6, <1>13, <1>14, <1>15, <1>16, <1>17, <1>18

\* Ticks are put before the one at work, or none are.
LEMMA BufferFacts ==
  ASSUME AccountInv, Buffer
  PROVE  \E n \in Nat :
           /\ total' = total + n /\ total' \in 0..MaxTicks /\ wait' = wait + n
           /\ bufferedTs' \in Int
           /\ queue' \in Seq(Interval) /\ Len(queue') = Len(queue) + n
           /\ \A k \in DOMAIN queue' : k > n => queue'[k] = queue[k - n]
           /\ \A k \in 1..wait' : queue'[k].start = bufferedTs' - (wait' + 1 - k) * Tick
           /\ ts' \in Interval /\ ts'.start = queue'[1].start
           /\ minTs > ts'.start - Frame \/ total' = MaxTicks
<1>1. mpc = "buffer"
  BY DEF Buffer
<1>3. /\ queue \in Seq(Interval) /\ Len(queue) \in Nat /\ DOMAIN queue = 1..Len(queue)
      /\ wait \in Nat /\ total \in 0..MaxTicks /\ total \in Nat /\ wait <= total /\ Len(queue) = total + 1
      /\ bufferedTs \in Int /\ ts \in Interval /\ ts.start = queue[1].start
      /\ \A k \in 1..wait : queue[k].start = bufferedTs - (wait + 1 - k) * Tick
  BY <1>1, QueueFacts DEF AccountInv
<1>4. /\ minTs \in Int /\ ts.start \in Int /\ Frame \in Nat \ {0}
  BY <1>3, ChannelAssumption DEF AccountInv, Interval
<1>5. CASE minTs < ts.start /\ AddBuffering
  BY <1>1, <1>5, AddFacts
<1>6. CASE (minTs >= ts.start \/ total = MaxTicks) /\ UNCHANGED <<bufferingVars, ts>>
  <2>1. UNCHANGED <<queue, wait, total, bufferedTs, ts>>
    BY <1>6 DEF bufferingVars
  <2>2. 0 \in Nat /\ total + 0 = total /\ wait + 0 = wait /\ Len(queue) + 0 = Len(queue)
    BY <1>3
  <2>3. \A k \in DOMAIN queue : k - 0 = k
    BY <1>3
  <2>4. minTs > ts.start - Frame \/ total = MaxTicks
    BY <1>6, <1>4
  <2>5. QED
    BY <2>1, <2>2, <2>3, <2>4, <1>3
<1>7. QED
  BY <1>5, <1>6 DEF Buffer

\* Ticks may be put in front: the line behind them stays.
LEMMA BufferStep == ASSUME IInv, Buffer PROVE IInv'
<1>1. /\ HookInv /\ TravelInv /\ CaptureInv /\ ChannelInv /\ ResetInv
      /\ RoundInv /\ AccountInv /\ LineInv /\ SoundInv /\ HeardInv
  BY DEF IInv
<1>2. /\ UNCHANGED <<scenario, now, hookVars, sessionVars, channelVars, captureVars, i, audioTime, mixing,
                     minTs, history>>
      /\ mpc = "buffer"
      /\ mpc' = IF wait' = 0 /\ mixing > 0 THEN "mix" ELSE "discard"
  BY DEF Buffer
<1>3. /\ Len(queue) \in Nat /\ wait \in Nat /\ total \in Nat /\ wait <= total
      /\ Len(queue) = total + 1 /\ queue \in Seq(Interval) /\ minTs \in Int
  BY <1>1, <1>2, QueueFacts DEF AccountInv
<1>5. PICK n \in Nat :
           /\ total' = total + n /\ total' \in 0..MaxTicks /\ wait' = wait + n
           /\ bufferedTs' \in Int
           /\ queue' \in Seq(Interval) /\ Len(queue') = Len(queue) + n
           /\ \A k \in DOMAIN queue' : k > n => queue'[k] = queue[k - n]
           /\ \A k \in 1..wait' : queue'[k].start = bufferedTs' - (wait' + 1 - k) * Tick
           /\ ts' \in Interval /\ ts'.start = queue'[1].start
           /\ minTs > ts'.start - Frame \/ total' = MaxTicks
  BY <1>1, BufferFacts
<1>6. RoundInv'
  <2>1. i = 1 /\ mixing \in Nat /\ UNCHANGED <<i, mixing, order, channel>>
    BY <1>1, <1>2, ListedFacts DEF RoundInv, channelVars
  <2>2. CASE wait' = 0 /\ mixing > 0
    <3>1. mpc' = "mix" /\ 1 \in 1..mixing
      BY <2>1, <2>2, <1>2
    <3>2. QED
      BY <3>1, <2>1, <1>1, <1>2 DEF RoundInv, Ready
  <2>3. CASE ~(wait' = 0 /\ mixing > 0)
    <3>1. mpc' = "discard"
      BY <2>3, <1>2
    <3>2. QED
      BY <3>1, <2>1, <1>1, <1>2 DEF RoundInv
  <2>4. QED
    BY <2>2, <2>3
<1>7. AccountInv'
  <2>1. wait' \in Nat /\ wait' <= total' /\ Len(queue') = total' + 1
    BY <1>3, <1>5
  <2>2. mpc' \in {"mix", "discard"} /\ minTs' = minTs
    BY <1>2
  <2>3. QED
    BY <2>1, <2>2, <1>3, <1>5 DEF AccountInv, BehindIsBuffered
<1>8. LineInv'
  <2>1. wait' \in Nat /\ n \in Int /\ wait <= Len(queue)
    <3>1. wait' = wait + n
      BY <1>5
    <3>2. wait \in Nat /\ total \in Nat /\ wait <= total /\ Len(queue) = total + 1
      BY <1>3
    <3>3. QED
      BY <3>1, <3>2
  <2>2. \A k \in DOMAIN queue' : k > wait' => queue'[k] = queue[k - n]
    <3>1. \A k \in DOMAIN queue' : k > wait' => k > n
      BY <1>3, <1>5
    <3>2. QED
      BY <3>1, <1>5
  <2>3. mpc # "off" /\ mpc' # "off" /\ UNCHANGED <<audioTime, lastOut, now, sessions>>
    BY <1>2 DEF history, sessionVars
  <2>4. QED
    BY <2>1, <2>2, <2>3, <1>1, <1>3, <1>5, LineShift
<1>9. /\ HookInv' /\ TravelInv' /\ CaptureInv' /\ ChannelInv' /\ ResetInv' /\ SoundInv' /\ HeardInv'
  BY <1>1, <1>2, HookStays, TravelStays, CaptureStays, ChannelStays, ResetStays, SoundStays, HeardStays
     DEF hookVars, sessionVars, channelVars, captureVars, history
<1>10. QED
  BY <1>6, <1>7, <1>8, <1>9 DEF IInv

\* What is mixed of a channel is heard in the order in which it was played.
LEMMA MixStep == ASSUME IInv, Mix PROVE IInv'
<1> DEFINE c == order[i]
           ch == channel[c]
           mix == MixedOf(ch)
<1>1. /\ HookInv /\ TravelInv /\ CaptureInv /\ ChannelInv /\ ResetInv
      /\ RoundInv /\ AccountInv /\ LineInv /\ SoundInv /\ HeardInv
  BY DEF IInv
<1>2. /\ UNCHANGED <<scenario, now, hookVars, sessionVars, channelVars, captureVars, audioTime, mixing,
                     ts, minTs, bufferingVars, lastOut, lost>>
      /\ mpc = "mix"
      /\ heard' = IF mix = {} THEN heard ELSE [heard EXCEPT ![c] = mix]
      /\ unheard' = IF mix = {} THEN unheard ELSE [unheard EXCEPT ![c] = 0]
      /\ IF i < mixing THEN i' = i + 1 /\ mpc' = mpc ELSE i' = 1 /\ mpc' = "discard"
  BY DEF Mix, Round
<1>3. mixing \in 0..Len(order) /\ Len(order) \in Nat /\ i \in 1..mixing /\ c \in Clients
  <2>1. /\ Len(order) \in Nat /\ mixing \in 0..Len(order) /\ i \in 1..mixing
        /\ \A k \in 1..Len(order) : order[k] \in Clients
    BY <1>1, <1>2, ListedFacts DEF RoundInv
  <2>2. i \in 1..Len(order)
    BY <2>1
  <2>3. QED
    BY <2>1, <2>2
<1>4. ch \in Channel /\ Ordered(ch.out) /\ (ch.pending \/ Len(ch.out) = Block)
  <2>1. Ready(ch)
    BY <1>1, <1>2, <1>3 DEF RoundInv
  <2>2. QED
    BY <2>1, <1>1, <1>3 DEF Ready, ChannelInv, SoundInv
<1> HIDE DEF c, ch
<1>5. mix \in SUBSET (Nat \X Int) /\ \A g, h \in mix : g[1] < h[1] => g[2] < h[2]
  <2>1. CASE mix = {}
    BY <2>1
  <2>2. CASE mix # {}
    <3>1. ~ch.pending /\ mix = {h \in Mixed(ch, ts) : h[1] # 0}
      BY <2>2 DEF MixedOf
    <3>2. ts \in [start : Int, end : Nat]
      BY <1>1 DEF AccountInv, Interval
    <3>3. \A g, h \in Mixed(ch, ts) : /\ g \in Nat \X Int
                                      /\ g[1] # 0 /\ h[1] # 0 /\ g[1] < h[1] => g[2] < h[2]
      BY <3>1, <3>2, <1>4, MixedFacts
    <3> HIDE DEF mix
    <3>4. \A h \in mix : h \in Mixed(ch, ts) /\ h[1] # 0
      BY <3>1
    <3>5. QED
      BY <3>3, <3>4
  <2>3. QED
    BY <2>1, <2>2
<1> HIDE DEF mix
<1>6. RoundInv'
  <2>1. UNCHANGED <<mixing, order, channel>>
    BY <1>2 DEF channelVars
  <2>2. CASE i < mixing
    <3>1. i' \in 1..mixing /\ mpc' = "mix"
      BY <2>2, <1>2, <1>3
    <3>2. QED
      BY <3>1, <2>1, <1>1, <1>2 DEF RoundInv, Ready
  <2>3. CASE ~(i < mixing)
    <3>1. i' = 1 /\ mpc' = "discard"
      BY <2>3, <1>2
    <3>2. QED
      BY <3>1, <2>1, <1>1 DEF RoundInv
  <2>4. QED
    BY <2>2, <2>3
<1>7. AccountInv'
  <2>1. mpc' \in {"mix", "discard"} /\ UNCHANGED <<ts, minTs, queue, wait, total, bufferedTs>>
    BY <1>2 DEF bufferingVars
  <2>2. QED
    BY <2>1, <1>1, <1>2 DEF AccountInv, BehindIsBuffered
<1>8. LineInv'
  BY <1>1, <1>2 DEF LineInv, Follows, bufferingVars, sessionVars
<1>9. HeardInv'
  <2>1. heard' \in [Clients -> SUBSET (Nat \X Int)] /\ unheard' \in [Clients -> Nat]
    BY <1>1, <1>2, <1>5 DEF HeardInv
  <2>2. \A d \in Clients : heard'[d] = heard[d] \/ heard'[d] = mix
    BY <1>1, <1>2 DEF HeardInv
  <2>3. \A d \in Clients : \A g, h \in heard'[d] : g[1] < h[1] => g[2] < h[2]
    BY <2>2, <1>1, <1>5 DEF HeardInv
  <2>4. QED
    BY <2>1, <2>3, <1>1, <1>2 DEF HeardInv
<1>10. /\ HookInv' /\ TravelInv' /\ CaptureInv' /\ ChannelInv' /\ ResetInv' /\ SoundInv'
  BY <1>1, <1>2, HookStays, TravelStays, CaptureStays, ChannelStays, ResetStays, SoundStays
     DEF hookVars, sessionVars, channelVars, captureVars
<1>11. QED
  BY <1>6, <1>7, <1>8, <1>9, <1>10 DEF IInv

\* The tick in front is taken from the queue.
LEMMA DiscardFacts ==
  ASSUME AccountInv, Discard
  PROVE  /\ queue \in Seq(Interval) /\ Len(queue) \in Nat \ {0} /\ Len(queue) = total + 1
         /\ DOMAIN queue = 1..Len(queue)
         /\ queue' \in Seq(Interval) /\ Len(queue') = Len(queue) - 1 /\ DOMAIN queue' = 1..(Len(queue) - 1)
         /\ \A k \in 1..(Len(queue) - 1) : queue'[k] = queue[k + 1] /\ k + 1 \in 1..Len(queue)
         /\ wait \in Nat /\ total \in Nat /\ wait <= total
         /\ wait' \in Nat /\ wait' <= total /\ (wait = 0 => wait' = 0) /\ (wait # 0 => wait' = wait - 1)
         /\ wait = 0 => lastOut' = queue[1].start
         /\ wait # 0 => lastOut' = lastOut
<1>1. /\ mpc = "discard" /\ queue' = Tail(queue) /\ wait' = IF wait = 0 THEN 0 ELSE wait - 1
      /\ lastOut' = IF wait = 0 THEN ts.start ELSE lastOut
  BY DEF Discard
<1>2. /\ queue \in Seq(Interval) /\ Len(queue) \in Nat /\ Len(queue) = total + 1
      /\ wait \in Nat /\ total \in Nat /\ wait <= total /\ ts.start = queue[1].start
  BY <1>1, QueueFacts DEF AccountInv
<1>3. queue # <<>>
  BY <1>2
<1>4. /\ Len(queue) \in Nat \ {0} /\ DOMAIN queue = 1..Len(queue)
      /\ queue' \in Seq(Interval) /\ Len(queue') = Len(queue) - 1 /\ DOMAIN queue' = 1..(Len(queue) - 1)
      /\ \A k \in 1..(Len(queue) - 1) : queue'[k] = queue[k + 1] /\ k + 1 \in 1..Len(queue)
  BY <1>1, <1>2, <1>3, TailFacts
<1>5. wait' \in Nat /\ wait' <= total /\ (wait = 0 => wait' = 0) /\ (wait # 0 => wait' = wait - 1)
  BY <1>1, <1>2
<1>6. QED
  BY <1>1, <1>2, <1>4, <1>5

\* It was one to wait, or goes to OBS.
LEMMA DiscardStep == ASSUME IInv, Discard PROVE IInv'
<1> DEFINE after == [c \in Clients |->
                       IF c \in Listed THEN Discarded(channel[c], ts, total = MaxTicks) ELSE channel[c]]
<1>1. /\ HookInv /\ TravelInv /\ CaptureInv /\ ChannelInv /\ ResetInv
      /\ RoundInv /\ AccountInv /\ LineInv /\ SoundInv /\ HeardInv
  BY DEF IInv
<1>2. /\ UNCHANGED <<scenario, now, hookVars, sessionVars, order, captureVars, i, audioTime, total,
                     bufferedTs, heard, unheard>>
      /\ mpc = "discard" /\ \A c \in Listed : ~AudioBufHeld(c)
      /\ channel' = [c \in Clients |-> [after[c] EXCEPT !.out = <<>>]]
      /\ lost' = lost \cup {c \in Clients : Loses(c, channel[c], after[c])}
      /\ queue' = Tail(queue)
      /\ wait' = IF wait = 0 THEN 0 ELSE wait - 1
      /\ lastOut' = IF wait = 0 THEN ts.start ELSE lastOut
      /\ mpc' = "sleep" /\ mixing' = 0 /\ ts' = NoTick /\ minTs' = 0
  BY DEF Discard
<1>3. ASSUME NEW c \in Clients
      PROVE  /\ Bounded(channel'[c]) /\ channel'[c].adjust = channel[c].adjust
             /\ channel'[c].nextTs = channel[c].nextTs /\ channel'[c].out = <<>>
             /\ Ordered(channel'[c].buf) /\ \A t \in Int : Below(channel[c].buf, t) => Below(channel'[c].buf, t)
             /\ c \notin Listed => /\ channel'[c].nextSys = channel[c].nextSys
                                   /\ channel'[c].audioTs = channel[c].audioTs
  <2> DEFINE d == after[c]
             full == (total = MaxTicks)
  <2>1. Bounded(channel[c]) /\ Ordered(channel[c].buf) /\ ts \in [start : Int, end : Nat]
    BY <1>1 DEF ChannelInv, SoundInv, Bounded, AccountInv, Interval
  <2>2. d = IF c \in Listed THEN Discarded(channel[c], ts, full) ELSE channel[c]
    OBVIOUS
  <2>3. full \in BOOLEAN
    OBVIOUS
  <2> HIDE DEF full
  <2>4. LET e == Discarded(channel[c], ts, full)
        IN /\ Bounded(e) /\ e.out = channel[c].out /\ e.adjust = channel[c].adjust
           /\ e.nextTs = channel[c].nextTs
           /\ Ordered(e.buf) /\ \A t \in Int : Below(channel[c].buf, t) => Below(e.buf, t)
    BY <2>1, <2>3, DiscardedFacts, Zenon
  <2>5. channel'[c] = [d EXCEPT !.out = <<>>]
    BY <1>2
  <2> HIDE DEF d
  <2>6. /\ Bounded(d) /\ d.adjust = channel[c].adjust /\ d.nextTs = channel[c].nextTs
        /\ Ordered(d.buf) /\ \A t \in Int : Below(channel[c].buf, t) => Below(d.buf, t)
    BY <2>1, <2>2, <2>4
  <2>7. d \in Channel /\ Len(d.buf) <= MaxBuf /\ <<>> \in Seq(Nat)
    BY <2>6 DEF Bounded
  <2>8. /\ channel'[c] \in Channel /\ channel'[c].adjust = d.adjust /\ channel'[c].nextTs = d.nextTs
        /\ channel'[c].out = <<>> /\ channel'[c].buf = d.buf /\ channel'[c].nextSys = d.nextSys
        /\ channel'[c].audioTs = d.audioTs
    BY <2>5, <2>7 DEF Channel
  <2>9. QED
    BY <2>2, <2>6, <2>7, <2>8 DEF Bounded
<1>4. channel' \in [Clients -> Channel]
  BY <1>2, <1>3 DEF Bounded
<1>5. ChannelInv'
  <2>1. Ahead' = Ahead
    BY <1>2 DEF Ahead
  <2>2. QED
    BY <2>1, <1>1, <1>2, <1>3, <1>4 DEF ChannelInv, Bounded
<1>6. cpc \in {"output", "place"} => packet.client \in Clients
  BY PacketInHand
<1>7. ResetInv'
  <2>1. cpc = "place" => packet.client \notin Listed
    BY <1>2 DEF AudioBufHeld
  <2>2. QED
    BY <2>1, <1>1, <1>2, <1>3, <1>6 DEF ResetInv, captureVars
<1>8. RoundInv'
  BY <1>1, <1>2, ListedFacts DEF RoundInv
<1>9. /\ queue \in Seq(Interval) /\ Len(queue) \in Nat \ {0} /\ Len(queue) = total + 1
      /\ DOMAIN queue = 1..Len(queue)
      /\ queue' \in Seq(Interval) /\ Len(queue') = Len(queue) - 1 /\ DOMAIN queue' = 1..(Len(queue) - 1)
      /\ \A k \in 1..(Len(queue) - 1) : queue'[k] = queue[k + 1] /\ k + 1 \in 1..Len(queue)
      /\ wait \in Nat /\ total \in Nat /\ wait <= total
  BY <1>1, DiscardFacts
<1>10. /\ wait' \in Nat /\ wait' <= total /\ (wait = 0 => wait' = 0) /\ (wait # 0 => wait' = wait - 1)
       /\ wait = 0 => lastOut' = queue[1].start
       /\ wait # 0 => lastOut' = lastOut
  BY <1>1, DiscardFacts
<1>11. AccountInv'
  <2>1. \A k \in 1..wait' : queue'[k].start = bufferedTs - (wait' + 1 - k) * Tick
    <3> SUFFICES ASSUME NEW k \in 1..wait'
                 PROVE  queue'[k].start = bufferedTs - (wait' + 1 - k) * Tick
      OBVIOUS
    <3>0. wait \in Nat /\ Len(queue) \in Nat /\ wait <= Len(queue) - 1
      BY <1>9
    <3>1. k \in Int /\ 1 <= k /\ k <= wait' /\ wait' = wait - 1
      BY <3>0, <1>10
    <3>2. k \in 1..(Len(queue) - 1) /\ k + 1 \in 1..wait /\ wait + 1 - (k + 1) = wait' + 1 - k
      BY <3>0, <3>1
    <3>3. queue'[k] = queue[k + 1] /\ queue[k + 1].start = bufferedTs - (wait + 1 - (k + 1)) * Tick
      BY <3>2, <1>1, <1>9 DEF AccountInv
    <3>4. QED
      BY <3>2, <3>3
  <2>2. NoTick \in Interval /\ 0 \in Int
    BY DEF NoTick, Interval
  <2>3. Len(queue') = total
    BY <1>9
  <2>4. mpc' = "sleep" /\ ts' = NoTick /\ minTs' = 0 /\ UNCHANGED <<total, bufferedTs>>
    BY <1>2
  <2>5. QED
    BY <2>1, <2>2, <2>3, <2>4, <1>1, <1>9, <1>10 DEF AccountInv, BehindIsBuffered
<1>12. LineInv'
  <2>1. UNCHANGED <<audioTime, now, sessions>> /\ mpc # "off" /\ mpc' # "off"
    BY <1>2 DEF sessionVars
  <2>2. CASE wait # 0
    <3>1. /\ -1 \in Int /\ wait' = wait + (-1) /\ wait' \in Nat /\ Len(queue') = Len(queue) + (-1)
          /\ wait <= Len(queue)
      BY <2>2, <1>9, <1>10
    <3>2. \A k \in DOMAIN queue' : k - (-1) = k + 1
      BY <1>9
    <3>3. \A k \in DOMAIN queue' : k > wait' => queue'[k] = queue[k - (-1)]
      BY <3>2, <1>9
    <3>4. lastOut' = lastOut
      BY <2>2, <1>10
    <3>5. QED
      BY <3>1, <3>3, <3>4, <2>1, <1>1, <1>9, LineShift
  <2>3. CASE wait = 0
    <3> DEFINE x == queue[1].start
    <3>1. wait' = 0 /\ lastOut' = x /\ 1 \in DOMAIN queue /\ 1 > wait /\ x \in Int
      <4>1. lastOut' = x /\ 1 \in DOMAIN queue
        BY <2>3, <1>9, <1>10
      <4>2. QED
        BY <4>1, <2>3, <1>1, <1>10, QueueFacts
    <3>2. x <= now /\ sessions # 0
      BY <3>1, <1>1, <1>2 DEF LineInv
    <3>3. \A k \in DOMAIN queue' : queue'[k].start <= now
      <4>1. \A k \in DOMAIN queue' : queue'[k] = queue[k + 1] /\ k + 1 \in DOMAIN queue /\ k + 1 > wait
        BY <2>3, <1>9
      <4>2. QED
        BY <4>1, <1>1 DEF LineInv
    <3>4. \A k \in DOMAIN queue' : k < Len(queue') => Follows(queue'[k].start, queue'[k + 1].start)
      <4> SUFFICES ASSUME NEW k \in DOMAIN queue', k < Len(queue')
                   PROVE  Follows(queue'[k].start, queue'[k + 1].start)
        OBVIOUS
      <4>1. /\ k + 1 \in 1..(Len(queue) - 1) /\ k + 1 \in DOMAIN queue /\ k + 1 > wait
            /\ k + 1 < Len(queue)
        BY <2>3, <1>9
      <4>2. queue'[k] = queue[k + 1] /\ queue'[k + 1] = queue[k + 1 + 1]
        BY <4>1, <1>9
      <4>3. Follows(queue[k + 1].start, queue[k + 1 + 1].start)
        BY <4>1, <1>1 DEF LineInv
      <4>4. QED
        BY <4>2, <4>3
    <3>5. Len(queue') > 0 => Follows(queue'[Len(queue')].start, audioTime)
      <4> SUFFICES ASSUME Len(queue') > 0
                   PROVE  Follows(queue'[Len(queue')].start, audioTime)
        OBVIOUS
      <4>1. Len(queue') \in 1..(Len(queue) - 1) /\ Len(queue') + 1 = Len(queue) /\ Len(queue) > wait
        BY <2>3, <1>9
      <4>2. queue'[Len(queue')] = queue[Len(queue)]
        BY <4>1, <1>9
      <4>3. QED
        BY <4>1, <4>2, <1>1 DEF LineInv
    <3>6. Follows(x, IF Len(queue') > 0 THEN queue'[1].start ELSE audioTime)
      <4>1. CASE Len(queue') > 0
        <5>1. 1 \in 1..(Len(queue) - 1) /\ 1 < Len(queue) /\ 1 + 1 = 2
          BY <4>1, <1>9
        <5>2. queue'[1] = queue[2] /\ Follows(queue[1].start, queue[1 + 1].start)
          BY <5>1, <3>1, <1>1, <1>9 DEF LineInv
        <5>3. QED
          BY <4>1, <5>1, <5>2
      <4>2. CASE ~(Len(queue') > 0)
        <5>1. Len(queue) = 1 /\ Len(queue) > wait
          BY <4>2, <2>3, <1>9
        <5>2. QED
          BY <4>2, <5>1, <1>1 DEF LineInv
      <4>3. QED
        BY <4>1, <4>2
    <3> HIDE DEF x
    <3>7. QED
      BY <3>1, <3>2, <3>3, <3>4, <3>5, <3>6, <2>1, <1>1 DEF LineInv, Follows
  <2>4. QED
    BY <2>2, <2>3
<1>13. SoundInv'
  <2>1. UNCHANGED <<rendered, flight, cpc, packet>>
    BY <1>2 DEF hookVars, captureVars
  <2>2. \A c \in Clients : Limit(c) \in Int /\ Limit(c)' = Limit(c)
    <3>1. rendered \in [Clients -> Nat] /\ Delay \in Nat /\ PacketTime \in Nat
      BY <1>1, ChannelAssumption, PacketFacts DEF HookInv
    <3>2. QED
      BY <3>1, <2>1 DEF Limit
  <2>3. \A k \in DOMAIN flight : flight[k].client \in Clients /\ flight[k].ts + Delay \in Int
    BY <1>1, ChannelAssumption DEF TravelInv, Due, Packets
  <2>4. cpc \in {"output", "place"} => packet.client \in Clients /\ packet.ts + Delay \in Int
    BY PacketInHand
  <2>5. QED
    BY <2>1, <2>2, <2>3, <2>4, <1>1, <1>3, EmptyFacts DEF SoundInv
<1>14. HeardInv'
  <2>1. lost' \subseteq Clients
    BY <1>1, <1>2 DEF HeardInv
  <2>2. QED
    BY <2>1, <1>1, <1>2 DEF HeardInv
<1>15. HookInv' /\ TravelInv' /\ CaptureInv'
  BY <1>1, <1>2, HookStays, TravelStays, CaptureStays DEF hookVars, sessionVars, captureVars
<1>16. QED
  BY <1>5, <1>7, <1>8, <1>11, <1>12, <1>13, <1>14, <1>15 DEF IInv
-----------------------------------------------------------------------------
(* The invariant, and what follows from it. *)

\* Each step keeps the invariant.
LEMMA Inductive == ASSUME IInv, [Next]_vars PROVE IInv'
<1>1. CASE \E c \in Clients : Release(c)
  BY <1>1, ReleaseStep
<1>2. CASE Pass
  BY <1>2, PassStep
<1>3. CASE Start
  BY <1>3, StartStep
<1>4. CASE Stop
  BY <1>4, StopStep
<1>5. CASE Receive
  BY <1>5, ReceiveStep
<1>6. CASE OutputAudio
  BY <1>6, OutputAudioStep
<1>7. CASE Place
  BY <1>7, PlaceStep
<1>8. CASE CaptureLeaves
  BY <1>8, CaptureLeavesStep
<1>9. CASE FetchAudio
  BY <1>9, FetchAudioStep
<1>10. CASE Pick
  BY <1>10, PickStep
<1>11. CASE FindMin
  BY <1>11, FindMinStep
<1>12. CASE Mark
  BY <1>12, MarkStep
<1>13. CASE Buffer
  BY <1>13, BufferStep
<1>14. CASE Mix
  BY <1>14, MixStep
<1>15. CASE Discard
  BY <1>15, DiscardStep
<1>16. CASE MixLeaves
  BY <1>16, MixLeavesStep
<1>17. CASE UNCHANGED vars
  <2>1. /\ HookInv /\ TravelInv /\ CaptureInv /\ ChannelInv /\ ResetInv
        /\ RoundInv /\ AccountInv /\ LineInv /\ SoundInv /\ HeardInv
    BY DEF IInv
  <2>2. /\ HookInv' /\ TravelInv' /\ CaptureInv' /\ ChannelInv' /\ ResetInv'
        /\ RoundInv' /\ AccountInv' /\ LineInv' /\ SoundInv' /\ HeardInv'
    BY <1>17, <2>1, HookStays, TravelStays, CaptureStays, ChannelStays, ResetStays, RoundStays,
       AccountStays, LineStays, SoundStays, HeardStays
       DEF vars, hookVars, sessionVars, channelVars, captureVars, mixVars, bufferingVars, history
  <2>3. QED
    BY <2>2 DEF IInv
<1>18. QED
  BY <1>1, <1>2, <1>3, <1>4, <1>5, <1>6, <1>7, <1>8, <1>9, <1>10, <1>11, <1>12, <1>13, <1>14,
     <1>15, <1>16, <1>17 DEF Next, CaptureThread, MixThread, TheEnd

\* IInv holds in every reachable state, whatever the clients, the scheduler and
\* the user of OBS do.
THEOREM Invariance == Spec => []IInv
<1>1. ASSUME IInv, [Next]_vars PROVE IInv'
  BY <1>1, Inductive
<1>2. QED
  BY <1>1, InitStep, PTL DEF Spec

\* The types are right: no buffer outgrows MAX_BUF_SIZE, total_buffering_ticks
\* its limit, and no unsigned time of a channel wraps below zero.
THEOREM TypeCorrect == Spec => []TypeOK
<1>1. ASSUME IInv PROVE TypeOK
  <2>1. /\ HookInv /\ TravelInv /\ CaptureInv /\ ChannelInv
        /\ RoundInv /\ AccountInv /\ LineInv /\ HeardInv
    BY <1>1 DEF IInv
  <2>2. rendered \in [Clients -> 0..Horizon]
    <3>1. /\ rendered \in [Clients -> Nat] /\ \A c \in Clients : rendered[c] <= now
          /\ now \in Nat /\ now <= Horizon /\ Horizon \in Nat
      BY <2>1, ScenarioFacts DEF HookInv
    <3>2. \A c \in Clients : rendered[c] \in 0..Horizon
      BY <3>1
    <3>3. QED
      BY <3>1, <3>2
  <2>3. i \in 1..(Len(order) + 1)
    <3>1. mixing \in 0..Len(order) /\ Len(order) \in Nat
      BY <2>1, ListedFacts
    <3>2. QED
      BY <3>1, <2>1 DEF RoundInv
  <2>4. QED
    BY <2>1, <2>2, <2>3 DEF TypeOK, HookInv, CaptureInv, ChannelInv, RoundInv, AccountInv, LineInv, HeardInv
<1>2. QED
  BY <1>1, Invariance, PTL

\* The queue, the ticks to wait for and the total agree (wasapi-capture.c, the
\* buffering).
THEOREM Accounts == Spec => []Buffering
<1>1. ASSUME IInv PROVE Buffering
  <2>1. AccountInv /\ wait \in Nat /\ total \in Nat /\ wait <= total
    BY <1>1, QueueFacts DEF IInv
  <2>2. ASSUME wait > 0 PROVE Head(queue).start = bufferedTs - wait * Tick
    <3>1. queue \in Seq(Interval) /\ queue # <<>>
      <4>1. queue \in Seq(Interval) /\ wait <= Len(queue) /\ Len(queue) \in Nat
        BY <2>1, QueueFacts
      <4>2. QED
        BY <4>1, <2>1, <2>2
    <3>2. Head(queue) = queue[1]
      BY <3>1, TailFacts
    <3>3. 1 \in 1..wait /\ wait + 1 - 1 = wait
      BY <2>1, <2>2
    <3>4. QED
      BY <3>2, <3>3, <2>1 DEF AccountInv
  <2>3. QED
    BY <2>1, <2>2 DEF Buffering, AccountInv
<1>2. QED
  BY <1>1, Invariance, PTL

\* Buffering goes back as far as the channel that is furthest behind, but for
\* less than a frame, or to the limit.
THEOREM BackToBehind == Spec => []BehindIsBuffered
<1>1. IInv => BehindIsBuffered
  BY DEF IInv, AccountInv
<1>2. QED
  BY <1>1, Invariance, PTL

\* No correction of the time stamps puts a channel ahead of the clock by more
\* than the thresholds account for.
THEOREM Clocked == Spec => []NotAhead
<1>1. IInv => NotAhead
  BY DEF IInv, ChannelInv, NotAhead, Ahead
<1>2. QED
  BY <1>1, Invariance, PTL

\* The sounds in a channel, and those of a tick, are in the order in which they
\* were played, however the capture thread and the mix thread interleave.
THEOREM PlayedInOrder == Spec => []InOrder
<1>1. IInv => InOrder
  BY DEF IInv, SoundInv, HeardInv, InOrder, Ordered
<1>2. QED
  BY <1>1, Invariance, PTL

\* The ticks that OBS is given follow one another, but for new sessions.
THEOREM OneStream == Spec => OutputsInOrder
<1>1. ASSUME IInv, [Next]_vars, lastOut # 0, lastOut' # lastOut
      PROVE  lastOut' = lastOut + Tick \/ (sessions > 1 /\ lastOut' > lastOut)
  <2>1. AccountInv /\ LineInv
    BY <1>1 DEF IInv
  <2>2. Discard
    BY <1>1 DEF Next, CaptureThread, MixThread, TheEnd, vars, history, Release, Pass, Start, Stop,
                Receive, OutputAudio, Place, CaptureLeaves, FetchAudio, MixLeaves, Pick, FindMin,
                Mark, Buffer, Mix
  <2>3. /\ wait = 0 /\ lastOut' = queue[1].start /\ Len(queue) > wait /\ 1 \in DOMAIN queue
    BY <2>1, <2>2, <1>1, DiscardFacts
  <2>4. Follows(lastOut, queue[1].start)
    <3>1. wait + 1 = 1
      BY <2>3
    <3>2. QED
      BY <3>1, <2>1, <2>3, <1>1 DEF LineInv
  <2>5. lastOut \in Int /\ queue[1].start \in Int
    BY <2>1, <2>3, QueueFacts DEF LineInv
  <2>6. QED
    BY <2>3, <2>4, <2>5, <1>1 DEF Follows
<1>2. QED
  BY <1>1, Invariance, PTL DEF Spec, OutputsInOrder
-----------------------------------------------------------------------------
(* The mix thread implements TickStream. *)

\* When the ticks of a queue began, but for the first w of them.
LEMMA StartsFacts ==
  ASSUME NEW q \in Seq(Interval), NEW w \in Nat, w <= Len(q)
  PROVE  LET t == [k \in 1..(Len(q) - w) |-> q[k + w].start]
         IN /\ t \in Seq(Int) /\ Len(t) = Len(q) - w /\ Len(q) - w \in Nat
            /\ \A k \in 1..(Len(q) - w) : t[k] = q[k + w].start /\ k + w \in DOMAIN q
<1> DEFINE n == Len(q) - w
           t == [k \in 1..n |-> q[k + w].start]
<1>1. n \in Nat /\ \A k \in 1..n : k + w \in DOMAIN q
  OBVIOUS
<1>2. \A k \in DOMAIN q : q[k].start \in Int
  <2>1. \A k \in DOMAIN q : q[k] \in Interval
    OBVIOUS
  <2>2. QED
    BY <2>1 DEF Interval
<1> HIDE DEF n
<1>3. t \in [1..n -> Int] /\ \A k \in 1..n : t[k] = q[k + w].start
  BY <1>1, <1>2
<1> HIDE DEF t
<1>4. \A g, m : m \in Nat /\ g \in [1..m -> Int] => g \in Seq(Int) /\ Len(g) = m
  OBVIOUS
<1>5. t \in Seq(Int) /\ Len(t) = n
  BY <1>1, <1>3, <1>4
<1>6. QED
  BY <1>1, <1>3, <1>5 DEF n, t

\* The ticks begun and not yet given, before a step
LEMMA TakenFacts ==
  ASSUME AccountInv
  PROVE  /\ Taken \in Seq(Int) /\ Len(Taken) = Len(queue) - wait /\ Len(queue) - wait \in Nat
         /\ \A k \in 1..(Len(queue) - wait) : Taken[k] = queue[k + wait].start /\ k + wait \in DOMAIN queue
<1>1. queue \in Seq(Interval) /\ wait \in Nat /\ wait <= Len(queue)
  BY QueueFacts
<1>2. LET t == [k \in 1..(Len(queue) - wait) |-> queue[k + wait].start]
      IN /\ t \in Seq(Int) /\ Len(t) = Len(queue) - wait /\ Len(queue) - wait \in Nat
         /\ \A k \in 1..(Len(queue) - wait) : t[k] = queue[k + wait].start /\ k + wait \in DOMAIN queue
  BY <1>1, StartsFacts, Zenon
<1>3. QED
  BY <1>2 DEF Taken

\* and after it.
LEMMA TakenFactsAfter ==
  ASSUME AccountInv'
  PROVE  /\ Taken' \in Seq(Int) /\ Len(Taken') = Len(queue') - wait' /\ Len(queue') - wait' \in Nat
         /\ \A k \in 1..(Len(queue') - wait') :
              Taken'[k] = queue'[k + wait'].start /\ k + wait' \in DOMAIN queue'
         /\ wait' \in Nat /\ Len(queue') \in Nat
<1>1. queue' \in Seq(Interval) /\ wait' \in Nat /\ wait' <= Len(queue')
  <2>1. queue' \in Seq(Interval)
    BY DEF AccountInv
  <2>2. wait' \in Nat /\ total' \in 0..MaxTicks /\ wait' <= total'
    BY DEF AccountInv
  <2>3. Len(queue') = total' \/ Len(queue') = total' + 1
    <3>1. Len(queue') = total' + (IF mpc' \in {"off", "sleep"} THEN 0 ELSE 1)
      BY DEF AccountInv
    <3>2. \A t \in 0..MaxTicks : t + 0 = t
      BY MixerAssumption
    <3>3. QED
      BY <3>1, <3>2, <2>2
  <2>4. \A t \in 0..MaxTicks, w \in Nat, n \in Nat : w <= t /\ (n = t \/ n = t + 1) => w <= n
    BY MixerAssumption
  <2>5. Len(queue') \in Nat
    BY <2>1
  <2>6. wait' <= Len(queue')
    BY <2>2, <2>3, <2>4, <2>5
  <2>7. QED
    BY <2>1, <2>2, <2>6
<1>2. LET t == [k \in 1..(Len(queue') - wait') |-> queue'[k + wait'].start]
      IN /\ t \in Seq(Int) /\ Len(t) = Len(queue') - wait' /\ Len(queue') - wait' \in Nat
         /\ \A k \in 1..(Len(queue') - wait') : t[k] = queue'[k + wait'].start /\ k + wait' \in DOMAIN queue'
  BY <1>1, StartsFacts, Zenon
<1>3. Len(queue') \in Nat
  BY <1>1
<1>4. QED
  BY <1>1, <1>2, <1>3 DEF Taken

\* Two sequences are the same when their elements are.
LEMMA SameSequence ==
  ASSUME NEW a \in Seq(Int), NEW b \in Seq(Int), Len(a) = Len(b), \A k \in 1..Len(a) : a[k] = b[k]
  PROVE  a = b
OBVIOUS

\* Ticks that are put before those that wait, or taken away, leave the others.
LEMMA TakenStays ==
  ASSUME AccountInv, AccountInv', NEW n \in Int, wait' = wait + n, Len(queue') = Len(queue) + n,
         \A k \in DOMAIN queue' : k > wait' => queue'[k] = queue[k - n]
  PROVE  Taken' = Taken
<1>1. /\ Taken \in Seq(Int) /\ Len(Taken) = Len(queue) - wait /\ Len(queue) - wait \in Nat
      /\ \A k \in 1..(Len(queue) - wait) : Taken[k] = queue[k + wait].start
  BY TakenFacts
<1>2. /\ Taken' \in Seq(Int) /\ Len(Taken') = Len(queue') - wait'
      /\ \A k \in 1..(Len(queue') - wait') : Taken'[k] = queue'[k + wait'].start /\ k + wait' \in DOMAIN queue'
  BY TakenFactsAfter
<1>3. wait \in Nat /\ wait' \in Nat /\ Len(queue) \in Nat /\ Len(queue') \in Nat
  BY QueueFacts, TakenFactsAfter
<1>4. Len(queue') - wait' = Len(queue) - wait
  BY <1>3
<1>5. \A k \in 1..Len(Taken) : Taken'[k] = Taken[k]
  <2> SUFFICES ASSUME NEW k \in 1..Len(Taken)
               PROVE  Taken'[k] = Taken[k]
    OBVIOUS
  <2>1. /\ Taken[k] = queue[k + wait].start
        /\ Taken'[k] = queue'[k + wait'].start /\ k + wait' \in DOMAIN queue'
    BY <1>1, <1>2, <1>4
  <2>2. k + wait' > wait' /\ k + wait' - n = k + wait
    BY <1>1, <1>3
  <2>3. queue'[k + wait'] = queue[k + wait]
    BY <2>1, <2>2
  <2>4. QED
    BY <2>1, <2>3
<1>6. QED
  BY <1>1, <1>2, <1>4, <1>5, SameSequence

\* Each step of the mixer is one of TickStream, or changes nothing of it.
LEMMA StreamStep ==
  ASSUME IInv, IInv', [Next]_vars
  PROVE  [Stream!Next]_(Stream!vars)
<1>1. AccountInv /\ LineInv /\ AccountInv'
  BY DEF IInv
<1>2. ASSUME UNCHANGED <<queue, wait, audioTime, lastOut>>
      PROVE  UNCHANGED Stream!vars
  BY <1>2 DEF Stream!vars, Taken
<1>3. CASE Start
  <2>1. UNCHANGED <<queue, wait, lastOut>> /\ audioTime' = now /\ now \in Nat
    BY <1>3, ScenarioFacts DEF Start, bufferingVars, history, IInv, HookInv
  <2>2. UNCHANGED Taken
    BY <2>1 DEF Taken
  <2>3. \A k \in DOMAIN Taken : Taken[k] <= now
    <3> SUFFICES ASSUME NEW k \in DOMAIN Taken
                 PROVE  Taken[k] <= now
      OBVIOUS
    <3> k \in 1..(Len(queue) - wait)
      BY <1>1, TakenFacts
    <3>1. /\ k \in 1..(Len(queue) - wait) /\ Taken[k] = queue[k + wait].start /\ k + wait \in DOMAIN queue
          /\ wait \in Nat /\ Len(queue) \in Nat
      BY <1>1, TakenFacts, QueueFacts
    <3>2. k + wait > wait
      BY <3>1
    <3>3. QED
      BY <3>1, <3>2, <1>1 DEF LineInv
  <2>4. \A k \in DOMAIN Taken : Taken[k] \in Int
    BY <1>1, TakenFacts
  <2>5. \A k \in DOMAIN Taken : audioTime' >= Taken[k]
    BY <2>1, <2>3, <2>4
  <2>6. audioTime' \in Nat /\ audioTime' >= lastOut
    BY <2>1, <1>1 DEF LineInv
  <2>7. QED
    BY <2>1, <2>2, <2>5, <2>6 DEF Stream!Next, Stream!Begin
<1>4. CASE FetchAudio
  <2>1. /\ queue' = Append(queue, Span(audioTime)) /\ UNCHANGED <<wait, lastOut>>
        /\ audioTime' = audioTime + Tick
    BY <1>4 DEF FetchAudio, history
  <2>2. /\ queue' \in Seq(Interval) /\ Len(queue) \in Nat /\ Len(queue') = Len(queue) + 1
        /\ \A k \in 1..Len(queue) : queue'[k] = queue[k]
        /\ queue'[Len(queue) + 1].start = audioTime /\ audioTime \in Int
    <3>1. audioTime \in Int /\ audioTime + Tick >= 0
      BY <1>1, TickFacts DEF LineInv
    <3>2. Span(audioTime) \in Interval /\ Span(audioTime).start = audioTime
      BY <3>1, SpanFacts
    <3>3. QED
      BY <3>1, <3>2, <2>1, <1>1, QueueFacts, AppendFacts
  <2> DEFINE n == Len(queue) - wait
             t == Append(Taken, audioTime)
  <2>3. /\ Taken \in Seq(Int) /\ Len(Taken) = n /\ n \in Nat
        /\ \A k \in 1..n : Taken[k] = queue[k + wait].start /\ k + wait \in 1..Len(queue)
        /\ wait \in Nat
    BY <1>1, TakenFacts, QueueFacts
  <2>4. /\ Taken' \in Seq(Int) /\ Len(Taken') = Len(queue') - wait'
        /\ \A k \in 1..(Len(queue') - wait') : Taken'[k] = queue'[k + wait'].start
    BY <1>1, TakenFactsAfter
  <2>5. Len(queue') - wait' = n + 1 /\ n + 1 + wait = Len(queue) + 1
    BY <2>1, <2>2, <2>3
  <2>6. t \in Seq(Int) /\ Len(t) = n + 1 /\ t[n + 1] = audioTime /\ \A k \in 1..n : t[k] = Taken[k]
    <3>1. /\ Len(t) = Len(Taken) + 1 /\ t[Len(Taken) + 1] = audioTime /\ t \in Seq(Int)
          /\ \A k \in 1..Len(Taken) : t[k] = Taken[k]
      <4>1. \A s \in Seq(Int), e \in Int :
              /\ Append(s, e) \in Seq(Int)
              /\ Len(Append(s, e)) = Len(s) + 1 /\ Append(s, e)[Len(s) + 1] = e
              /\ \A k \in 1..Len(s) : Append(s, e)[k] = s[k]
        BY AppendFacts
      <4>2. Taken \in Seq(Int) /\ audioTime \in Int
        BY <2>2, <2>3
      <4>3. QED
        BY <4>1, <4>2, Zenon
    <3>2. QED
      BY <2>3, <3>1
  <2> HIDE DEF n, t
  <2>7. \A k \in 1..(n + 1) : Taken'[k] = t[k]
    <3> SUFFICES ASSUME NEW k \in 1..(n + 1)
                 PROVE  Taken'[k] = t[k]
      OBVIOUS
    <3>1. Taken'[k] = queue'[k + wait].start
      BY <2>1, <2>4, <2>5
    <3>2. CASE k \in 1..n
      BY <3>1, <3>2, <2>2, <2>3, <2>6
    <3>3. CASE k = n + 1
      BY <3>1, <3>3, <2>2, <2>5, <2>6
    <3>4. QED
      BY <3>2, <3>3, <2>3
  <2>8. Taken' = t
    BY <2>4, <2>5, <2>6, <2>7, SameSequence
  <2>9. QED
    BY <2>1, <2>8 DEF Stream!Next, Stream!Take, t
<1>5. CASE Buffer
  <2>1. PICK n \in Nat :
           /\ total' = total + n /\ total' \in 0..MaxTicks /\ wait' = wait + n
           /\ bufferedTs' \in Int
           /\ queue' \in Seq(Interval) /\ Len(queue') = Len(queue) + n
           /\ \A k \in DOMAIN queue' : k > n => queue'[k] = queue[k - n]
           /\ \A k \in 1..wait' : queue'[k].start = bufferedTs' - (wait' + 1 - k) * Tick
           /\ ts' \in Interval /\ ts'.start = queue'[1].start
           /\ minTs > ts'.start - Frame \/ total' = MaxTicks
    BY <1>1, <1>5, BufferFacts
  <2>2. \A k \in DOMAIN queue' : k > wait' => k > n
    BY <2>1, <1>1, QueueFacts
  <2>3. Taken' = Taken
    BY <2>1, <2>2, <1>1, TakenStays
  <2>4. UNCHANGED <<audioTime, lastOut>>
    BY <1>5 DEF Buffer, history
  <2>5. QED
    BY <2>3, <2>4 DEF Stream!vars
<1>6. CASE Discard
  <2>1. /\ queue \in Seq(Interval) /\ Len(queue) \in Nat \ {0} /\ Len(queue) = total + 1
        /\ queue' \in Seq(Interval) /\ Len(queue') = Len(queue) - 1 /\ DOMAIN queue' = 1..(Len(queue) - 1)
        /\ \A k \in 1..(Len(queue) - 1) : queue'[k] = queue[k + 1]
        /\ wait \in Nat /\ total \in Nat /\ wait <= total
        /\ wait' \in Nat /\ (wait = 0 => wait' = 0) /\ (wait # 0 => wait' = wait - 1)
        /\ wait = 0 => lastOut' = queue[1].start
        /\ wait # 0 => lastOut' = lastOut
    BY <1>1, <1>6, DiscardFacts
  <2>2. audioTime' = audioTime
    BY <1>6 DEF Discard
  <2>3. CASE wait # 0
    <3>1. -1 \in Int /\ wait' = wait + (-1) /\ Len(queue') = Len(queue) + (-1)
      BY <2>1, <2>3
    <3>2. \A k \in DOMAIN queue' : k - (-1) = k + 1
      BY <2>1
    <3>3. Taken' = Taken
      BY <3>1, <3>2, <2>1, <1>1, TakenStays
    <3>4. QED
      BY <3>3, <2>1, <2>2, <2>3 DEF Stream!vars
  <2>4. CASE wait = 0
    <3> DEFINE n == Len(queue)
    <3>1. /\ Taken \in Seq(Int) /\ Len(Taken) = n /\ \A k \in 1..n : Taken[k] = queue[k].start
      <4>1. /\ Taken \in Seq(Int) /\ Len(Taken) = n - wait
            /\ \A k \in 1..(n - wait) : Taken[k] = queue[k + wait].start
        BY <1>1, TakenFacts
      <4>2. n - wait = n /\ \A k \in 1..n : k + wait = k
        BY <2>1, <2>4
      <4>3. QED
        BY <4>1, <4>2
    <3>2. Taken' \in Seq(Int) /\ Len(Taken') = n - 1 /\ \A k \in 1..(n - 1) : Taken'[k] = queue[k + 1].start
      <4>1. /\ Taken' \in Seq(Int) /\ Len(Taken') = Len(queue') - wait'
            /\ \A k \in 1..(Len(queue') - wait') : Taken'[k] = queue'[k + wait'].start
        BY <1>1, TakenFactsAfter
      <4>2. Len(queue') - wait' = n - 1 /\ \A k \in 1..(n - 1) : k + wait' = k
        BY <2>1, <2>4
      <4>3. \A k \in 1..(n - 1) : queue'[k] = queue[k + 1]
        BY <2>1
      <4>4. QED
        BY <4>1, <4>2, <4>3
    <3>3. Taken # <<>>
      BY <3>1, <2>1
    <3>4. /\ Head(Taken) = Taken[1] /\ Tail(Taken) \in Seq(Int) /\ Len(Tail(Taken)) = n - 1
          /\ \A k \in 1..(n - 1) : Tail(Taken)[k] = Taken[k + 1] /\ k + 1 \in 1..n
      BY <3>1, <3>3, TailFacts
    <3>5. Taken' = Tail(Taken)
      <4>1. \A k \in 1..(n - 1) : Taken'[k] = Tail(Taken)[k]
        BY <3>1, <3>2, <3>4
      <4>2. QED
        BY <4>1, <3>2, <3>4, SameSequence
    <3>6. lastOut' = Head(Taken)
      BY <3>1, <3>4, <2>1, <2>4
    <3>7. QED
      BY <3>3, <3>5, <3>6, <2>2 DEF Stream!Next, Stream!Give
  <2>5. QED
    BY <2>3, <2>4
<1>7. CASE \/ \E c \in Clients : Release(c)
           \/ Pass \/ Stop \/ Receive \/ OutputAudio \/ Place \/ CaptureLeaves \/ Pick \/ FindMin
           \/ Mark \/ Mix \/ MixLeaves \/ UNCHANGED vars
  <2>1. UNCHANGED <<queue, wait, audioTime, lastOut>>
    BY <1>7 DEF vars, mixVars, bufferingVars, history, Release, Pass, Stop, Receive, OutputAudio, Place,
                CaptureLeaves, MixLeaves, Pick, FindMin, Mark, Mix
  <2>2. QED
    BY <2>1, <1>2
<1>8. QED
  BY <1>3, <1>4, <1>5, <1>6, <1>7 DEF Next, CaptureThread, MixThread, TheEnd

\* Each tick of the mix thread's clock goes to OBS once, in order, however ticks
\* are put before those that wait, and whatever a session leaves behind.
THEOREM Implements == Spec => StreamSpec
<1>1. ASSUME Init PROVE Stream!Init
  <2>1. Len(queue) - wait = 0 /\ audioTime = 0 /\ lastOut = 0
    BY <1>1 DEF Init
  <2>2. Taken \in Seq(Int) /\ Len(Taken) = 0
    BY <1>1, <2>1, InitStep, TakenFacts DEF IInv
  <2>3. Taken = <<>>
    BY <2>2
  <2>4. QED
    BY <2>1, <2>3 DEF Stream!Init
<1>2. ASSUME IInv, IInv', [Next]_vars PROVE [Stream!Next]_(Stream!vars)
  BY <1>2, StreamStep
<1>3. QED
  BY <1>1, <1>2, Invariance, PTL DEF Spec, StreamSpec, Stream!Spec
-----------------------------------------------------------------------------
(***************************************************************************)
(* No sample is heard twice, nor after a later one, while packets are late *)
(* by less than what the Delay leaves.                                     *)
(*                                                                         *)
(* What is mixed was copied from the buffer when the channel was picked,   *)
(* and stays in the buffer until it is discarded, under another lock: in   *)
(* between the capture thread may reset the channel, or cut its buffer     *)
(* behind a packet that belongs further in front.  If it could cut the     *)
(* buffer amid the samples that were mixed, discard_audio would find too   *)
(* few and leave them all, to be mixed again (see MixerTwice.cfg).         *)
(***************************************************************************)

\* A packet is placed no earlier than where the tick at work ends: what it may be
\* late, what its time stamp may be smoothed and what is rounded fit into the Delay.
InTime(s) == s.late + (Smooth - 1) + Tick + (Frame - 1) <= Delay + PacketTime

\* What client c was heard with, and what of it is picked, was played before t.
Past(c, t) == Below(channel[c].out, t) /\ \A h \in heard[c] : h[1] < t

PastInv ==
  /\ \A c \in Clients : Past(c, Limit(c))
  /\ \A k \in DOMAIN flight : Past(flight[k].client, flight[k].ts + Delay)
  /\ cpc \in {"output", "place"} => Past(packet.client, packet.ts + Delay)

\* A channel that was reset is empty until the packet is placed.
EmptyInv == cpc = "place" => channel[packet.client].buf = <<>>

\* The frames of client c's channel that go into the tick at work.
Rest(c) == Block - StartPoint(channel[c], ts)

\* What is behind the first n frames of its buffer was played after what was heard.
NewBehind(c, n) == \A h \in heard[c] : Above(channel[c].buf, n, h[1])

\* Between being mixed and being discarded the buffer may begin with what was heard:
\* no more of it than will be discarded.
Used(c) ==
  /\ mpc \in {"mix", "discard"} /\ wait = 0 /\ c \in Listed
  /\ ts.start <= channel[c].audioTs /\ channel[c].audioTs < ts.end
  /\ Rest(c) \in 1..Len(channel[c].buf)
  /\ NewBehind(c, Rest(c))

BufInv == \A c \in Clients : NewBehind(c, 0) \/ Used(c)

\* The places in order of the clients that are picked and not yet mixed.
ToMix == CASE mpc = "pick" -> 1..(i - 1)
           [] mpc \in {"find", "mark", "refind", "buffer"} -> 1..mixing
           [] mpc = "mix" -> i..mixing
           [] OTHER -> {}

\* The buffer still begins with what was picked of it, as much as the tick takes; or
\* it was reset, and all that is in it is new.
Kept(c) ==
  LET ch == channel[c]
  IN \/ \A j \in DOMAIN ch.out : ch.out[j] # 0 => Above(ch.buf, 0, ch.out[j])
     \/ /\ ch.audioTs >= ts.start => Rest(c) <= Len(ch.buf)
        /\ \A j \in DOMAIN ch.out : ch.out[j] # 0 => Above(ch.buf, j, ch.out[j])

\* What was picked was played after what was heard.
NotYet(c) == \A j \in DOMAIN channel[c].out : channel[c].out[j] # 0 =>
              \A h \in heard[c] : h[1] < channel[c].out[j]

OutInv ==
  /\ mpc = "mix" => wait = 0
  /\ wait = 0 => \A k \in ToMix : ~channel[order[k]].pending => NotYet(order[k]) /\ Kept(order[k])

OnceInv == PastInv /\ EmptyInv /\ BufInv /\ OutInv

\* What is heard, picked, and in a buffer, is a time.
LEMMA TimeFacts ==
  ASSUME IInv, NEW c \in Clients
  PROVE  /\ channel[c] \in Channel /\ Bounded(channel[c])
         /\ channel[c].buf \in Seq(Nat) /\ Len(channel[c].buf) \in Nat
         /\ channel[c].out \in Seq(Nat) /\ DOMAIN channel[c].out = 1..Len(channel[c].out)
         /\ \A j \in DOMAIN channel[c].out : channel[c].out[j] \in Nat /\ j \in Nat \ {0}
         /\ \A h \in heard[c] : h \in Nat \X Int /\ h[1] \in Nat
<1>1. channel[c] \in Channel /\ Bounded(channel[c]) /\ heard[c] \in SUBSET (Nat \X Int)
  BY DEF IInv, ChannelInv, HeardInv, Bounded
<1>2. channel[c].buf \in Seq(Nat) /\ channel[c].out \in Seq(Nat)
  BY <1>1 DEF Channel
<1> DEFINE b == channel[c].buf
           o == channel[c].out
<1>3. \A q \in Seq(Nat) : Len(q) \in Nat /\ DOMAIN q = 1..Len(q) /\ \A j \in DOMAIN q : q[j] \in Nat /\ j \in Nat \ {0}
  OBVIOUS
<1>4. \A h \in heard[c] : h \in Nat \X Int /\ h[1] \in Nat
  BY <1>1
<1>5. QED
  BY <1>1, <1>2, <1>3, <1>4

\* The places in order that are picked and not yet mixed are those of clients.
LEMMA ToMixFacts ==
  ASSUME IInv
  PROVE  /\ order \in Seq(Clients) /\ Len(order) \in Nat /\ mixing \in Nat /\ mixing <= Len(order)
         /\ i \in Nat \ {0}
         /\ \A k \in ToMix : k \in 1..mixing /\ k \in 1..Len(order) /\ order[k] \in Clients
         /\ \A k \in ToMix : channel[order[k]].pending \/ Len(channel[order[k]].out) = Block
<1>1. CaptureInv /\ RoundInv
  BY DEF IInv
<1>2. /\ order \in Seq(Clients) /\ Len(order) \in Nat /\ mixing \in 0..Len(order)
      /\ \A k \in 1..Len(order) : order[k] \in Clients
  BY <1>1, ListedFacts
<1>3. mpc \in {"pick", "mix"} => i \in 1..mixing
  BY <1>1 DEF RoundInv
<1>4. i \in Nat \ {0}
  BY <1>1, <1>2 DEF RoundInv
<1>5. \A k \in ToMix : k \in 1..mixing
  BY <1>2, <1>3, <1>4 DEF ToMix
<1>6. \A k \in ToMix : k \in 1..Len(order)
  BY <1>2, <1>5
<1>7. ASSUME NEW k \in ToMix
      PROVE  channel[order[k]].pending \/ Len(channel[order[k]].out) = Block
  <2>1. Ready(channel[order[k]])
    BY <1>1, <1>5 DEF RoundInv, ToMix
  <2>2. QED
    BY <2>1 DEF Ready
<1>8. QED
  BY <1>2, <1>4, <1>5, <1>6, <1>7

\* What was played before a time stays so, while no client plays or is received.
LEMMA PastKeeps ==
  ASSUME IInv, PastInv, rendered' = rendered, flight' \in {flight, <<>>},
         cpc' \in {"output", "place"} => cpc \in {"output", "place"} /\ packet' = packet,
         \A c \in Clients : \A t \in Int : Below(channel[c].buf, t) /\ Past(c, t) => Past(c, t)'
  PROVE  PastInv'
<1>1. SoundInv /\ TravelInv /\ HookInv /\ Delay \in Nat /\ PacketTime \in Nat
  BY ChannelAssumption, PacketFacts DEF IInv
<1>2. \A c \in Clients : Limit(c) \in Int /\ Limit(c)' = Limit(c)
  BY <1>1 DEF HookInv, Limit
<1>3. \A c \in Clients : Past(c, Limit(c))'
  <2> SUFFICES ASSUME NEW c \in Clients
               PROVE  Past(c, Limit(c))'
    OBVIOUS
  <2>1. Below(channel[c].buf, Limit(c)) /\ Past(c, Limit(c))
    BY <1>1 DEF PastInv, SoundInv
  <2>2. Below(channel'[c].out, Limit(c)) /\ \A h \in heard'[c] : h[1] < Limit(c)
    BY <2>1, <1>2 DEF Past
  <2>3. QED
    BY <2>2, <1>2 DEF Past
<1>4. ASSUME NEW k \in DOMAIN flight'
      PROVE  Past(flight[k].client, flight[k].ts + Delay)' /\ flight' = flight
  <2>1. flight' = flight /\ k \in DOMAIN flight
    OBVIOUS
  <2>2. flight[k].client \in Clients /\ flight[k].ts + Delay \in Int
    BY <1>1, <2>1 DEF TravelInv, Due, Packets
  <2>3. Below(channel[flight[k].client].buf, flight[k].ts + Delay) /\ Past(flight[k].client, flight[k].ts + Delay)
    BY <1>1, <2>1 DEF PastInv, SoundInv
  <2>4. /\ Below(channel'[flight[k].client].out, flight[k].ts + Delay)
        /\ \A h \in heard'[flight[k].client] : h[1] < flight[k].ts + Delay
    BY <2>2, <2>3 DEF Past
  <2>5. QED
    BY <2>1, <2>4 DEF Past
<1>5. ASSUME cpc' \in {"output", "place"}
      PROVE  Past(packet.client, packet.ts + Delay)'
  <2>1. cpc \in {"output", "place"} /\ packet' = packet
    BY <1>5
  <2>2. packet.client \in Clients /\ packet.ts + Delay \in Int
    BY <2>1, PacketInHand
  <2>3. Below(channel[packet.client].buf, packet.ts + Delay) /\ Past(packet.client, packet.ts + Delay)
    BY <1>1, <2>1 DEF PastInv, SoundInv
  <2>4. /\ Below(channel'[packet.client].out, packet.ts + Delay)
        /\ \A h \in heard'[packet.client] : h[1] < packet.ts + Delay
    BY <2>2, <2>3 DEF Past
  <2>5. QED
    BY <2>1, <2>4 DEF Past
<1>6. QED
  BY <1>3, <1>4, <1>5 DEF PastInv

\* A step of no thread that works at a channel leaves all as it is.
LEMMA OnceStays ==
  ASSUME OnceInv, UNCHANGED <<channel, heard, mpc, i, mixing, ts, wait, order>>
  PROVE  BufInv' /\ OutInv'
BY DEF OnceInv, BufInv, OutInv, NewBehind, Used, Rest, Listed, ToMix, Kept, NotYet

\* A packet of client c's takes out no sound but to cut what is behind it, and cuts the
\* buffer no shorter than the tick at work needs, or resets the channel.
LEMMA PacketOnce ==
  ASSUME IInv, OnceInv, cpc \in {"output", "place"}, NEW c \in Clients, c = packet.client,
         NEW ch \in Channel, channel' = [channel EXCEPT ![c] = ch],
         ch.out = channel[c].out, ch.pending = channel[c].pending,
         \A x \in Int, n \in Nat :
           x < packet.ts + Delay /\ Above(channel[c].buf, n, x) => Above(ch.buf, n, x),
         \/ \A x \in Int : x < packet.ts + Delay => Above(ch.buf, 0, x)
         \/ /\ ch.audioTs = channel[c].audioTs
            /\ \/ Len(ch.buf) >= Len(channel[c].buf)
               \/ wait = 0 /\ mpc \notin {"off", "sleep"} /\ ts.start <= ch.audioTs
                    => Block - StartPoint(ch, ts) <= Len(ch.buf),
         UNCHANGED <<heard, mpc, i, mixing, ts, wait, order>>
  PROVE  BufInv' /\ OutInv'
<1> DEFINE old == channel[c]
           t == packet.ts + Delay
           AllNew == \A x \in Int : x < t => Above(ch.buf, 0, x)
           Long == wait = 0 /\ mpc \notin {"off", "sleep"} /\ ts.start <= ch.audioTs
                     => Block - StartPoint(ch, ts) <= Len(ch.buf)
           Same == ch.audioTs = old.audioTs /\ (Len(ch.buf) >= Len(old.buf) \/ Long)
<1>1. /\ c \in Clients /\ t \in Int /\ channel \in [Clients -> Channel]
      /\ BufInv /\ OutInv /\ Past(c, t)
  BY PacketInHand DEF IInv, ChannelInv, OnceInv, PastInv
<1>2. channel'[c] = ch /\ \A d \in Clients : d # c => channel'[d] = channel[d]
  BY <1>1
<1>3. /\ \A h \in heard[c] : h[1] \in Int /\ h[1] < t
      /\ \A j \in DOMAIN old.out : j \in Nat /\ old.out[j] \in Int /\ (old.out[j] # 0 => old.out[j] < t)
      /\ Len(old.buf) \in Nat
  BY <1>1, TimeFacts DEF Past, Below
<1>4. Len(ch.buf) \in Nat /\ Block \in Nat /\ ch.audioTs \in Nat /\ ts.start \in Int /\ Frame \in Nat \ {0}
  BY ChannelAssumption DEF Channel, IInv, AccountInv, Interval
<1>5. AllNew \/ Same
  OBVIOUS
<1>6. \A x \in Int, n \in Nat : x < t /\ Above(old.buf, n, x) => Above(ch.buf, n, x)
  OBVIOUS
<1>7. ch.out = old.out /\ ch.pending = old.pending
  OBVIOUS
<1>8. StartPoint(ch, ts) \in Int
  BY <1>4, Division DEF StartPoint, TimeToFrames
<1> HIDE DEF old, t, AllNew, Long, Same
<1>9. \A n \in Nat : NewBehind(c, n) => NewBehind(c, n)'
  BY <1>2, <1>3, <1>6 DEF NewBehind, old
<1>10. AllNew => NewBehind(c, 0)'
  BY <1>2, <1>3 DEF NewBehind, AllNew
<1>11. Same => Rest(c)' = Rest(c) /\ Rest(c) = Block - StartPoint(ch, ts)
  BY <1>2 DEF Same, Rest, StartPoint, old
<1>12. Same /\ Used(c) => Used(c)'
  <2> SUFFICES ASSUME Same, Used(c)
               PROVE  Used(c)'
    OBVIOUS
  <2>1. /\ mpc \in {"mix", "discard"} /\ wait = 0 /\ c \in Listed
        /\ ts.start <= old.audioTs /\ old.audioTs < ts.end
        /\ Rest(c) \in 1..Len(old.buf) /\ NewBehind(c, Rest(c))
    BY DEF Used, old
  <2>2. Rest(c)' = Rest(c) /\ Rest(c) = Block - StartPoint(ch, ts) /\ ch.audioTs = old.audioTs
    BY <1>11 DEF Same
  <2>3. Rest(c) <= Len(ch.buf)
    <3>1. CASE Len(ch.buf) >= Len(old.buf)
      BY <3>1, <2>1, <1>3, <1>4
    <3>2. CASE Long
      BY <3>2, <2>1, <2>2 DEF Long
    <3>3. QED
      BY <3>1, <3>2 DEF Same
  <2>4. Rest(c) \in 1..Len(ch.buf) /\ Rest(c) \in Nat
    BY <2>1, <2>3, <1>3, <1>4
  <2>5. NewBehind(c, Rest(c))'
    <3> DEFINE n == Rest(c)
    <3>1. n \in Nat /\ NewBehind(c, n) /\ n' = n
      BY <2>1, <2>2, <2>4
    <3>2. \A h \in heard[c] : Above(channel'[c].buf, n, h[1])
      BY <3>1, <1>2, <1>3, <1>6 DEF NewBehind, old
    <3>3. QED
      BY <3>1, <3>2 DEF NewBehind
  <2>6. c \in Listed'
    BY <2>1 DEF Listed
  <2>7. QED
    BY <2>1, <2>2, <2>4, <2>5, <2>6, <1>2 DEF Used
<1>13. BufInv'
  <2> SUFFICES ASSUME NEW d \in Clients
               PROVE  (NewBehind(d, 0) \/ Used(d))'
    BY DEF BufInv
  <2>1. CASE d = c
    <3>1. NewBehind(c, 0) \/ Used(c)
      BY <1>1 DEF BufInv
    <3>2. QED
      BY <2>1, <3>1, <1>5, <1>9, <1>10, <1>12
  <2>2. CASE d # c
    <3>1. channel'[d] = channel[d] /\ (NewBehind(d, 0) \/ Used(d))
      BY <2>2, <1>1, <1>2 DEF BufInv
    <3>2. QED
      BY <3>1 DEF NewBehind, Used, Rest, Listed
  <2>3. QED
    BY <2>1, <2>2
<1>14. ToMix' = ToMix /\ (ToMix # {} => mpc \notin {"off", "sleep"})
  BY DEF ToMix
<1>15. NotYet(c) => NotYet(c)'
  BY <1>2, <1>7 DEF NotYet, old
<1>16. Kept(c) /\ wait = 0 /\ mpc \notin {"off", "sleep"} => Kept(c)'
  <2> SUFFICES ASSUME Kept(c), wait = 0, mpc \notin {"off", "sleep"}
               PROVE  Kept(c)'
    OBVIOUS
  <2>1. CASE \/ AllNew
             \/ \A j \in DOMAIN old.out : old.out[j] # 0 => Above(old.buf, 0, old.out[j])
    <3>1. \A j \in DOMAIN ch.out : ch.out[j] # 0 => Above(ch.buf, 0, ch.out[j])
      BY <2>1, <1>3, <1>6, <1>7 DEF AllNew
    <3>2. QED
      BY <3>1, <1>2 DEF Kept
  <2>2. CASE /\ Same
             /\ old.audioTs >= ts.start => Rest(c) <= Len(old.buf)
             /\ \A j \in DOMAIN old.out : old.out[j] # 0 => Above(old.buf, j, old.out[j])
    <3>1. \A j \in DOMAIN ch.out : ch.out[j] # 0 => Above(ch.buf, j, ch.out[j])
      BY <2>2, <1>3, <1>6, <1>7
    <3>2. ch.audioTs >= ts.start => Rest(c)' <= Len(ch.buf)
      <4> SUFFICES ASSUME ch.audioTs >= ts.start
                   PROVE  Rest(c)' <= Len(ch.buf)
        OBVIOUS
      <4>1. /\ Rest(c)' = Block - StartPoint(ch, ts) /\ Rest(c)' = Rest(c)
            /\ ch.audioTs = old.audioTs /\ ts.start <= ch.audioTs
        BY <2>2, <1>4, <1>11 DEF Same
      <4>2. CASE Len(ch.buf) >= Len(old.buf)
        <5>1. Rest(c)' <= Len(old.buf) /\ Rest(c)' \in Int
          BY <4>1, <2>2, <1>4, <1>8
        <5>2. QED
          BY <5>1, <4>2, <1>3, <1>4
      <4>3. CASE Long
        BY <4>1, <4>3 DEF Long
      <4>4. QED
        BY <4>2, <4>3, <2>2 DEF Same
    <3>3. QED
      BY <3>1, <3>2, <1>2 DEF Kept
  <2>3. QED
    BY <2>1, <2>2, <1>5 DEF Kept, old
<1>17. OutInv'
  <2> SUFFICES ASSUME wait = 0, NEW k \in ToMix, ~channel'[order[k]].pending
               PROVE  NotYet(order[k])' /\ Kept(order[k])'
    <3>1. mpc = "mix" => wait = 0
      BY <1>1 DEF OutInv
    <3>2. QED
      BY <3>1, <1>14 DEF OutInv
  <2>1. order[k] \in Clients /\ mpc \notin {"off", "sleep"}
    BY <1>14, ToMixFacts
  <2>2. CASE order[k] = c
    <3>1. NotYet(c) /\ Kept(c)
      BY <2>2, <1>1, <1>2, <1>7 DEF OutInv, old
    <3>2. QED
      BY <2>1, <2>2, <3>1, <1>15, <1>16
  <2>3. CASE order[k] # c
    <3> DEFINE d == order[k]
    <3>1. channel'[d] = channel[d] /\ d' = d
      BY <2>1, <2>3, <1>2
    <3>2. NotYet(d) /\ Kept(d)
      BY <3>1, <1>1 DEF OutInv
    <3> HIDE DEF d
    <3>3. NotYet(d)' /\ Kept(d)'
      BY <3>1, <3>2 DEF NotYet, Kept, Rest
    <3>4. QED
      BY <3>3, <3>1 DEF d
  <2>4. QED
    BY <2>2, <2>3
<1>18. QED
  BY <1>13, <1>17

\* A packet is placed no earlier than its lateness and the smoothing of its time stamp
\* account for.
LEMMA StampedLate ==
  ASSUME NEW c \in Channel, NEW at \in Nat, NEW n \in Nat, NEW os \in Nat, at <= os,
         NEW late \in Nat, os - at <= late
  PROVE  Stamped(c, at, n, os).ts >= os + Delay - late - (Smooth - 1)
<1> DEFINE direct == Diff(at, os) < MaxVar
           jumped == c.nextTs # 0 /\ Diff(c.nextTs, at) > MaxVar /\ ~direct
           smooth == c.nextTs # 0 /\ Diff(c.nextTs, at) < Smooth
           start  == IF smooth THEN c.nextTs ELSE at
           adjust == IF direct THEN 0 ELSE IF jumped THEN os - at ELSE c.adjust
           diff   == Diff(c.nextSys, start + adjust)
           resync == c.nextSys # 0 /\ diff > MaxVar
           final  == (IF resync THEN os ELSE start + adjust) + Delay
<1>1. c.nextTs \in Nat /\ c.adjust \in Nat /\ Smooth \in Nat \ {0} /\ Delay \in Nat
  BY ChannelAssumption DEF Channel
<1>2. Stamped(c, at, n, os).ts = final
  BY DEF Stamped
<1>3. start \in Nat /\ start >= at - (Smooth - 1)
  <2>1. CASE smooth
    <3>1. Diff(c.nextTs, at) < Smooth /\ start = c.nextTs
      BY <2>1
    <3>2. QED
      BY <3>1, <1>1 DEF Diff
  <2>2. CASE ~smooth
    BY <2>2, <1>1
  <2>3. QED
    BY <2>1, <2>2
<1> HIDE DEF start, direct, jumped
<1>4. adjust \in Int /\ adjust >= 0
  BY <1>1
<1> HIDE DEF adjust, resync
<1>5. (IF resync THEN os ELSE start + adjust) >= os - late - (Smooth - 1)
  BY <1>1, <1>3, <1>4
<1>6. (IF resync THEN os ELSE start + adjust) \in Int
  BY <1>3, <1>4
<1>7. final >= os + Delay - late - (Smooth - 1)
  <2> DEFINE x == IF resync THEN os ELSE start + adjust
  <2>1. x \in Int /\ x >= os - late - (Smooth - 1) /\ final = x + Delay
    BY <1>5, <1>6
  <2> HIDE DEF x, final
  <2>2. QED
    BY <2>1, <1>1
<1>8. QED
  BY <1>2, <1>7

\* Of three times, the frames from the first to the second and from there to the third,
\* and those of a packet, are a block, when the times are as far apart.
LEMMA CoverFacts ==
  ASSUME NEW s \in Int, NEW a \in Int, NEW u \in Int, s <= a, a <= u,
         u - s >= Tick + (Frame - 1) - PacketTime
  PROVE  Block - TimeToFrames(a - s) <= TimeToFrames(u - a) + Packet
<1> DEFINE p == TimeToFrames(a - s)
           q == TimeToFrames(u - a)
<1>1. /\ Frame \in Nat \ {0} /\ Block \in Nat /\ Packet \in Nat
      /\ Tick = Block * Frame /\ PacketTime = Packet * Frame
  BY ChannelAssumption, TickFacts, PacketFacts
<1>2. a - s \in Int /\ u - a \in Int
  OBVIOUS
<1>3. p \in Int /\ a - s < p * Frame + Frame
  BY <1>1, <1>2, Division DEF TimeToFrames
<1>4. q \in Int /\ u - a < q * Frame + Frame
  BY <1>1, <1>2, Division DEF TimeToFrames
<1> HIDE DEF p, q
<1> DEFINE x == p * Frame
           y == q * Frame
           b == Block * Frame
           k == Packet * Frame
           d == p + q + Packet - Block
<1>5. x \in Int /\ y \in Int /\ b \in Int /\ k \in Int /\ d \in Int /\ d * Frame = x + y + k - b
  BY <1>1, <1>3, <1>4
<1>6. a - s < x + Frame /\ u - a < y + Frame /\ u - s >= b + (Frame - 1) - k
  BY <1>1, <1>3, <1>4
<1> HIDE DEF x, y, b, k, d
<1>7. d * Frame + Frame > 0
  BY <1>1, <1>5, <1>6
<1>8. (d + 1) * Frame > 0
  BY <1>1, <1>5, <1>7
<1>9. d + 1 > 0
  <2> SUFFICES ASSUME d + 1 <= 0
               PROVE  FALSE
    BY <1>5
  <2>1. (d + 1) * Frame <= 0
    BY <1>1, <1>5
  <2>2. QED
    BY <2>1, <1>1, <1>5, <1>8
<1>10. QED
  BY <1>1, <1>3, <1>4, <1>5, <1>9 DEF d, p, q

\* The tick at work, when it is to go to OBS, has begun.
LEMMA TickBegun ==
  ASSUME IInv, wait = 0, mpc \notin {"off", "sleep"}
  PROVE  ts.start \in Int /\ ts.start <= now
<1>1. AccountInv /\ LineInv
  BY DEF IInv
<1>2. Len(queue) \in Nat /\ DOMAIN queue = 1..Len(queue) /\ Len(queue) = total + 1 /\ total \in Nat
  BY <1>1, QueueFacts
<1>3. 1 \in DOMAIN queue /\ 1 > wait
  BY <1>2
<1>4. queue[1].start <= now /\ queue[1].start \in Int
  BY <1>1, <1>3, QueueFacts DEF LineInv
<1>5. QED
  BY <1>1, <1>4 DEF AccountInv

\* A packet that comes in time neither brings back what was heard, nor cuts off what is
\* being mixed.
LEMMA OutputAudioOnce == ASSUME IInv, OnceInv, InTime(scenario), OutputAudio PROVE OnceInv'
<1>1. cpc = "output" /\ cpc \in {"output", "place"}
  BY DEF OutputAudio
<1>2. PICK c \in Clients : c = packet.client
  BY <1>1, PacketInHand
<1> DEFINE t == packet.ts + Delay
           samples == Samples(packet)
           s == Stamped(channel[c], packet.ts, Packet, now)
<1>3. /\ packet \in Packets /\ packet.ts \in Nat /\ t \in Int
      /\ packet.ts <= now /\ now - packet.ts <= scenario.late /\ now \in Nat
      /\ channel[c] \in Channel /\ Bounded(channel[c]) /\ channel[c].adjust <= scenario.late
      /\ Ordered(channel[c].buf) /\ Below(channel[c].buf, t) /\ Ordered(samples)
      /\ samples \in Seq(Nat) /\ Len(samples) = Packet /\ \A k \in DOMAIN samples : samples[k] # 0 => samples[k] >= t
      /\ scenario.late \in Nat /\ Ahead \in Nat /\ scenario.late - MaxVar <= Ahead
      /\ channel \in [Clients -> Channel] /\ Packet \in Nat
  BY <1>1, <1>2, PacketInHand, SampleFacts, PacketFacts DEF Bounded, IInv, ChannelInv
<1>4. s.ts >= now + Delay - scenario.late - (Smooth - 1)
  BY <1>3, StampedLate
<1>5. /\ s.channel \in Channel /\ s.ts \in Nat
      /\ s.channel.buf = channel[c].buf /\ s.channel.out = channel[c].out
      /\ s.channel.pending = channel[c].pending /\ s.channel.audioTs = channel[c].audioTs
  <2> DEFINE x == channel[c]
             at == packet.ts
             late == scenario.late
  <2>1. /\ x \in Channel /\ at \in Nat /\ Packet \in Nat /\ now \in Nat /\ at <= now
        /\ late \in Nat /\ now - at <= late /\ x.adjust <= late
        /\ Ahead \in Nat /\ late - MaxVar <= Ahead
    BY <1>3
  <2>2. s = Stamped(x, at, Packet, now)
    OBVIOUS
  <2> HIDE DEF x, at, late, s
  <2>3. LET r == Stamped(x, at, Packet, now)
        IN /\ r.channel \in Channel /\ r.ts \in Nat /\ r.pushBack \in BOOLEAN
           /\ r.channel.buf = x.buf /\ r.channel.out = x.out /\ r.channel.pending = x.pending
           /\ r.channel.audioTs = x.audioTs
           /\ r.channel.adjust <= late
           /\ r.channel.nextTs + r.channel.adjust < now + Smooth + FramesToTime(Packet) + Ahead
    BY <2>1, StampedFacts, Zenon
  <2>4. QED
    BY <2>2, <2>3 DEF x
<1> HIDE DEF s, samples, t
<1> DEFINE old == s.channel
<1>6. /\ Bounded(old) /\ old.audioTs \in Nat /\ Len(old.buf) \in Nat
      /\ Ordered(old.buf) /\ Below(old.buf, t)
  BY <1>3, <1>5, TimeFacts DEF Bounded, Channel
<1>7. /\ UNCHANGED <<scenario, now, hookVars, sessionVars, order, mixVars, bufferingVars, lastOut, heard>>
      /\ \/ Output(packet, PushedBack(old, samples))
         \/ ~NeedsReset(old, s.ts) /\ Output(packet, Placed(old, s.ts, samples))
         \/ /\ channel' = [channel EXCEPT ![c] = ResetData(old, s.ts)]
            /\ cpc' = "place"
            /\ UNCHANGED packet
  BY <1>2 DEF OutputAudio, s, samples
<1> HIDE DEF old
<1>8. PICK ch \in Channel :
        /\ channel' = [channel EXCEPT ![c] = ch]
        /\ ch.out = old.out /\ ch.pending = old.pending
        /\ \A x \in Int, n \in Nat : x < t /\ Above(old.buf, n, x) => Above(ch.buf, n, x)
        /\ \/ ch.buf = <<>>
           \/ /\ ch.audioTs = old.audioTs /\ cpc' = "wait"
              /\ \/ Len(ch.buf) >= Len(old.buf)
                 \/ ch.audioTs <= s.ts /\ Len(ch.buf) = TimeToFrames(s.ts - ch.audioTs) + Packet
        /\ \/ cpc' = "wait"
           \/ ch.buf = <<>> /\ packet' = packet
  <2>1. CASE Output(packet, PushedBack(old, samples))
    <3> DEFINE ch == PushedBack(old, samples)
    <3>1. /\ ch.audioTs = old.audioTs /\ Len(ch.buf) >= Len(old.buf)
          /\ \A x \in Int, n \in Nat : x < t /\ Above(old.buf, n, x) => Above(ch.buf, n, x)
      BY <1>3, <1>6, PushedBackAbove
    <3>2. Bounded(ch) /\ ch.out = old.out /\ ch.pending = old.pending
      BY <1>3, <1>6, PushedBackFacts
    <3>3. channel' = [channel EXCEPT ![c] = ch] /\ cpc' = "wait"
      BY <2>1, <1>2 DEF Output
    <3> HIDE DEF ch
    <3>4. ch \in Channel
      BY <3>2 DEF Bounded
    <3>5. QED
      BY <3>1, <3>2, <3>3, <3>4
  <2>2. CASE ~NeedsReset(old, s.ts) /\ Output(packet, Placed(old, s.ts, samples))
    <3> DEFINE ch == Placed(old, s.ts, samples)
    <3>1. s.ts >= old.audioTs
      BY <2>2, <1>5, <1>6 DEF NeedsReset
    <3>2. /\ ch.audioTs = old.audioTs
          /\ Len(ch.buf) >= Len(old.buf) \/ Len(ch.buf) = TimeToFrames(s.ts - old.audioTs) + Packet
          /\ \A x \in Int, n \in Nat : x < t /\ Above(old.buf, n, x) => Above(ch.buf, n, x)
      <4> DEFINE u == s.ts
                 at == TimeToFrames(u - old.audioTs)
      <4>1. u \in Nat /\ u >= old.audioTs
        BY <3>1, <1>5
      <4> HIDE DEF u
      <4>2. LET d == Placed(old, u, samples)
                x == TimeToFrames(u - old.audioTs)
            IN /\ d.audioTs = old.audioTs /\ x \in Nat
               /\ Len(d.buf) >= Len(old.buf) \/ Len(d.buf) = x + Len(samples)
               /\ \A y \in Int, n \in Nat : y < t /\ Above(old.buf, n, y) => Above(d.buf, n, y)
        BY <4>1, <1>3, <1>6, PlacedAbove, Zenon
      <4>3. ch = Placed(old, u, samples)
        BY DEF u
      <4> HIDE DEF ch
      <4>4. QED
        BY <4>2, <4>3, <1>3 DEF u
    <3>3. Bounded(ch) /\ ch.out = old.out /\ ch.pending = old.pending
      <4> DEFINE u == s.ts
      <4>1. u \in Nat /\ u >= old.audioTs
        BY <3>1, <1>5
      <4> HIDE DEF u
      <4>2. LET d == Placed(old, u, samples)
            IN /\ Bounded(d) /\ d.out = old.out /\ d.pending = old.pending
               /\ d.adjust = old.adjust /\ d.nextTs = old.nextTs
               /\ Ordered(d.buf)
               /\ \A v \in Int : v >= t /\ Below(samples, v) => Below(d.buf, v)
        BY <4>1, <1>3, <1>6, PlacedFacts, Zenon
      <4>3. QED
        BY <4>2 DEF u
    <3>4. channel' = [channel EXCEPT ![c] = ch] /\ cpc' = "wait"
      BY <2>2, <1>2 DEF Output
    <3> HIDE DEF ch
    <3>5. ch.audioTs <= s.ts
      BY <3>1, <3>2, <1>5, <1>6
    <3>6. ch \in Channel
      BY <3>3 DEF Bounded
    <3>7. QED
      BY <3>2, <3>3, <3>4, <3>5, <3>6
  <2>3. CASE /\ channel' = [channel EXCEPT ![c] = ResetData(old, s.ts)]
             /\ cpc' = "place"
             /\ UNCHANGED packet
    <3> DEFINE ch == ResetData(old, s.ts)
    <3>1. ch \in Channel /\ ch.buf = <<>> /\ ch.out = old.out /\ ch.pending = old.pending
      BY <1>5, <1>6, ResetFacts DEF Bounded
    <3> HIDE DEF ch
    <3>2. \A x, n : Above(ch.buf, n, x)
      BY <3>1 DEF Above
    <3>3. QED
      BY <3>1, <3>2, <2>3 DEF ch
  <2>4. QED
    BY <2>1, <2>2, <2>3, <1>7
<1>9. PastInv'
  <2>1. /\ rendered' = rendered /\ flight' = flight
        /\ cpc' \in {"output", "place"} => cpc \in {"output", "place"} /\ packet' = packet
    BY <1>1, <1>7, <1>8 DEF hookVars
  <2>2. \A d \in Clients : channel'[d].out = channel[d].out /\ heard'[d] = heard[d]
    BY <1>3, <1>5, <1>7, <1>8 DEF old
  <2>3. \A d \in Clients : \A u \in Int : Past(d, u) => Past(d, u)'
    BY <2>2 DEF Past
  <2>4. QED
    BY <2>1, <2>3, PastKeeps DEF OnceInv
<1>10. EmptyInv'
  BY <1>2, <1>3, <1>8 DEF EmptyInv
<1>11. BufInv' /\ OutInv'
  <2>1. /\ ch.out = channel[c].out /\ ch.pending = channel[c].pending
        /\ \A x \in Int, n \in Nat : x < packet.ts + Delay /\ Above(channel[c].buf, n, x) => Above(ch.buf, n, x)
    BY <1>5, <1>8 DEF old, t
  <2>2. \/ \A x \in Int : x < packet.ts + Delay => Above(ch.buf, 0, x)
        \/ /\ ch.audioTs = channel[c].audioTs
           /\ \/ Len(ch.buf) >= Len(channel[c].buf)
              \/ wait = 0 /\ mpc \notin {"off", "sleep"} /\ ts.start <= ch.audioTs
                   => Block - StartPoint(ch, ts) <= Len(ch.buf)
    <3>1. CASE ch.buf = <<>>
      BY <3>1 DEF Above
    <3>2. CASE ch.audioTs = old.audioTs /\ Len(ch.buf) >= Len(old.buf)
      BY <3>2, <1>5 DEF old
    <3>3. CASE /\ ch.audioTs = old.audioTs
               /\ ch.audioTs <= s.ts /\ Len(ch.buf) = TimeToFrames(s.ts - ch.audioTs) + Packet
      <4> SUFFICES ASSUME wait = 0, mpc \notin {"off", "sleep"}, ts.start <= ch.audioTs
                   PROVE  Block - StartPoint(ch, ts) <= Len(ch.buf)
        BY <3>3, <1>5 DEF old
      <4>1. ts.start \in Int /\ ts.start <= now
        BY TickBegun
      <4>2. /\ ch.audioTs \in Int /\ s.ts \in Int /\ Smooth \in Nat /\ Delay \in Nat /\ Tick \in Nat
            /\ Frame \in Nat /\ PacketTime \in Nat
        <5>1. ch.audioTs \in Int
          BY DEF Channel
        <5>2. s.ts \in Int
          BY <1>5, <1>6
        <5>3. /\ Smooth \in Nat /\ Delay \in Nat /\ Tick \in Nat
              /\ Frame \in Nat /\ PacketTime \in Nat
          BY ChannelAssumption, PacketFacts, TickFacts
        <5>4. QED
          BY <5>1, <5>2, <5>3
      <4>3. s.ts - ts.start >= Tick + (Frame - 1) - PacketTime
        <5> DEFINE u == s.ts
                   a == ts.start
                   late == scenario.late
        <5>1. /\ late + (Smooth - 1) + Tick + (Frame - 1) <= Delay + PacketTime
              /\ u >= now + Delay - late - (Smooth - 1) /\ a <= now
              /\ {u, a, late, now} \subseteq Int
          BY <1>3, <1>4, <4>1, <4>2 DEF InTime
        <5> HIDE DEF u, a, late
        <5>2. u - a >= Tick + (Frame - 1) - PacketTime
          BY <5>1, <4>2
        <5>3. QED
          BY <5>2 DEF u, a
      <4>4. Block - TimeToFrames(ch.audioTs - ts.start) <= TimeToFrames(s.ts - ch.audioTs) + Packet
        BY <4>1, <4>2, <4>3, <3>3, CoverFacts
      <4>5. QED
        BY <4>4, <3>3 DEF StartPoint
    <3>4. QED
      BY <3>1, <3>2, <3>3, <1>8
  <2>3. UNCHANGED <<heard, mpc, i, mixing, ts, wait, order>>
    BY <1>7 DEF mixVars, bufferingVars
  <2>4. QED
    BY <2>1, <2>2, <2>3, <1>1, <1>2, <1>8, PacketOnce
<1>12. QED
  BY <1>9, <1>10, <1>11 DEF OnceInv

\* After a reset there is nothing but the packet in the buffer.
LEMMA PlaceOnce == ASSUME IInv, OnceInv, Place PROVE OnceInv'
<1>1. cpc = "place" /\ cpc \in {"output", "place"}
  BY DEF Place
<1>2. PICK c \in Clients : c = packet.client
  BY <1>1, PacketInHand
<1> DEFINE t == packet.ts + Delay
           samples == Samples(packet)
           old == channel[c]
           ch == Placed(old, old.nextSys, samples)
<1>3. /\ t \in Int /\ Bounded(old) /\ Ordered(old.buf) /\ Below(old.buf, t)
      /\ samples \in Seq(Nat) /\ Ordered(samples) /\ \A k \in DOMAIN samples : samples[k] # 0 => samples[k] >= t
  BY <1>1, <1>2, PacketInHand
<1>4. old.nextSys \in Nat /\ old.nextSys >= old.audioTs /\ old.buf = <<>>
  <2>1. old.nextSys = old.audioTs /\ old.audioTs \in Nat
    BY <1>1, <1>2, <1>3 DEF IInv, ResetInv, Bounded, Channel
  <2>2. old.buf = <<>>
    BY <1>1, <1>2 DEF OnceInv, EmptyInv
  <2>3. QED
    BY <2>1, <2>2
<1>5. /\ Output(packet, Placed(channel[c], channel[c].nextSys, Samples(packet)))
      /\ UNCHANGED <<rendered, flight, heard, mpc, i, mixing, ts, wait, order>>
  BY <1>2 DEF Place, hookVars, mixVars, bufferingVars
<1>6. channel \in [Clients -> Channel]
  BY DEF IInv, ChannelInv
<1>7. channel' = [channel EXCEPT ![c] = ch] /\ cpc' = "wait"
  BY <1>2, <1>5 DEF Output
<1> HIDE DEF t, samples, old
<1>8. ch \in Channel /\ ch.out = old.out /\ ch.pending = old.pending
  <2> DEFINE u == old.nextSys
  <2>1. u \in Nat /\ u >= old.audioTs
    BY <1>4
  <2> HIDE DEF u
  <2>2. LET d == Placed(old, u, samples)
        IN /\ Bounded(d) /\ d.out = old.out /\ d.pending = old.pending
           /\ d.adjust = old.adjust /\ d.nextTs = old.nextTs
           /\ Ordered(d.buf)
           /\ \A v \in Int : v >= t /\ Below(samples, v) => Below(d.buf, v)
    BY <2>1, <1>3, PlacedFacts, Zenon
  <2>3. QED
    BY <2>2 DEF u, Bounded
<1>9. \A x \in Int, n \in Nat : x < t => Above(ch.buf, n, x)
  <2> DEFINE u == old.nextSys
  <2>1. u \in Nat /\ u >= old.audioTs
    BY <1>4
  <2> HIDE DEF u
  <2>2. LET d == Placed(old, u, samples)
            at == TimeToFrames(u - old.audioTs)
        IN /\ d.audioTs = old.audioTs /\ at \in Nat
           /\ Len(d.buf) >= Len(old.buf) \/ Len(d.buf) = at + Len(samples)
           /\ \A x \in Int, n \in Nat : x < t /\ Above(old.buf, n, x) => Above(d.buf, n, x)
    BY <2>1, <1>3, PlacedAbove, Zenon
  <2>3. \A x, n : Above(old.buf, n, x)
    BY <1>4 DEF Above
  <2>4. QED
    BY <2>2, <2>3 DEF u
<1> HIDE DEF ch
<1>10. PastInv'
  <2>1. \A d \in Clients : channel'[d].out = channel[d].out /\ heard'[d] = heard[d]
    BY <1>5, <1>6, <1>7, <1>8 DEF old
  <2>2. \A d \in Clients : \A u \in Int : Past(d, u) => Past(d, u)'
    BY <2>1 DEF Past
  <2>3. QED
    BY <2>2, <1>5, <1>7, PastKeeps DEF OnceInv
<1>11. EmptyInv'
  BY <1>7 DEF EmptyInv
<1>12. BufInv' /\ OutInv'
  <2>1. \A x \in Int : x < packet.ts + Delay => Above(ch.buf, 0, x)
    BY <1>9 DEF t
  <2>2. \A x \in Int, n \in Nat :
          x < packet.ts + Delay /\ Above(channel[c].buf, n, x) => Above(ch.buf, n, x)
    BY <1>9 DEF t
  <2>3. ch \in Channel /\ ch.out = channel[c].out /\ ch.pending = channel[c].pending
    BY <1>8 DEF old
  <2>4. QED
    BY <2>1, <2>2, <2>3, <1>1, <1>2, <1>5, <1>7, PacketOnce
<1>13. QED
  BY <1>10, <1>11, <1>12 DEF OnceInv

\* A step that leaves the buffers and what was heard, before the mix thread mixes.
LEMMA BufStays ==
  ASSUME BufInv, mpc \notin {"mix", "discard"}, heard' = heard,
         \A c \in Clients : channel'[c].buf = channel[c].buf
  PROVE  BufInv' /\ \A c \in Clients : NewBehind(c, 0)
BY DEF BufInv, Used, NewBehind

\* A step that leaves the channels and what was heard.
LEMMA PastStays ==
  ASSUME IInv, PastInv, UNCHANGED <<rendered, channel, heard>>, flight' \in {flight, <<>>},
         cpc' \in {"output", "place"} => cpc \in {"output", "place"} /\ packet' = packet
  PROVE  PastInv'
<1>1. \A c \in Clients : \A t \in Int : Past(c, t) => Past(c, t)'
  BY DEF Past
<1>2. QED
  BY <1>1, PastKeeps

\* No channel is picked: the mix thread sleeps, or begins.
LEMMA IdleOnce ==
  ASSUME IInv, OnceInv, mpc \in {"off", "sleep"}, ToMix' = {}, mpc' # "mix",
         UNCHANGED <<rendered, flight, channel, heard, cpc, packet>>
  PROVE  OnceInv'
<1>1. PastInv'
  BY PastStays DEF OnceInv
<1>2. BufInv'
  BY BufStays DEF OnceInv
<1>3. EmptyInv' /\ OutInv'
  BY DEF OnceInv, EmptyInv, OutInv
<1>4. QED
  BY <1>1, <1>2, <1>3 DEF OnceInv

\* A new session begins with nothing picked, and nothing in flight.
LEMMA StartOnce == ASSUME IInv, OnceInv, Start PROVE OnceInv'
<1>1. /\ mpc = "off" /\ cpc = "off" /\ mpc' = "sleep" /\ cpc' = "wait"
      /\ UNCHANGED <<rendered, flight, channel, heard>>
  BY DEF Start, hookVars, channelVars, history
<1>2. PastInv'
  BY <1>1, PastStays DEF OnceInv
<1>3. BufInv'
  BY <1>1, BufStays DEF OnceInv
<1>4. ToMix' = {}
  BY <1>1 DEF ToMix
<1>5. EmptyInv' /\ OutInv'
  BY <1>1, <1>4 DEF EmptyInv, OutInv
<1>6. QED
  BY <1>2, <1>3, <1>5 DEF OnceInv

\* When the mix thread ends, nothing is picked.
LEMMA MixLeavesOnce == ASSUME IInv, OnceInv, MixLeaves PROVE OnceInv'
<1>1. /\ mpc = "sleep" /\ mpc' = "off" /\ UNCHANGED <<rendered, flight, channel, heard, cpc, packet>>
  BY DEF MixLeaves, hookVars, channelVars, captureVars, history
<1>2. ToMix' = {}
  BY <1>1 DEF ToMix
<1>3. QED
  BY <1>1, <1>2, IdleOnce

\* A tick begins with no channel picked.
LEMMA FetchAudioOnce == ASSUME IInv, OnceInv, FetchAudio PROVE OnceInv'
<1>1. /\ mpc = "sleep" /\ mpc' = IF order = <<>> THEN "find" ELSE "pick"
      /\ mixing' = Len(order) /\ i' = i
      /\ UNCHANGED <<rendered, flight, channel, heard, cpc, packet>>
  BY DEF FetchAudio, hookVars, channelVars, captureVars, history
<1>2. i = 1
  BY <1>1 DEF IInv, RoundInv
<1>3. ToMix' = {}
  <2>1. CASE order = <<>>
    <3>1. mpc' = "find" /\ mixing' = 0
      BY <2>1, <1>1
    <3>2. QED
      BY <3>1 DEF ToMix
  <2>2. CASE order # <<>>
    <3>1. mpc' = "pick" /\ i' = 1
      BY <2>2, <1>1, <1>2
    <3>2. QED
      BY <3>1 DEF ToMix
  <2>3. QED
    BY <2>1, <2>2
<1>4. mpc' # "mix"
  BY <1>1
<1>5. QED
  BY <1>1, <1>3, <1>4, IdleOnce

\* Time alone brings nothing into a buffer.
LEMMA PassOnce == ASSUME IInv, OnceInv, Pass PROVE OnceInv'
<1>1. UNCHANGED <<rendered, flight, channel, heard, cpc, packet, mpc, i, mixing, ts, wait, order>>
  BY DEF Pass, hookVars, channelVars, captureVars, mixVars, bufferingVars, history
<1>2. PastInv' /\ EmptyInv'
  BY <1>1, PastStays DEF OnceInv, EmptyInv
<1>3. BufInv' /\ OutInv'
  BY <1>1, OnceStays
<1>4. QED
  BY <1>2, <1>3 DEF OnceInv

\* What is in flight when the source stops is not received.
LEMMA StopOnce == ASSUME IInv, OnceInv, Stop PROVE OnceInv'
<1>1. UNCHANGED <<rendered, flight, channel, heard, cpc, packet, mpc, i, mixing, ts, wait, order>>
  BY DEF Stop, channelVars, captureVars, mixVars, bufferingVars, history
<1>2. PastInv' /\ EmptyInv'
  BY <1>1, PastStays DEF OnceInv, EmptyInv
<1>3. BufInv' /\ OutInv'
  BY <1>1, OnceStays
<1>4. QED
  BY <1>2, <1>3 DEF OnceInv

\* The packets that the capture thread leaves behind are gone.
LEMMA CaptureLeavesOnce == ASSUME IInv, OnceInv, CaptureLeaves PROVE OnceInv'
<1>1. /\ UNCHANGED <<rendered, channel, heard, mpc, i, mixing, ts, wait, order>>
      /\ flight' = <<>> /\ cpc' = "off"
  BY DEF CaptureLeaves, channelVars, mixVars, bufferingVars, history
<1>2. PastInv' /\ EmptyInv'
  BY <1>1, PastStays DEF OnceInv, EmptyInv
<1>3. BufInv' /\ OutInv'
  BY <1>1, OnceStays
<1>4. QED
  BY <1>2, <1>3 DEF OnceInv

\* What was played before a time was before a later one.
LEMMA PastLater ==
  ASSUME IInv, NEW c \in Clients, NEW t \in Int, NEW u \in Int, t <= u, Past(c, t)
  PROVE  Past(c, u)
<1>1. channel[c].out \in Seq(Nat) /\ \A h \in heard[c] : h[1] \in Nat
  BY TimeFacts
<1>2. Below(channel[c].out, u)
  BY <1>1, BelowLater DEF Past
<1>3. \A h \in heard[c] : h[1] < u
  BY <1>1 DEF Past
<1>4. QED
  BY <1>2, <1>3 DEF Past

\* What is played from now on is played after all that was.
LEMMA ReleaseOnce == ASSUME IInv, OnceInv, NEW c \in Clients, Release(c) PROVE OnceInv'
<1>1. HookInv /\ PastInv
  BY DEF IInv, OnceInv
<1>2. PICK silent \in BOOLEAN : flight' = Append(flight, [client |-> c, ts |-> now, silent |-> silent])
  <2>1. scenario.quiet \in BOOLEAN
    BY <1>1, ScenarioFacts DEF HookInv
  <2>2. QED
    BY <2>1 DEF Release
<1> DEFINE p == [client |-> c, ts |-> now, silent |-> silent]
<1>3. now \in Nat /\ PacketTime \in Nat /\ Delay \in Nat
  <2>1. scenario \in Scenarios /\ now \in 1..scenario.end
    BY <1>1 DEF HookInv
  <2>2. scenario.end \in Nat
    BY <2>1, ScenarioFacts
  <2>3. QED
    BY <2>1, <2>2, PacketFacts, ChannelAssumption
<1>4. p \in Packets /\ p.client = c /\ p.ts = now
  BY <1>3 DEF Packets
<1> HIDE DEF p
<1>5. \A k \in DOMAIN flight' :
         \/ k \in DOMAIN flight /\ flight'[k] = flight[k]
         \/ flight'[k] = p
  <2>1. flight' = Append(flight, p) /\ flight \in Seq(Packets)
    BY <1>1, <1>2 DEF p, HookInv
  <2>2. /\ Len(flight) \in Nat /\ DOMAIN flight = 1..Len(flight) /\ DOMAIN flight' = 1..(Len(flight) + 1)
        /\ \A k \in 1..Len(flight) : flight'[k] = flight[k]
        /\ flight'[Len(flight) + 1] = p
    BY <2>1, <1>4, AppendFacts
  <2>3. \A k \in DOMAIN flight' : k \in 1..Len(flight) \/ k = Len(flight) + 1
    BY <2>2
  <2>4. QED
    BY <2>2, <2>3
<1>6. /\ UNCHANGED <<channel, heard, cpc, packet, mpc, i, mixing, ts, wait, order>>
      /\ cpc \in {"off", "wait"}
      /\ rendered' = [rendered EXCEPT ![c] = now]
      /\ rendered[c] = 0 \/ rendered[c] + PacketTime <= now
  BY DEF Release, AtRest, channelVars, captureVars, mixVars, bufferingVars
<1>7. /\ rendered \in [Clients -> Nat]
      /\ rendered'[c] = now /\ \A d \in Clients : d # c => rendered'[d] = rendered[d]
  BY <1>1, <1>6 DEF HookInv
<1>8. \A d \in Clients : \A t \in Int : Past(d, t)' <=> Past(d, t)
  BY <1>6 DEF Past
<1>9. Past(c, now + Delay)
  <2>1. Limit(c) \in Int /\ now + Delay \in Int /\ Limit(c) <= now + Delay
    BY <1>3, <1>6, <1>7 DEF Limit
  <2>2. QED
    BY <2>1, <1>1, PastLater DEF PastInv
<1>10. ASSUME NEW d \in Clients
       PROVE  Past(d, Limit(d))'
  <2> DEFINE u == Limit(d)'
  <2>1. Past(d, u) /\ u \in Int
    <3>1. CASE d = c
      <4>1. u = IF now = 0 THEN 0 ELSE now + Delay + PacketTime
        BY <3>1, <1>7 DEF Limit
      <4>2. CASE now = 0
        <5>1. Limit(c) = 0
          BY <4>2, <1>3, <1>6, <1>7, PacketFacts DEF Limit
        <5>2. QED
          BY <5>1, <4>1, <4>2, <3>1, <1>1 DEF PastInv
      <4>3. CASE now # 0
        <5>1. u \in Int /\ now + Delay \in Int /\ now + Delay <= u
          BY <4>1, <4>3, <1>3
        <5>2. QED
          BY <5>1, <3>1, <1>9, PastLater
      <4>4. QED
        BY <4>2, <4>3
    <3>2. CASE d # c
      <4>1. u = Limit(d)
        BY <3>2, <1>7 DEF Limit
      <4>2. Limit(d) \in Int
        BY <1>3, <1>7 DEF Limit
      <4>3. QED
        BY <4>1, <4>2, <1>1 DEF PastInv
    <3>3. QED
      BY <3>1, <3>2
  <2>2. Below(channel'[d].out, u) /\ \A h \in heard'[d] : h[1] < u
    BY <2>1, <1>6 DEF Past
  <2>3. QED
    BY <2>2 DEF Past
<1>11. ASSUME NEW k \in DOMAIN flight'
       PROVE  Past(flight[k].client, flight[k].ts + Delay)'
  <2> DEFINE q == flight'[k]
  <2>1. Past(q.client, q.ts + Delay)
    BY <1>1, <1>4, <1>5, <1>9 DEF PastInv
  <2>2. Below(channel'[q.client].out, q.ts + Delay) /\ \A h \in heard'[q.client] : h[1] < q.ts + Delay
    BY <2>1, <1>6 DEF Past
  <2>3. QED
    BY <2>2 DEF Past
<1>12. PastInv' /\ EmptyInv'
  BY <1>6, <1>10, <1>11 DEF PastInv, EmptyInv
<1>13. BufInv' /\ OutInv'
  BY <1>6, OnceStays
<1>14. QED
  BY <1>12, <1>13 DEF OnceInv

\* The packet in front is the one in hand.
LEMMA ReceiveOnce == ASSUME IInv, OnceInv, Receive PROVE OnceInv'
<1>1. HookInv /\ CaptureInv /\ PastInv /\ BufInv /\ OutInv
  BY DEF IInv, OnceInv
<1>2. /\ UNCHANGED <<rendered, channel, heard, mpc, i, mixing, ts, wait>>
      /\ flight # <<>> /\ packet' = Head(flight) /\ flight' = Tail(flight)
      /\ cpc' = "output"
      /\ order' = IF Contains(order, Head(flight).client) THEN order
                  ELSE Append(order, Head(flight).client)
  BY DEF Receive, mixVars, bufferingVars, history
<1>3. /\ packet' = flight[1] /\ 1 \in DOMAIN flight /\ flight[1] \in Packets
      /\ \A k \in DOMAIN flight' : k + 1 \in DOMAIN flight /\ flight'[k] = flight[k + 1]
  <2>1. /\ Len(flight) \in Nat \ {0} /\ DOMAIN flight = 1..Len(flight)
        /\ packet' = flight[1] /\ flight[1] \in Packets /\ DOMAIN flight' = 1..(Len(flight) - 1)
        /\ \A k \in 1..(Len(flight) - 1) : flight'[k] = flight[k + 1] /\ k + 1 \in 1..Len(flight)
    BY <1>1, <1>2, TailFacts DEF HookInv
  <2>2. QED
    BY <2>1
<1>4. Len(order) \in Nat /\ Len(order') \in Nat /\ Len(order) <= Len(order')
      /\ DOMAIN order = 1..Len(order) /\ DOMAIN order' = 1..Len(order')
      /\ \A k \in 1..Len(order) : order'[k] = order[k]
  <2> DEFINE c == Head(flight).client
  <2>1. c \in Clients /\ order \in Seq(Clients) /\ Len(order) \in Nat /\ DOMAIN order = 1..Len(order)
    BY <1>1, <1>3, <1>2 DEF CaptureInv, Packets
  <2>2. CASE Contains(order, c)
    BY <2>1, <2>2, <1>2
  <2>3. CASE ~Contains(order, c)
    <3>1. order' = Append(order, c)
      BY <2>3, <1>2
    <3> HIDE DEF c
    <3>2. /\ Len(order') = Len(order) + 1
          /\ DOMAIN order = 1..Len(order) /\ DOMAIN order' = 1..(Len(order) + 1)
          /\ \A k \in 1..Len(order) : order'[k] = order[k]
      BY <3>1, <2>1, AppendFacts
    <3>3. QED
      BY <3>2, <2>1
  <2>4. QED
    BY <2>2, <2>3
<1>5. Listed \subseteq Listed'
  <2>1. \A k \in 1..Len(order) : k \in DOMAIN order'
    BY <1>4
  <2>2. QED
    BY <2>1, <1>4 DEF Listed
<1>6. PastInv'
  <2>1. \A k \in DOMAIN flight : Past(flight[k].client, flight[k].ts + Delay)
    BY <1>1 DEF PastInv
  <2>2. \A k \in DOMAIN flight' : Past(flight[k].client, flight[k].ts + Delay)'
    BY <2>1, <1>2, <1>3 DEF Past
  <2>3. Past(packet.client, packet.ts + Delay)'
    BY <2>1, <1>2, <1>3 DEF Past
  <2>4. \A c \in Clients : Past(c, Limit(c))'
    BY <1>1, <1>2 DEF PastInv, Past, Limit
  <2>5. QED
    BY <2>2, <2>3, <2>4 DEF PastInv
<1>7. EmptyInv'
  BY <1>2 DEF EmptyInv
<1>8. BufInv'
  BY <1>1, <1>2, <1>5 DEF BufInv, NewBehind, Used, Rest
<1>9. OutInv'
  <2>1. ToMix' = ToMix
    BY <1>2 DEF ToMix
  <2>2. \A k \in ToMix : order'[k] = order[k]
    BY <1>4, ToMixFacts
  <2>3. ASSUME wait' = 0, NEW k \in ToMix', ~channel'[order'[k]].pending
        PROVE  NotYet(order[k])' /\ Kept(order[k])'
    <3>1. order'[k] = order[k] /\ k \in ToMix /\ wait = 0 /\ ~channel[order[k]].pending
      BY <2>1, <2>2, <2>3, <1>2
    <3>2. NotYet(order[k]) /\ Kept(order[k])
      BY <3>1, <1>1 DEF OutInv
    <3> DEFINE c == order[k]
    <3>3. c' = c /\ NotYet(c) /\ Kept(c)
      BY <3>1, <3>2
    <3> HIDE DEF c
    <3>4. NotYet(c)' /\ Kept(c)'
      BY <3>3, <1>2 DEF NotYet, Kept, Rest
    <3>5. QED
      BY <3>4 DEF c
  <2>4. mpc' = "mix" => wait' = 0
    BY <1>1, <1>2 DEF OutInv
  <2>5. QED
    BY <2>3, <2>4 DEF OutInv
<1>10. QED
  BY <1>6, <1>7, <1>8, <1>9 DEF OnceInv

\* A step of the mix thread's that leaves the channel of the client at place k, but for
\* what is pending, leaves what is picked of it.
LEMMA OutStays ==
  ASSUME NEW c, NEW ch, channel'[c] = ch, heard'[c] = heard[c], ts'.start = ts.start,
         ch.out = channel[c].out, ch.buf = channel[c].buf, ch.audioTs = channel[c].audioTs,
         NotYet(c), Kept(c)
  PROVE  NotYet(c)' /\ Kept(c)'
<1>1. NotYet(c)'
  BY DEF NotYet
<1>2. Rest(c)' = Rest(c)
  BY DEF Rest, StartPoint
<1>3. Kept(c)'
  BY <1>2 DEF Kept
<1>4. QED
  BY <1>1, <1>3

\* What is picked is the front of the buffer, and so was played after what was heard.
LEMMA PickOnce == ASSUME IInv, OnceInv, Pick PROVE OnceInv'
<1>1. /\ CaptureInv /\ RoundInv /\ ChannelInv /\ SoundInv /\ AccountInv
      /\ PastInv /\ EmptyInv /\ BufInv /\ OutInv
  BY DEF IInv, OnceInv
<1>2. /\ UNCHANGED <<rendered, flight, heard, cpc, packet, mixing, ts, wait, order>>
      /\ mpc = "pick"
      /\ channel' = [channel EXCEPT ![order[i]] = Picked(channel[order[i]])]
      /\ IF i < mixing THEN i' = i + 1 /\ mpc' = mpc ELSE i' = 1 /\ mpc' = "find"
  BY DEF Pick, Round, hookVars, captureVars, bufferingVars, history
<1>3. /\ Len(order) \in Nat /\ mixing \in 0..Len(order) /\ i \in 1..mixing
      /\ DOMAIN order = 1..Len(order) /\ IsInjective(order)
      /\ \A k \in 1..Len(order) : order[k] \in Clients
  BY <1>1, <1>2, ListedFacts DEF RoundInv, CaptureInv
<1>4. PICK c \in Clients : c = order[i]
  BY <1>3
<1> DEFINE old == channel[c]
           d == Picked(old)
<1>5. /\ Bounded(old) /\ Ordered(old.buf) /\ Ordered(old.out)
      /\ channel \in [Clients -> Channel]
      /\ old.buf \in Seq(Nat) /\ old.audioTs \in Nat /\ Len(old.buf) \in Nat
      /\ DOMAIN old.buf = 1..Len(old.buf) /\ \A k \in DOMAIN old.buf : old.buf[k] \in Nat
  <2>1. Bounded(old) /\ Ordered(old.buf) /\ Ordered(old.out) /\ channel \in [Clients -> Channel]
    BY <1>1 DEF ChannelInv, SoundInv, Bounded
  <2>2. old.buf \in Seq(Nat) /\ old.audioTs \in Nat
    BY <2>1 DEF Bounded, Channel
  <2> HIDE DEF old
  <2>3. QED
    BY <2>1, <2>2
<1>6. /\ Bounded(d) /\ d.audioTs = old.audioTs /\ d.buf = old.buf
      /\ \A t \in Int : Below(old.buf, t) /\ Below(old.out, t) => Below(d.out, t)
      /\ ~d.pending => /\ Block <= Len(old.buf)
                       /\ \A j \in DOMAIN d.out : j \in DOMAIN old.buf /\ d.out[j] = old.buf[j]
  BY <1>5, PickedFacts, PickedAbove
<1>7. channel' = [channel EXCEPT ![c] = d]
  BY <1>2, <1>4
<1> HIDE DEF old, d
<1>8. /\ channel'[c] = d /\ \A e \in Clients : e # c => channel'[e] = channel[e]
      /\ \A e \in Clients : channel'[e].buf = channel[e].buf
  BY <1>5, <1>6, <1>7 DEF old
<1>9. PastInv'
  <2>1. \A e \in Clients : \A t \in Int : Below(channel[e].buf, t) /\ Below(channel[e].out, t) => Below(channel'[e].out, t)
    BY <1>6, <1>8 DEF old
  <2>2. \A e \in Clients : \A t \in Int : Below(channel[e].buf, t) /\ Past(e, t) => Past(e, t)'
    BY <2>1, <1>2 DEF Past
  <2>3. QED
    BY <2>2, <1>1, <1>2, PastKeeps
<1>10. EmptyInv'
  <2>1. cpc = "place" => packet.client \in Clients
    BY PacketInHand
  <2>2. QED
    BY <2>1, <1>1, <1>2, <1>8 DEF EmptyInv
<1>11. BufInv' /\ NewBehind(c, 0)
  BY <1>1, <1>2, <1>8, BufStays
<1>12. OutInv'
  <2>1. \A k \in ToMix' : k \in ToMix \/ k = i
    <3>1. CASE i < mixing
      <4>1. mpc' = "pick" /\ i' = i + 1
        BY <3>1, <1>2
      <4>2. ToMix' = 1..(i' - 1)
        BY <4>1 DEF ToMix
      <4>3. ToMix = 1..(i - 1)
        BY <1>2 DEF ToMix
      <4>4. QED
        BY <4>1, <4>2, <4>3, <1>3
    <3>2. CASE ~(i < mixing)
      <4>1. mpc' = "find" /\ mixing' = mixing
        BY <3>2, <1>2
      <4>2. ToMix' = 1..mixing
        BY <4>1 DEF ToMix
      <4>3. ToMix = 1..(i - 1)
        BY <1>2 DEF ToMix
      <4>4. QED
        BY <4>2, <4>3, <3>2, <1>3
    <3>3. QED
      BY <3>1, <3>2
  <2>2. ASSUME wait = 0, NEW k \in ToMix', ~channel'[order[k]].pending
        PROVE  NotYet(order[k])' /\ Kept(order[k])'
    <3>1. CASE k # i /\ k \in ToMix
      <4>1. order[k] \in Clients /\ order[k] # c
        <5>1. k \in 1..Len(order) /\ i \in 1..Len(order)
          BY <3>1, <1>3, ToMixFacts
        <5>2. QED
          BY <5>1, <3>1, <1>3, <1>4 DEF IsInjective
      <4>2. channel'[order[k]] = channel[order[k]]
        BY <4>1, <1>8
      <4>3. NotYet(order[k]) /\ Kept(order[k])
        BY <4>2, <3>1, <2>2, <1>1 DEF OutInv
      <4> DEFINE e == order[k]
      <4>4. e' = e /\ channel'[e] = channel[e] /\ NotYet(e) /\ Kept(e) /\ heard'[e] = heard[e] /\ ts' = ts
        BY <4>2, <4>3, <1>2
      <4> HIDE DEF e
      <4>5. NotYet(e)' /\ Kept(e)'
        BY <4>4, OutStays
      <4>6. QED
        BY <4>4, <4>5 DEF e
    <3>2. CASE k = i
      <4>1. order[k] = c /\ order'[k] = c /\ ~d.pending
        BY <3>2, <2>2, <1>2, <1>4, <1>8
      <4>2. \A j \in DOMAIN d.out : j \in DOMAIN old.buf /\ d.out[j] = old.buf[j]
        BY <4>1, <1>6
      <4>3. NotYet(c)'
        <5>1. \A j \in DOMAIN old.buf : j > 0
          BY <1>5
        <5>2. \A h \in heard[c] : \A j \in DOMAIN old.buf : old.buf[j] # 0 => h[1] < old.buf[j]
          BY <5>1, <1>11 DEF NewBehind, Above, old
        <5>3. QED
          BY <5>2, <4>2, <1>2, <1>8 DEF NotYet
      <4>4. \A j \in DOMAIN d.out : d.out[j] # 0 => Above(d.buf, j, d.out[j])
        BY <4>2, <1>5, <1>6 DEF Ordered, Above
      <4>5. d.audioTs >= ts.start => Block - StartPoint(d, ts) <= Len(d.buf)
        <5> SUFFICES ASSUME d.audioTs >= ts.start
                     PROVE  Block - StartPoint(d, ts) <= Len(d.buf)
          OBVIOUS
        <5> DEFINE x == d.audioTs - ts.start
        <5>1. x \in Int /\ x >= 0 /\ Frame \in Nat \ {0} /\ Block \in Nat
          BY <1>1, <1>5, <1>6, ChannelAssumption DEF AccountInv, Interval
        <5> HIDE DEF x
        <5>2. x \div Frame \in Int /\ x \div Frame >= 0
          BY <5>1, Division
        <5>3. StartPoint(d, ts) = x \div Frame
          BY DEF StartPoint, TimeToFrames, x
        <5>4. Block <= Len(d.buf) /\ Len(d.buf) \in Nat
          BY <4>1, <1>5, <1>6
        <5>5. QED
          BY <5>1, <5>2, <5>3, <5>4
      <4>6. Kept(c)'
        BY <4>4, <4>5, <1>2, <1>8 DEF Kept, Rest
      <4>7. QED
        BY <4>1, <4>3, <4>6, <1>2
    <3>3. QED
      BY <3>1, <3>2, <2>1
  <2>3. mpc' # "mix"
    BY <1>2
  <2>4. QED
    BY <2>2, <2>3, <1>2 DEF OutInv
<1>13. QED
  BY <1>9, <1>10, <1>11, <1>12 DEF OnceInv

\* Comparing times leaves the channels, but for who is pending.
LEMMA FindMinOnce == ASSUME IInv, OnceInv, FindMin PROVE OnceInv'
<1>1. /\ UNCHANGED <<rendered, flight, channel, heard, cpc, packet, i, mixing, ts, wait, order>>
      /\ mpc \in {"find", "refind"} /\ mpc' \in {"mark", "buffer"}
  BY DEF FindMin, hookVars, channelVars, captureVars, bufferingVars, history
<1>2. PastInv' /\ EmptyInv'
  BY <1>1, PastStays DEF OnceInv, EmptyInv
<1>3. BufInv'
  BY <1>1, BufStays DEF OnceInv
<1>4. ToMix = 1..mixing /\ ToMix' = 1..mixing
  BY <1>1 DEF ToMix
<1>5. OutInv'
  BY <1>1, <1>4 DEF OnceInv, OutInv, NotYet, Kept, Rest
<1>6. QED
  BY <1>2, <1>3, <1>5 DEF OnceInv

\* More channels are pending.
LEMMA MarkOnce == ASSUME IInv, OnceInv, Mark PROVE OnceInv'
<1> DEFINE short == {c \in Listed : Insufficient(channel[c], minTs)}
<1>1. /\ UNCHANGED <<rendered, flight, heard, cpc, packet, i, mixing, ts, wait, order>>
      /\ mpc = "mark" /\ mpc' \in {"refind", "buffer"}
      /\ channel' = [c \in Clients |-> [channel[c] EXCEPT !.pending = channel[c].pending \/ c \in short]]
  BY DEF Mark, hookVars, captureVars, bufferingVars, history
<1>2. PastInv /\ EmptyInv /\ BufInv /\ OutInv /\ channel \in [Clients -> Channel]
  BY DEF OnceInv, IInv, ChannelInv
<1>3. ASSUME NEW c \in Clients
      PROVE  /\ channel'[c].buf = channel[c].buf /\ channel'[c].out = channel[c].out
             /\ channel'[c].audioTs = channel[c].audioTs
             /\ channel[c].pending => channel'[c].pending
  <2> DEFINE b == channel[c].pending \/ c \in short
  <2>1. channel'[c] = [channel[c] EXCEPT !.pending = b] /\ channel[c] \in Channel
    BY <1>1, <1>2
  <2>2. channel[c].pending => b
    OBVIOUS
  <2> HIDE DEF b, short
  <2>3. QED
    BY <2>1, <2>2 DEF Channel
<1> HIDE DEF short
<1>4. PastInv'
  <2>1. \A c \in Clients : \A t \in Int : Past(c, t) => Past(c, t)'
    BY <1>1, <1>3 DEF Past
  <2>2. QED
    BY <2>1, <1>1, <1>2, PastKeeps
<1>5. EmptyInv'
  <2>1. cpc = "place" => packet.client \in Clients
    BY PacketInHand
  <2>2. QED
    BY <2>1, <1>1, <1>2, <1>3 DEF EmptyInv
<1>6. BufInv'
  BY <1>1, <1>2, <1>3, BufStays
<1>7. OutInv'
  <2>1. ToMix = 1..mixing /\ ToMix' = 1..mixing
    BY <1>1 DEF ToMix
  <2>2. ASSUME wait = 0, NEW k \in ToMix, ~channel'[order[k]].pending
        PROVE  NotYet(order[k])' /\ Kept(order[k])'
    <3>1. PICK c \in Clients : c = order[k]
      BY ToMixFacts
    <3>2. ~channel[c].pending
      BY <2>2, <3>1, <1>3
    <3>3. NotYet(c) /\ Kept(c)
      BY <2>2, <3>1, <3>2, <1>2 DEF OutInv
    <3>4. NotYet(c)' /\ Kept(c)'
      <4> DEFINE ch == channel'[c]
      <4>1. /\ channel'[c] = ch /\ heard'[c] = heard[c] /\ ts'.start = ts.start
            /\ ch.out = channel[c].out /\ ch.buf = channel[c].buf /\ ch.audioTs = channel[c].audioTs
        BY <1>1, <1>3
      <4> HIDE DEF ch
      <4>2. QED
        BY <3>3, <4>1, OutStays
    <3>5. order'[k] = c
      BY <3>1, <1>1
    <3>6. QED
      BY <3>4, <3>5
  <2>3. QED
    BY <2>1, <2>2, <1>1 DEF OutInv
<1>8. QED
  BY <1>4, <1>5, <1>6, <1>7 DEF OnceInv

\* A tick that goes to OBS is the one of which the channels were picked.
LEMMA BufferOnce == ASSUME IInv, OnceInv, Buffer PROVE OnceInv'
<1>1. AccountInv /\ RoundInv /\ OutInv
  BY DEF IInv, OnceInv
<1>2. /\ UNCHANGED <<rendered, flight, channel, heard, cpc, packet, i, mixing, order>>
      /\ mpc = "buffer"
      /\ mpc' = IF wait' = 0 /\ mixing > 0 THEN "mix" ELSE "discard"
  BY DEF Buffer, hookVars, channelVars, captureVars, history
<1>3. PastInv' /\ EmptyInv'
  BY <1>2, PastStays DEF OnceInv, EmptyInv
<1>4. BufInv'
  BY <1>2, BufStays DEF OnceInv
<1>5. wait' = 0 => wait = 0 /\ ts'.start = ts.start
  <2>1. PICK n \in Nat :
           /\ wait' = wait + n
           /\ queue' \in Seq(Interval) /\ Len(queue') = Len(queue) + n
           /\ \A k \in DOMAIN queue' : k > n => queue'[k] = queue[k - n]
           /\ ts'.start = queue'[1].start
    BY <1>1, BufferFacts
  <2>2. wait \in Nat /\ Len(queue) \in Nat \ {0} /\ ts.start = queue[1].start
    BY <1>1, <1>2, QueueFacts DEF AccountInv
  <2>3. ASSUME wait' = 0
        PROVE  wait = 0 /\ ts'.start = ts.start
    <3>1. wait = 0 /\ n = 0
      BY <2>1, <2>2, <2>3
    <3>2. 1 \in DOMAIN queue' /\ 1 > n /\ 1 - n = 1
      BY <2>1, <2>2, <3>1
    <3>3. queue'[1] = queue[1]
      BY <2>1, <3>2
    <3>4. QED
      BY <2>1, <2>2, <3>1, <3>3
  <2>4. QED
    BY <2>3
<1>6. OutInv'
  <2>1. mpc' = "mix" => wait' = 0
    BY <1>2
  <2>2. ASSUME wait' = 0, NEW k \in ToMix', ~channel'[order'[k]].pending
        PROVE  NotYet(order[k])' /\ Kept(order[k])'
    <3>1. k \in ToMix
      <4>1. mpc' = "mix" /\ i = 1
        BY <1>1, <1>2, <2>2 DEF ToMix, RoundInv
      <4>2. ToMix' = i'..mixing' /\ ToMix = 1..mixing
        BY <4>1, <1>2 DEF ToMix
      <4>3. QED
        BY <4>1, <4>2, <1>2
    <3> DEFINE c == order[k]
    <3>2. c' = c /\ NotYet(c) /\ Kept(c) /\ channel'[c] = channel[c] /\ heard'[c] = heard[c] /\ ts'.start = ts.start
      BY <3>1, <2>2, <1>1, <1>2, <1>5 DEF OutInv
    <3> HIDE DEF c
    <3>3. NotYet(c)' /\ Kept(c)'
      BY <3>2, OutStays
    <3>4. QED
      BY <3>2, <3>3 DEF c
  <2>3. QED
    BY <2>1, <2>2 DEF OutInv
<1>7. QED
  BY <1>3, <1>4, <1>6 DEF OnceInv

\* What is mixed of a channel, in a step of the mix thread's.
LEMMA MixedStep ==
  ASSUME IInv, OnceInv, Mix, NEW c \in Clients, c = order[i]
  PROVE  /\ \A d \in Clients : d # c => heard'[d] = heard[d]
         /\ \/ heard'[c] = heard[c]
            \/ /\ ~channel[c].pending /\ NotYet(c) /\ Kept(c)
               /\ ts.start <= channel[c].audioTs /\ channel[c].audioTs < ts.end
               /\ Rest(c) \in 1..Block
               /\ \A g \in heard'[c] : \E k \in DOMAIN channel[c].out :
                    k <= Rest(c) /\ g[1] = channel[c].out[k] /\ channel[c].out[k] # 0
<1> DEFINE ch == channel[c]
           mix == MixedOf(ch)
<1>1. ChannelInv /\ RoundInv /\ AccountInv /\ HeardInv /\ OutInv
  BY DEF IInv, OnceInv
<1>2. /\ mpc = "mix" /\ wait = 0 /\ i \in 1..mixing /\ i \in ToMix /\ mixing \in Nat
  <2>1. mpc = "mix"
    BY DEF Mix
  <2>2. wait = 0 /\ i \in 1..mixing /\ mixing \in Nat
    BY <2>1, <1>1, ToMixFacts DEF OutInv, RoundInv
  <2>3. ToMix = i..mixing
    BY <2>1 DEF ToMix
  <2>4. QED
    BY <2>1, <2>2, <2>3
<1>3. heard' = IF mix = {} THEN heard ELSE [heard EXCEPT ![c] = mix]
  BY DEF Mix
<1>4. CASE mix = {}
  BY <1>3, <1>4
<1>5. CASE mix # {}
  <2>1. /\ heard \in [Clients -> SUBSET (Nat \X Int)]
        /\ ch \in Channel /\ ts \in [start : Int, end : Nat]
    BY <1>1 DEF HeardInv, ChannelInv, AccountInv, Interval
  <2>2. heard'[c] = mix /\ \A d \in Clients : d # c => heard'[d] = heard[d]
    BY <1>3, <1>5, <2>1
  <2>3. ~ch.pending /\ mix = {h \in Mixed(ch, ts) : h[1] # 0}
    BY <1>5 DEF MixedOf
  <2>4. NotYet(c) /\ Kept(c)
    BY <1>1, <1>2, <2>3 DEF OutInv
  <2>5. Len(ch.out) = Block /\ DOMAIN ch.out = 1..Block /\ Block \in Nat
    <3>1. Len(ch.out) = Block
      BY <1>2, <2>3, ToMixFacts
    <3>2. QED
      BY <3>1, TimeFacts, ChannelAssumption
  <2> HIDE DEF ch, mix
  <2> DEFINE n == Block - StartPoint(ch, ts)
  <2>6. \A g \in Mixed(ch, ts) : /\ ts.start <= ch.audioTs /\ ch.audioTs < ts.end
                                 /\ n \in 1..Block /\ \E k \in 1..n : g[1] = ch.out[k]
    BY <2>1, MixedRest
  <2>7. Rest(c) = n
    BY DEF Rest, ch
  <2> HIDE DEF n
  <2>8. ts.start <= ch.audioTs /\ ch.audioTs < ts.end /\ n \in 1..Block
    BY <1>5, <2>3, <2>6
  <2>9. ASSUME NEW g \in mix
        PROVE  \E k \in DOMAIN ch.out : k <= n /\ g[1] = ch.out[k] /\ ch.out[k] # 0
    <3>1. PICK k \in 1..n : g[1] = ch.out[k]
      BY <2>3, <2>6
    <3>2. g[1] # 0
      BY <2>3
    <3>3. k \in DOMAIN ch.out /\ k <= n
      BY <2>5, <2>8
    <3>4. QED
      BY <3>1, <3>2, <3>3
  <2>10. QED
    BY <2>2, <2>3, <2>4, <2>7, <2>8, <2>9 DEF ch
<1>6. QED
  BY <1>4, <1>5

\* What is mixed of a channel is new, and is still in front of its buffer, or gone.
LEMMA MixOnce == ASSUME IInv, OnceInv, Mix PROVE OnceInv'
<1>1. /\ RoundInv /\ CaptureInv /\ AccountInv /\ ChannelInv
      /\ PastInv /\ EmptyInv /\ BufInv /\ OutInv
  BY DEF IInv, OnceInv
<1>2. /\ UNCHANGED <<rendered, flight, channel, cpc, packet, mixing, ts, wait, order>>
      /\ mpc = "mix"
      /\ IF i < mixing THEN i' = i + 1 /\ mpc' = mpc ELSE i' = 1 /\ mpc' = "discard"
  BY DEF Mix, Round, hookVars, channelVars, captureVars, bufferingVars
<1>3. /\ Len(order) \in Nat /\ mixing \in 0..Len(order) /\ i \in 1..mixing
      /\ DOMAIN order = 1..Len(order) /\ IsInjective(order)
      /\ \A k \in 1..Len(order) : order[k] \in Clients
      /\ wait = 0
  BY <1>1, <1>2, ListedFacts DEF RoundInv, CaptureInv, OutInv
<1>4. PICK c \in Clients : c = order[i]
  BY <1>3
<1>5. c \in Listed
  BY <1>3, <1>4 DEF Listed
<1>6. /\ \A d \in Clients : d # c => heard'[d] = heard[d]
      /\ \/ heard'[c] = heard[c]
         \/ /\ Kept(c)
            /\ ts.start <= channel[c].audioTs /\ channel[c].audioTs < ts.end
            /\ Rest(c) \in 1..Block
            /\ \A g \in heard'[c] : \E k \in DOMAIN channel[c].out :
                 k <= Rest(c) /\ g[1] = channel[c].out[k] /\ channel[c].out[k] # 0
  BY <1>4, MixedStep
<1>7. /\ \A d \in Clients : \A t \in Int : Past(d, t) => Past(d, t)'
  <2> SUFFICES ASSUME NEW d \in Clients, NEW t \in Int, Past(d, t)
               PROVE  Past(d, t)'
    OBVIOUS
  <2>1. \A h \in heard'[d] : h[1] < t
    <3>1. CASE heard'[d] = heard[d]
      BY <3>1 DEF Past
    <3>2. CASE d = c /\ \A g \in heard'[c] : \E k \in DOMAIN channel[c].out :
                          k <= Rest(c) /\ g[1] = channel[c].out[k] /\ channel[c].out[k] # 0
      BY <3>2 DEF Past, Below
    <3>3. QED
      BY <3>1, <3>2, <1>6
  <2>2. QED
    BY <2>1, <1>2 DEF Past
<1>8. PastInv'
  BY <1>1, <1>2, <1>7, PastKeeps
<1>9. EmptyInv'
  BY <1>1, <1>2 DEF EmptyInv
<1>10. mpc' \in {"mix", "discard"} /\ Listed' = Listed
  BY <1>2 DEF Listed
<1>11. \A d \in Clients : heard'[d] = heard[d] => (NewBehind(d, 0) \/ Used(d))'
  BY <1>1, <1>2, <1>10 DEF BufInv, NewBehind, Used, Rest
<1>12. ASSUME heard'[c] # heard[c]
       PROVE  (NewBehind(c, 0) \/ Used(c))'
  <2> DEFINE ch == channel[c]
             n == Rest(c)
             Copied(g) == \E k \in DOMAIN ch.out : k <= n /\ g[1] = ch.out[k] /\ ch.out[k] # 0
  <2>1. /\ Kept(c) /\ ts.start <= ch.audioTs /\ ch.audioTs < ts.end /\ n \in 1..Block
        /\ \A g \in heard'[c] : Copied(g)
    BY <1>6, <1>12
  <2>2. /\ ch.audioTs >= ts.start /\ n \in Int /\ n >= 1
        /\ Len(ch.buf) \in Nat /\ \A j \in DOMAIN ch.out : j \in Nat
        /\ \A k \in DOMAIN ch.buf : k \in Nat
    <3>1. ch.audioTs >= ts.start /\ n \in Int /\ n >= 1
      BY <2>1, <1>1, ChannelAssumption DEF ChannelInv, Channel, AccountInv, Interval
    <3>2. Len(ch.buf) \in Nat /\ \A j \in DOMAIN ch.out : j \in Nat
      BY TimeFacts
    <3>3. \A k \in DOMAIN ch.buf : k \in Nat
      <4>1. ch.buf \in Seq(Nat)
        BY TimeFacts
      <4> HIDE DEF ch
      <4>2. QED
        BY <4>1
    <3>4. QED
      BY <3>1, <3>2, <3>3
  <2>3. CASE \A j \in DOMAIN ch.out : ch.out[j] # 0 => Above(ch.buf, 0, ch.out[j])
    <3>1. \A g \in heard'[c] : Above(ch.buf, 0, g[1])
      BY <2>1, <2>3
    <3>2. QED
      BY <3>1, <1>2 DEF NewBehind
  <2>4. CASE /\ ch.audioTs >= ts.start => n <= Len(ch.buf)
             /\ \A j \in DOMAIN ch.out : ch.out[j] # 0 => Above(ch.buf, j, ch.out[j])
    <3> HIDE DEF n, Copied
    <3>1. n \in 1..Len(ch.buf)
      BY <2>2, <2>4
    <3>2. ASSUME NEW g \in heard'[c]
          PROVE  Above(ch.buf, n, g[1])
      <4>1. PICK k \in DOMAIN ch.out : k <= n /\ g[1] = ch.out[k] /\ ch.out[k] # 0
        BY <2>1 DEF Copied
      <4>2. Above(ch.buf, k, g[1])
        BY <4>1, <2>4
      <4>3. \A m \in DOMAIN ch.buf : m > n => m > k
        BY <4>1, <2>2
      <4>4. QED
        BY <4>2, <4>3 DEF Above
    <3>3. n' = n
      BY <1>2 DEF n, Rest, StartPoint
    <3>4. NewBehind(c, n)'
      BY <3>2, <3>3, <1>2 DEF NewBehind
    <3>5. Used(c)'
      BY <3>1, <3>3, <3>4, <2>1, <1>2, <1>3, <1>5, <1>10 DEF Used, n
    <3>6. QED
      BY <3>5
  <2>5. QED
    BY <2>1, <2>3, <2>4 DEF Kept
<1>13. BufInv'
  BY <1>6, <1>11, <1>12 DEF BufInv
<1>14. OutInv'
  <2>1. mpc' = "mix" => wait' = 0
    BY <1>2, <1>3
  <2>2. ASSUME NEW k \in ToMix', ~channel'[order'[k]].pending
        PROVE  NotYet(order[k])' /\ Kept(order[k])'
    <3>1. k \in ToMix /\ k # i
      <4>1. CASE i < mixing
        <5>1. i' = i + 1 /\ mpc' = "mix" /\ mixing' = mixing
          BY <4>1, <1>2
        <5>2. ToMix' = (i + 1)..mixing /\ ToMix = i..mixing
          BY <5>1, <1>2 DEF ToMix
        <5>3. QED
          BY <5>2, <1>3
      <4>2. CASE ~(i < mixing)
        <5>1. mpc' = "discard"
          BY <4>2, <1>2
        <5>2. QED
          BY <5>1 DEF ToMix
      <4>3. QED
        BY <4>1, <4>2
    <3>2. k \in 1..Len(order) /\ i \in 1..Len(order)
      BY <3>1, <1>3, ToMixFacts
    <3>3. PICK d \in Clients : d = order[k] /\ d # c
      BY <3>1, <3>2, <1>3, <1>4 DEF IsInjective
    <3>4. NotYet(d) /\ Kept(d)
      BY <3>1, <3>3, <2>2, <1>1, <1>2, <1>3 DEF OutInv
    <3>5. NotYet(d)' /\ Kept(d)'
      <4> DEFINE ch == channel[d]
      <4>1. /\ channel'[d] = ch /\ heard'[d] = heard[d] /\ ts'.start = ts.start
            /\ ch.out = channel[d].out /\ ch.buf = channel[d].buf /\ ch.audioTs = channel[d].audioTs
        BY <3>3, <1>2, <1>6
      <4> HIDE DEF ch
      <4>2. QED
        BY <4>1, <3>4, OutStays
    <3>6. order'[k] = d
      BY <3>3, <1>2
    <3>7. QED
      BY <3>5, <3>6
  <2>3. QED
    BY <2>1, <2>2 DEF OutInv
<1>15. QED
  BY <1>8, <1>9, <1>13, <1>14 DEF OnceInv

\* What was heard is dropped.
LEMMA DiscardOnce == ASSUME IInv, OnceInv, Discard PROVE OnceInv'
<1> DEFINE full == (total = MaxTicks)
           after == [c \in Clients |->
                       IF c \in Listed THEN Discarded(channel[c], ts, full) ELSE channel[c]]
<1>1. /\ ChannelInv /\ SoundInv /\ AccountInv
      /\ PastInv /\ EmptyInv /\ BufInv /\ OutInv
  BY DEF IInv, OnceInv
<1>2. /\ UNCHANGED <<rendered, flight, heard, cpc, packet>>
      /\ mpc' = "sleep" /\ \A c \in Listed : ~AudioBufHeld(c)
      /\ channel' = [c \in Clients |-> [after[c] EXCEPT !.out = <<>>]]
  BY DEF Discard, hookVars, captureVars
<1>3. ASSUME NEW c \in Clients
      PROVE  /\ channel'[c].out = <<>>
             /\ c \notin Listed => channel'[c].buf = channel[c].buf
             /\ NewBehind(c, 0)'
  <2> DEFINE ch == channel[c]
             d == after[c]
  <2>1. /\ Bounded(ch) /\ Ordered(ch.buf) /\ ts \in [start : Int, end : Nat]
        /\ \A h \in heard[c] : h[1] \in Int
    BY <1>1, TimeFacts DEF ChannelInv, SoundInv, Bounded, AccountInv, Interval
  <2>2. d = IF c \in Listed THEN Discarded(ch, ts, full) ELSE ch
    OBVIOUS
  <2>3. channel'[c] = [d EXCEPT !.out = <<>>]
    BY <1>2
  <2>4. full \in BOOLEAN
    OBVIOUS
  <2>5. NewBehind(c, 0) \/ Used(c)
    BY <1>1 DEF BufInv
  <2> HIDE DEF d, ch, full
  <2>6. LET e == Discarded(ch, ts, full)
        IN /\ Bounded(e) /\ e.out = ch.out /\ e.adjust = ch.adjust /\ e.nextTs = ch.nextTs
           /\ Ordered(e.buf) /\ \A t \in Int : Below(ch.buf, t) => Below(e.buf, t)
    BY <2>1, <2>4, DiscardedFacts, Zenon
  <2>7. LET e == Discarded(ch, ts, full)
            n == Block - StartPoint(ch, ts)
        IN \A x \in Int :
             /\ Above(ch.buf, 0, x) => Above(e.buf, 0, x)
             /\ /\ ts.start <= ch.audioTs /\ ch.audioTs < ts.end
                /\ n \in 1..Len(ch.buf) /\ Above(ch.buf, n, x)
                => Above(e.buf, 0, x)
    BY <2>1, <2>4, DiscardedAbove, Zenon
  <2>8. Bounded(d)
    BY <2>1, <2>2, <2>6
  <2>9. channel'[c].out = <<>> /\ channel'[c].buf = d.buf
    BY <2>3, <2>8 DEF Bounded, Channel
  <2>10. \A h \in heard[c] : Above(d.buf, 0, h[1])
    <3>1. CASE NewBehind(c, 0)
      <4>1. \A h \in heard[c] : Above(ch.buf, 0, h[1])
        BY <3>1 DEF NewBehind, ch
      <4>2. QED
        BY <4>1, <2>1, <2>2, <2>7
    <3>2. CASE Used(c)
      <4> DEFINE n == Block - StartPoint(ch, ts)
      <4>1. /\ c \in Listed /\ ts.start <= ch.audioTs /\ ch.audioTs < ts.end
            /\ n \in 1..Len(ch.buf) /\ \A h \in heard[c] : Above(ch.buf, n, h[1])
        BY <3>2 DEF Used, NewBehind, Rest, ch
      <4> HIDE DEF n
      <4>2. \A x \in Int : Above(ch.buf, n, x) => Above(Discarded(ch, ts, full).buf, 0, x)
        BY <4>1, <2>7 DEF n
      <4>3. QED
        BY <4>1, <4>2, <2>1, <2>2
    <3>3. QED
      BY <3>1, <3>2, <2>5
  <2>11. QED
    BY <2>2, <2>9, <2>10, <1>2 DEF NewBehind, ch
<1> HIDE DEF full, after
<1>4. PastInv'
  <2>1. \A c \in Clients : \A t \in Int : Past(c, t) => Past(c, t)'
    BY <1>2, <1>3 DEF Past, Below
  <2>2. QED
    BY <2>1, <1>1, <1>2, PastKeeps
<1>5. EmptyInv'
  <2>1. cpc = "place" => packet.client \in Clients /\ packet.client \notin Listed
    BY <1>2, PacketInHand DEF AudioBufHeld
  <2>2. QED
    BY <2>1, <1>1, <1>2, <1>3 DEF EmptyInv
<1>6. BufInv'
  BY <1>3 DEF BufInv
<1>7. OutInv'
  <2>1. ToMix' = {}
    BY <1>2 DEF ToMix
  <2>2. QED
    BY <2>1, <1>2 DEF OutInv
<1>8. QED
  BY <1>4, <1>5, <1>6, <1>7 DEF OnceInv

\* At first nothing was heard, and every buffer is empty.
LEMMA InitOnce == ASSUME Init PROVE OnceInv
<1>1. /\ channel = [c \in Clients |-> Created] /\ heard = [c \in Clients |-> {}] /\ flight = <<>>
      /\ cpc = "off" /\ mpc = "off"
  BY DEF Init
<1>2. \A c \in Clients : channel[c].out = <<>> /\ heard[c] = {}
  BY <1>1 DEF Created
<1>3. PastInv
  BY <1>1, <1>2 DEF PastInv, Past, Below
<1>4. ToMix = {}
  BY <1>1 DEF ToMix
<1>5. EmptyInv /\ BufInv /\ OutInv
  BY <1>1, <1>2, <1>4 DEF EmptyInv, BufInv, NewBehind, OutInv
<1>6. QED
  BY <1>3, <1>5 DEF OnceInv

\* Every step, of whichever thread, keeps it, while packets are in time.
LEMMA OnceInductive == ASSUME IInv, OnceInv, InTime(scenario), [Next]_vars PROVE OnceInv'
<1>1. CASE UNCHANGED vars
  <2>1. UNCHANGED <<rendered, flight, channel, heard, cpc, packet, mpc, i, mixing, ts, wait, order>>
    BY <1>1 DEF vars, hookVars, channelVars, captureVars, mixVars, bufferingVars, history
  <2>2. PastInv' /\ EmptyInv'
    BY <2>1, PastStays DEF OnceInv, EmptyInv
  <2>3. QED
    BY <2>1, <2>2, OnceStays DEF OnceInv
<1>2. CASE \E c \in Clients : Release(c)
  BY <1>2, ReleaseOnce
<1>3. CASE Pass
  BY <1>3, PassOnce
<1>4. CASE Start
  BY <1>4, StartOnce
<1>5. CASE Stop
  BY <1>5, StopOnce
<1>6. CASE CaptureThread
  BY <1>6, ReceiveOnce, OutputAudioOnce, PlaceOnce, CaptureLeavesOnce DEF CaptureThread
<1>7. CASE MixThread
  BY <1>7, FetchAudioOnce, PickOnce, FindMinOnce, MarkOnce, BufferOnce, MixOnce, DiscardOnce,
     MixLeavesOnce DEF MixThread
<1>8. CASE TheEnd
  BY <1>1, <1>8 DEF TheEnd
<1>9. QED
  BY <1>1, <1>2, <1>3, <1>4, <1>5, <1>6, <1>7, <1>8 DEF Next

\* Only mixing makes something heard.
LEMMA HeardStep ==
  ASSUME IInv, OnceInv, [Next]_vars, NEW c \in Clients, heard'[c] # heard[c]
  PROVE  \A old \in heard[c], new \in heard'[c] : old[1] < new[1]
<1>1. Mix
  BY DEF Next, vars, history, Release, Pass, Start, Stop, CaptureThread, Receive, OutputAudio, Place,
         CaptureLeaves, MixThread, FetchAudio, Pick, FindMin, Mark, Buffer, Discard, MixLeaves, TheEnd
<1>2. c = order[i]
  <2>1. mpc = "mix"
    BY <1>1 DEF Mix
  <2>2. i \in ToMix
    BY <2>1, ToMixFacts DEF ToMix, IInv, RoundInv
  <2>3. order[i] \in Clients
    BY <2>2, ToMixFacts
  <2>4. QED
    BY <2>3, <1>1, MixedStep
<1>3. NotYet(c) /\ \A g \in heard'[c] : \E k \in DOMAIN channel[c].out :
                     g[1] = channel[c].out[k] /\ channel[c].out[k] # 0
  BY <1>1, <1>2, MixedStep
<1>4. QED
  BY <1>3 DEF NotYet

\* No sample of a client is mixed twice, and none after a later one, in any number of
\* sessions and of clients, when no packet is later than the Delay allows with its
\* smoothing, its rounding and the tick that is being mixed: the three locks of the mix
\* thread then guard the buffer as well as one would.
THEOREM NeverTwice == Spec /\ InTime(scenario) => HeardOnce
<1>1. Init => OnceInv
  BY InitOnce
<1>2. InTime(scenario) /\ [Next]_vars => InTime(scenario)'
  <2>1. ASSUME [Next]_vars
        PROVE  scenario' = scenario
    BY <2>1 DEF Next, vars, Release, Pass, Start, Stop, CaptureThread, Receive, OutputAudio, Place,
                CaptureLeaves, MixThread, FetchAudio, Pick, FindMin, Mark, Buffer, Mix, Discard,
                MixLeaves, TheEnd
  <2>2. QED
    BY <2>1 DEF InTime
<1>3. IInv /\ OnceInv /\ InTime(scenario) /\ [Next]_vars => OnceInv'
  BY OnceInductive
<1>4. IInv /\ OnceInv /\ [Next]_vars
        => [\A c \in Clients : heard'[c] # heard[c] =>
              \A old \in heard[c], new \in heard'[c] : old[1] < new[1]]_vars
  BY HeardStep
<1>5. QED
  BY <1>1, <1>2, <1>3, <1>4, Invariance, PTL DEF Spec, HeardOnce
=============================================================================
