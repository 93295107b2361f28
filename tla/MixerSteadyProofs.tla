------------------------- MODULE MixerSteadyProofs -------------------------
(***************************************************************************)
(* Proofs about Mixer, for any number of clients: when sounds are heard.   *)
(*                                                                         *)
(* Undisturbed: a client that plays without a pause, in a session in which *)
(* every packet comes at once, is heard exactly the Delay after its time   *)
(* stamps and loses nothing, whatever another client does.  Others may     *)
(* come and go and make the mixer put ticks before the one at work.  The   *)
(* argument: these ticks all lie before Floor, where the first of the      *)
(* ticks to be mixed begins; the channel of a steady client, once it holds *)
(* something, begins at Floor or later, holds all that is to be heard from *)
(* there to the Delay after the clock, and what the mix thread picks,      *)
(* mixes and discards of it is the same.                                   *)
(*                                                                         *)
(* NoDrift: when packets are late, by less than the Delay allows, and      *)
(* channels run short, a sound is not put off by more than a tick for each *)
(* packet that a block may lack.  The argument is at the head of that part.*)
(***************************************************************************)
EXTENDS MixerProofs

\* One session, in which packets come at once.
Calm == scenario.late = 0 /\ scenario.sessions = 1

\* The constants of such scenarios.  Times are counted in frames; the Delay is
\* two ticks or more; the first packet is not silence (see MixerOnset.cfg); and
\* a channel can hold a packet and all that may wait for a mix thread that is
\* late, when the buffering is at its limit.  In the code the Delay is 100 ms and
\* a tick of 1024 frames about 23 ms; 1000 blocks fit into a channel, and
\* MAX_BUFFERING_TICKS is 45.
Usual ==
  /\ Frame = 1
  /\ Block + Block <= Delay
  /\ \A s \in Scenarios : s.late = 0 /\ s.sessions = 1 =>
       ~s.quiet /\ Packet + Delay + s.lag + MaxTicks * Tick <= MaxBuf
-----------------------------------------------------------------------------
\* A packet of client c has not been stamped yet, or not been placed.
Awaited(c) ==
  \/ \E k \in DOMAIN flight : flight[k].client = c
  \/ cpc = "output" /\ packet.client = c
Coming(c) == Awaited(c) \/ AudioBufHeld(c)

\* Where the first of the ticks that OBS is to be given begins.
Floor == audioTime - (Len(queue) - wait) * Tick

AtWork == mpc \notin {"off", "sleep"}

\* The session: it is the only one, and does not end.
OnlyInv ==
  /\ sessions = 0 => /\ ~capturing /\ cpc = "off" /\ mpc = "off"
                     /\ \A c \in Clients : rendered[c] = 0
  /\ sessions # 0 => sessions = 1 /\ capturing /\ cpc # "off" /\ mpc # "off"
  /\ \A c \in Clients : rendered[c] # 0 => c \in playing
  /\ \A c \in scenario.steady : rendered[c] # 0 => now <= rendered[c] + PacketTime

\* The packets have sound in them, and the channel of one in hand is listed.
PacketInv ==
  /\ \A k \in DOMAIN flight : ~flight[k].silent
  /\ cpc \in {"output", "place"} => ~packet.silent /\ packet.client \in Listed

\* A channel with something in it begins later than the Delay, and one that was
\* reset for the packet in hand is empty.
BeginInv ==
  /\ \A c \in Clients :
       IF channel[c].audioTs = 0 THEN channel[c].buf = <<>> ELSE channel[c].audioTs > Delay
  /\ cpc = "place" => channel[packet.client].audioTs # 0 /\ channel[packet.client].buf = <<>>

\* All ticks, those that wait and those to be mixed, are in one line, and none
\* begins before time does.
GridInv ==
  /\ \A k \in DOMAIN queue : queue[k] = Span(audioTime - (Len(queue) + 1 - k) * Tick)
  /\ AtWork => ts = queue[1]
  /\ sessions # 0 => /\ audioTime - Len(queue) * Tick >= 1 /\ audioTime <= now + Tick
                     /\ now <= audioTime + scenario.lag
                     /\ now <= Floor + scenario.lag + MaxTicks * Tick
  /\ mpc \in {"pick", "find", "mark", "refind", "buffer"} =>
       minTs = ts.start \/ (minTs <= ts.start /\ minTs > Delay)
  /\ mpc = "mix" => wait = 0

\* A client of which nothing has been placed.
Fresh(c) ==
  /\ rendered[c] = 0 \/ Awaited(c)
  /\ channel[c].audioTs = 0 /\ channel[c].buf = <<>> /\ channel[c].nextTs = 0

\* Each sample is where it is to be heard.
InPlace(buf, t) == \A k \in DOMAIN buf : buf[k] = t + k - 1

\* A client that is heard: its channel holds all that it has played, from the
\* first of the ticks to be mixed on.
Sounding(c) ==
  LET ch == channel[c]
  IN /\ rendered[c] # 0 /\ c \in Listed
     /\ ch.audioTs >= Floor
     /\ InPlace(ch.buf, ch.audioTs)
     /\ ch.audioTs + Len(ch.buf) = Delay + rendered[c] + (IF Coming(c) THEN 0 ELSE PacketTime)
     /\ ch.nextTs = rendered[c] + (IF Awaited(c) THEN 0 ELSE PacketTime)

\* What was picked of it is what is in front of its buffer.
PickedInv(c) ==
  LET ch == channel[c]
  IN ~ch.pending /\ Len(ch.out) = Block /\ InPlace(ch.out, ch.audioTs)

\* What is to be mixed of it was mixed.
MixedInv(c) ==
  \A x \in channel[c].audioTs..(Floor + Tick - 1) : <<x, x>> \in heard[c]

\* A client that is part of the first tick to be mixed, in the rounds of that tick.
PartInv(c) ==
  AtWork /\ channel[c].audioTs # 0 /\ channel[c].audioTs < Floor + Tick =>
    \E k \in 1..mixing :
      /\ order[k] = c
      /\ mpc # "pick" \/ k < i => PickedInv(c)
      /\ (mpc = "mix" /\ k < i) \/ (mpc = "discard" /\ wait = 0) => MixedInv(c)

SteadyInv ==
  \A c \in scenario.steady :
    /\ c \notin lost /\ \A h \in heard[c] : h[1] = h[2]
    /\ Fresh(c) \/ Sounding(c)
    /\ PartInv(c)

\* In a calm session.
CalmInv == OnlyInv /\ PacketInv /\ BeginInv /\ GridInv /\ SteadyInv
-----------------------------------------------------------------------------
(* The operators of AudioChannel, when times are counted in frames. *)

\* A frame lasts a unit of time.
LEMMA UnitFacts ==
  ASSUME Frame = 1
  PROVE  /\ Tick = Block /\ Tick \in Nat \ {0} /\ PacketTime = Packet /\ PacketTime \in Nat \ {0}
         /\ Block \in Nat \ {0} /\ Packet \in Nat \ {0}
         /\ \A t \in Int : TimeToFrames(t) = t /\ FramesToTime(t) = t
<1>1. Tick = Block * 1 /\ PacketTime = Packet * 1 /\ Block \in Nat \ {0} /\ Packet \in Nat \ {0}
  BY TickFacts, PacketFacts, ChannelAssumption
<1>2. ASSUME NEW t \in Int
      PROVE  TimeToFrames(t) = t /\ FramesToTime(t) = t
  <2>1. 1 \in Nat \ {0}
    OBVIOUS
  <2>2. t \div 1 \in Int /\ (t \div 1) * 1 <= t /\ t < (t \div 1) * 1 + 1
    BY <2>1, Division
  <2>3. t \div 1 = t
    BY <2>2
  <2>4. QED
    BY <2>3 DEF TimeToFrames, FramesToTime
<1>3. QED
  BY <1>1, <1>2

\* A packet that comes at once keeps its time stamp, or takes that at which the
\* one before it ends.
LEMMA AtOnceFacts ==
  ASSUME Frame = 1, NEW c \in Channel, NEW at \in Nat \ {0}, NEW n \in Nat
  PROVE  LET s == Stamped(c, at, n, at)
         IN /\ s.channel \in Channel
            /\ s.channel.buf = c.buf /\ s.channel.out = c.out /\ s.channel.pending = c.pending
            /\ s.channel.audioTs = c.audioTs
            /\ s.ts \in Nat /\ s.ts > Delay
            /\ c.nextTs = 0 \/ c.nextTs = at => s.ts = at + Delay /\ s.channel.nextTs = at + n
<1> DEFINE direct == Diff(at, at) < MaxVar
           jumped == c.nextTs # 0 /\ Diff(c.nextTs, at) > MaxVar /\ ~direct
           smooth == c.nextTs # 0 /\ Diff(c.nextTs, at) < Smooth
           start  == IF smooth THEN c.nextTs ELSE at
           adjust == IF direct THEN 0 ELSE IF jumped THEN at - at ELSE c.adjust
           diff   == Diff(c.nextSys, start + adjust)
           resync == c.nextSys # 0 /\ diff > MaxVar
           final  == IF resync THEN at - at ELSE adjust
           next   == start + FramesToTime(n)
           d == [c EXCEPT !.adjust = final, !.nextTs = next, !.nextSys = next + final]
           t == (IF resync THEN at ELSE start + adjust) + Delay
           s == Stamped(c, at, n, at)
<1>1. s = [channel |-> d, ts |-> t, pushBack |-> c.nextSys # 0 /\ diff < Smooth]
  BY DEF Stamped
<1>2. c.nextTs \in Nat /\ Delay \in Nat /\ MaxVar \in Nat \ {0} /\ FramesToTime(n) = n
  <2>1. c.nextTs \in Nat
    BY DEF Channel
  <2>2. QED
    BY <2>1, ChannelAssumption, UnitFacts
<1>3. adjust = 0
  BY <1>2 DEF Diff
<1>4. start \in Nat \ {0} /\ (c.nextTs = 0 \/ c.nextTs = at => start = at)
  BY <1>2
<1>5. final = 0
  BY <1>3
<1>6. t \in Nat /\ t > Delay /\ (start = at => t = at + Delay)
  BY <1>2, <1>3, <1>4
<1>7. next = start + n
  BY <1>2
<1> HIDE DEF direct, jumped, smooth, start, adjust, diff, resync, final, next, t
<1>8. /\ d \in Channel /\ d.buf = c.buf /\ d.out = c.out /\ d.pending = c.pending
      /\ d.audioTs = c.audioTs /\ d.nextTs = next
  <2> DEFINE sys == next + final
  <2>1. final \in Nat /\ next \in Nat /\ sys \in Nat
    BY <1>4, <1>5, <1>7
  <2>2. d = Stamp(c, final, next, sys)
    BY DEF Stamp
  <2> HIDE DEF d, sys
  <2>3. QED
    BY <2>1, <2>2, WithStamp
<1> HIDE DEF d
<1>9. s.channel = d /\ s.ts = t
  BY <1>1
<1>10. QED
  BY <1>9, <1>8, <1>6, <1>4, <1>7

\* The samples of a packet with sound are each where it is to be heard.
LEMMA SamplesInPlace ==
  ASSUME Frame = 1, NEW p \in Packets, ~p.silent
  PROVE  LET s == Samples(p)
         IN s \in Seq(Nat) /\ Len(s) = Packet /\ InPlace(s, p.ts + Delay)
<1> DEFINE s == Samples(p)
<1>1. s \in Seq(Nat) /\ Len(s) = Packet
  BY SampleFacts
<1>2. \A k \in 1..Packet : FramesToTime(k - 1) = k - 1
  BY UnitFacts
<1>3. s = [k \in 1..Packet |-> p.ts + Delay + FramesToTime(k - 1)]
  BY DEF Samples
<1>4. p.ts \in Nat /\ Delay \in Nat
  BY ChannelAssumption DEF Packets
<1>5. DOMAIN s = 1..Packet /\ \A k \in 1..Packet : s[k] = p.ts + Delay + (k - 1)
  BY <1>2, <1>3
<1> HIDE DEF s
<1>6. \A k \in 1..Packet : p.ts + Delay + (k - 1) = p.ts + Delay + k - 1
  BY <1>4, UnitFacts
<1>7. InPlace(s, p.ts + Delay)
  BY <1>5, <1>6 DEF InPlace
<1>8. QED
  BY <1>1, <1>7 DEF s

\* Places in the second of two sequences, of n and of m members, and in both together.
LEMMA PlaceFacts ==
  ASSUME NEW n \in Nat, NEW m \in Nat
  PROVE  /\ \A k \in 1..m : k + n \in 1..(n + m) /\ k + n > n /\ k + n - n = k
         /\ \A k \in 1..(n + m) : k > n => k - n \in 1..m
OBVIOUS

\* Samples that go behind others that are in place.
LEMMA BehindInPlace ==
  ASSUME NEW a \in Seq(Nat), NEW b \in Seq(Nat), NEW t \in Nat,
         InPlace(a, t), InPlace(b, t + Len(a)),
         NEW q \in Seq(Nat), Len(q) = Len(a) + Len(b),
         \A k \in 1..Len(a) : q[k] = a[k],
         \A k \in DOMAIN q : k > Len(a) => q[k] = b[k - Len(a)]
  PROVE  InPlace(q, t) /\ Sounds(a) \cup Sounds(b) \subseteq Sounds(q)
<1>1. /\ Len(a) \in Nat /\ Len(b) \in Nat /\ DOMAIN a = 1..Len(a) /\ DOMAIN b = 1..Len(b)
      /\ DOMAIN q = 1..(Len(a) + Len(b))
  OBVIOUS
<1>2. InPlace(q, t)
  <2> SUFFICES ASSUME NEW k \in DOMAIN q
               PROVE  q[k] = t + k - 1
    BY DEF InPlace
  <2>1. CASE k <= Len(a)
    <3>1. k \in 1..Len(a)
      BY <2>1, <1>1
    <3>2. QED
      BY <3>1, <1>1 DEF InPlace
  <2>2. CASE k > Len(a)
    <3>1. k - Len(a) \in DOMAIN b /\ q[k] = b[k - Len(a)]
      <4>1. q[k] = b[k - Len(a)]
        BY <2>2
      <4>2. k - Len(a) \in 1..Len(b)
        <5> DEFINE n == Len(a)
                   m == Len(b)
        <5>1. k \in 1..(n + m) /\ k > n /\ n \in Nat /\ m \in Nat
          BY <2>2, <1>1
        <5> HIDE DEF n, m
        <5>2. k - n \in 1..m
          BY <5>1, PlaceFacts, Zenon
        <5>3. QED
          BY <5>2 DEF n, m
      <4>3. QED
        BY <4>1, <4>2, <1>1
    <3>2. b[k - Len(a)] = t + Len(a) + (k - Len(a)) - 1
      BY <3>1 DEF InPlace
    <3>3. QED
      BY <3>1, <3>2, <1>1
  <2>3. QED
    BY <2>1, <2>2, <1>1
<1>3. \A k \in DOMAIN a : k \in DOMAIN q /\ q[k] = a[k]
  BY <1>1
<1>4. \A k \in DOMAIN b : k + Len(a) \in DOMAIN q /\ q[k + Len(a)] = b[k]
  <2> SUFFICES ASSUME NEW k \in DOMAIN b
               PROVE  k + Len(a) \in DOMAIN q /\ q[k + Len(a)] = b[k]
    OBVIOUS
  <2> DEFINE n == Len(a)
             m == Len(b)
  <2>1. k + Len(a) \in DOMAIN q /\ k + Len(a) > Len(a) /\ k + Len(a) - Len(a) = k
    <3>1. k \in 1..m /\ n \in Nat /\ m \in Nat
      BY <1>1
    <3> HIDE DEF n, m
    <3>2. k + n \in 1..(n + m) /\ k + n > n /\ k + n - n = k
      BY <3>1, PlaceFacts, Zenon
    <3>3. QED
      BY <3>2, <1>1 DEF n, m
  <2>2. q[k + Len(a)] = b[k + Len(a) - Len(a)]
    BY <2>1
  <2>3. QED
    BY <2>1, <2>2
<1>5. Sounds(a) \cup Sounds(b) \subseteq Sounds(q)
  <2>1. \A x \in Sounds(a) : x \in Sounds(q)
    BY <1>3, Zenon DEF Sounds
  <2>2. \A x \in Sounds(b) : x \in Sounds(q)
    <3> SUFFICES ASSUME NEW k \in DOMAIN b, b[k] # 0
                 PROVE  b[k] \in Sounds(q)
      BY Zenon DEF Sounds
    <3>1. k + Len(a) \in DOMAIN q /\ q[k + Len(a)] = b[k]
      BY <1>4, Zenon
    <3>2. QED
      BY <3>1, Zenon DEF Sounds
  <2>3. QED
    BY <2>1, <2>2
<1>6. QED
  BY <1>2, <1>5

\* The next packet of a channel whose samples are in place goes behind them, by
\* one way or the other.
LEMMA NextPacketFacts ==
  ASSUME Frame = 1, NEW c \in Channel, NEW s \in Seq(Nat),
         Len(c.buf) + Len(s) <= MaxBuf,
         InPlace(c.buf, c.audioTs), InPlace(s, c.audioTs + Len(c.buf)),
         NEW d, d \in {PushedBack(c, s), Placed(c, c.audioTs + Len(c.buf), s)}
  PROVE  /\ d.audioTs = c.audioTs /\ d.nextTs = c.nextTs
         /\ d.pending = c.pending /\ d.out = c.out
         /\ Len(d.buf) = Len(c.buf) + Len(s) /\ InPlace(d.buf, c.audioTs)
         /\ Sounds(c.buf) \cup Sounds(s) \subseteq Sounds(d.buf)
<1> DEFINE n == Len(c.buf)
<1>1. /\ c.buf \in Seq(Nat) /\ c.audioTs \in Nat /\ n \in Nat /\ Len(s) \in Nat
      /\ MaxBuf \in Nat
  <2>1. c.buf \in Seq(Nat) /\ c.audioTs \in Nat
    BY DEF Channel
  <2>2. QED
    BY <2>1, ChannelAssumption
<1>2. /\ c.buf \o s \in Seq(Nat) /\ Len(c.buf \o s) = n + Len(s)
      /\ \A k \in 1..n : (c.buf \o s)[k] = c.buf[k]
      /\ \A k \in DOMAIN (c.buf \o s) : k > n => (c.buf \o s)[k] = s[k - n]
  BY <1>1, ConcatFacts
<1>3. Laid(c.buf, n, s) = c.buf \o s
  <2>1. Laid(c.buf, n, s) = [k \in 1..(n + Len(s)) |-> IF k > n THEN s[k - n]
                                                      ELSE IF k <= n THEN c.buf[k] ELSE 0]
    BY DEF Laid
  <2>2. c.buf \o s = [k \in 1..(n + Len(s)) |-> (c.buf \o s)[k]] /\ DOMAIN (c.buf \o s) = 1..(n + Len(s))
    BY <1>2
  <2>3. \A k \in 1..(n + Len(s)) : (c.buf \o s)[k] = IF k > n THEN s[k - n]
                                                     ELSE IF k <= n THEN c.buf[k] ELSE 0
    BY <1>1, <1>2, <2>2
  <2>4. QED
    BY <2>1, <2>2, <2>3
<1>4. d = Refill(c, c.buf \o s)
  <2>1. TimeToFrames(c.audioTs + n - c.audioTs) = n
    <3>1. c.audioTs + n - c.audioTs = n
      BY <1>1
    <3>2. QED
      BY <3>1, <1>1, UnitFacts
  <2>2. PushedBack(c, s) = Refill(c, c.buf \o s)
    BY <1>1 DEF PushedBack, Refill
  <2>3. Placed(c, c.audioTs + n, s) = [c EXCEPT !.lastSize = 0, !.buf = Laid(c.buf, n, s)]
    <3> DEFINE e == c.audioTs + n
               at == TimeToFrames(e - c.audioTs)
    <3>1. at = n /\ ~(at + Len(s) > MaxBuf)
      BY <2>1, <1>1
    <3>2. Placed(c, e, s) = IF at + Len(s) > MaxBuf THEN c
                            ELSE [c EXCEPT !.lastSize = 0, !.buf = Laid(c.buf, at, s)]
      BY Zenon DEF Placed
    <3> HIDE DEF at
    <3>3. QED
      BY <3>1, <3>2
  <2>4. [c EXCEPT !.lastSize = 0, !.buf = c.buf \o s] = Refill(c, c.buf \o s)
    BY DEF Refill, Channel
  <2>5. QED
    BY <2>2, <2>3, <2>4, <1>3
<1>5. d.buf = c.buf \o s /\ d.audioTs = c.audioTs /\ d.nextTs = c.nextTs /\ d.pending = c.pending /\ d.out = c.out
  BY <1>2, <1>4, WithBuf
<1>6. InPlace(c.buf \o s, c.audioTs) /\ Sounds(c.buf) \cup Sounds(s) \subseteq Sounds(c.buf \o s)
  <2> DEFINE q == c.buf \o s
  <2>1. q \in Seq(Nat) /\ Len(q) = n + Len(s) /\ (\A k \in 1..n : q[k] = c.buf[k])
        /\ \A k \in DOMAIN q : k > n => q[k] = s[k - n]
    BY <1>2
  <2> HIDE DEF q
  <2>2. InPlace(q, c.audioTs) /\ Sounds(c.buf) \cup Sounds(s) \subseteq Sounds(q)
    BY <2>1, <1>1, BehindInPlace
  <2>3. QED
    BY <2>2 DEF q
<1>7. QED
  BY <1>2, <1>5, <1>6
-----------------------------------------------------------------------------
(* What is known in a calm session. *)

\* The constants and the scenario.
LEMMA UsualFacts ==
  ASSUME Usual, Calm, HookInv
  PROVE  /\ Frame = 1 /\ Tick = Block /\ Tick \in Nat \ {0} /\ Delay \in Nat \ {0} /\ Tick + Tick <= Delay
         /\ PacketTime = Packet /\ PacketTime \in Nat \ {0} /\ MaxBuf \in Nat /\ MaxTicks \in Nat
         /\ now \in Nat \ {0} /\ scenario.lag \in Nat /\ scenario.steady \subseteq Clients
         /\ scenario.quiet = FALSE
         /\ Packet + Delay + scenario.lag + MaxTicks * Tick <= MaxBuf
<1>1. scenario \in Scenarios /\ now \in Nat \ {0}
  BY ScenarioFacts DEF HookInv
<1>2. scenario.lag \in Nat /\ scenario.steady \subseteq Clients /\ scenario.quiet \in BOOLEAN
  <2>1. scenario \in Scenario /\ Horizon \in Nat
    BY <1>1, MixerAssumption
  <2>2. QED
    BY <2>1 DEF Scenario
<1>3. Frame = 1 /\ Block + Block <= Delay
  BY DEF Usual
<1>4. ~scenario.quiet /\ Packet + Delay + scenario.lag + MaxTicks * Tick <= MaxBuf
  BY <1>1 DEF Usual, Calm
<1>5. QED
  BY <1>1, <1>2, <1>3, <1>4, UnitFacts, ChannelAssumption, MixerAssumption

\* Times of ticks.
LEMMA TimesFacts ==
  ASSUME NEW a \in Int, NEW b \in Int, NEW t \in Nat \ {0}
  PROVE  /\ a * t \in Int /\ (a - b) * t = a * t - b * t /\ (a + b) * t = a * t + b * t
         /\ 0 * t = 0 /\ 1 * t = t
         /\ a >= 0 => a * t >= 0
         /\ a >= 1 => a * t >= t
         /\ a <= b => a * t <= b * t
<1>1. a * t \in Int /\ b * t \in Int /\ (a - b) * t = a * t - b * t /\ (a + b) * t = a * t + b * t
  OBVIOUS
<1>2. \A n \in Nat : n * t >= 0
  OBVIOUS
<1>3. a >= 1 => a * t >= t
  <2>1. a >= 1 => (a - 1) * t >= 0
    BY <1>2
  <2>2. (a - 1) * t = a * t - t
    OBVIOUS
  <2>3. QED
    BY <2>1, <2>2, <1>1
<1>4. a <= b => a * t <= b * t
  <2>1. a <= b => (b - a) * t >= 0
    BY <1>2
  <2>2. (b - a) * t = b * t - a * t
    OBVIOUS
  <2>3. QED
    BY <2>1, <2>2, <1>1
<1>5. QED
  BY <1>1, <1>2, <1>3, <1>4

\* The channels.
LEMMA ChannelFacts ==
  ASSUME ChannelInv, NEW c \in Clients
  PROVE  /\ channel[c] \in Channel /\ channel[c].buf \in Seq(Nat) /\ Len(channel[c].buf) \in Nat
         /\ channel[c].audioTs \in Nat /\ channel[c].nextTs \in Nat
         /\ channel[c].pending \in BOOLEAN /\ channel[c].out \in Seq(Nat)
BY DEF ChannelInv, Channel

\* A packet that is not yet placed was released just now, and its client has no other.
LEMMA ComingFacts ==
  ASSUME Calm, IInv
  PROVE  /\ \A k \in DOMAIN flight : /\ flight[k].client \in Clients
                                     /\ flight[k].ts = now /\ rendered[flight[k].client] = now
         /\ \A j, k \in DOMAIN flight : j # k => flight[j].client # flight[k].client
         /\ cpc \in {"output", "place"} =>
              /\ packet \in Packets /\ packet.client \in Clients
              /\ packet.ts = now /\ rendered[packet.client] = now
              /\ \A k \in DOMAIN flight : flight[k].client # packet.client
         /\ \A c \in Clients : Coming(c) => rendered[c] = now
<1>1. HookInv /\ TravelInv
  BY DEF IInv
<1>2. now \in Nat /\ PacketTime \in Nat \ {0} /\ scenario.late = 0
  BY <1>1, ScenarioFacts, PacketFacts DEF HookInv, Calm
<1>3. ASSUME NEW p, Due(p)
      PROVE  p \in Packets /\ p.client \in Clients /\ p.ts = now /\ rendered[p.client] = now
  <2>1. p \in Packets /\ p.ts <= rendered[p.client] /\ now <= p.ts + scenario.late
    BY <1>3 DEF Due
  <2>2. p.client \in Clients /\ p.ts \in Nat
    BY <2>1 DEF Packets
  <2>3. rendered[p.client] \in Nat /\ rendered[p.client] <= now
    BY <1>1, <2>2 DEF HookInv
  <2>4. QED
    BY <2>1, <2>2, <2>3, <1>2
<1>4. ASSUME NEW p, Due(p), NEW q, Due(q), After(p, q)
      PROVE  p.client # q.client
  <2>1. p.ts = now /\ q.ts = now
    BY <1>3, <1>4
  <2>2. p.client = q.client => p.ts + PacketTime <= q.ts
    BY <1>4 DEF After
  <2>3. QED
    BY <2>1, <2>2, <1>2
<1>5. \A k \in DOMAIN flight : Due(flight[k])
  BY <1>1 DEF TravelInv
<1>6. \A j, k \in DOMAIN flight : j # k => flight[j].client # flight[k].client
  <2> SUFFICES ASSUME NEW j \in DOMAIN flight, NEW k \in DOMAIN flight, j # k
               PROVE  flight[j].client # flight[k].client
    OBVIOUS
  <2>1. j \in Int /\ k \in Int
    BY <1>1 DEF HookInv
  <2>2. CASE j < k
    <3>1. After(flight[j], flight[k])
      BY <2>2, <1>1 DEF TravelInv
    <3>2. QED
      BY <3>1, <1>4, <1>5
  <2>3. CASE k < j
    <3>1. After(flight[k], flight[j])
      BY <2>3, <1>1 DEF TravelInv
    <3>2. flight[k].client # flight[j].client
      BY <3>1, <1>4, <1>5
    <3>3. QED
      BY <3>2
  <2>4. QED
    BY <2>1, <2>2, <2>3
<1>7. ASSUME cpc \in {"output", "place"}
      PROVE  Due(packet) /\ \A k \in DOMAIN flight : After(packet, flight[k])
  BY <1>1, <1>7 DEF TravelInv
<1>8. cpc \in {"output", "place"} => \A k \in DOMAIN flight : flight[k].client # packet.client
  <2> SUFFICES ASSUME cpc \in {"output", "place"}, NEW k \in DOMAIN flight
               PROVE  flight[k].client # packet.client
    OBVIOUS
  <2>1. packet.client # flight[k].client
    BY <1>4, <1>5, <1>7
  <2>2. QED
    BY <2>1
<1>9. \A c \in Clients : Coming(c) => rendered[c] = now
  BY <1>3, <1>5, <1>7 DEF Coming, Awaited, AudioBufHeld
<1>10. QED
  BY <1>3, <1>5, <1>6, <1>7, <1>8, <1>9

\* Where the first of the ticks to be mixed begins, and the one at work.
LEMMA FloorFacts ==
  ASSUME Usual, Calm, IInv, GridInv
  PROVE  /\ Floor \in Int /\ audioTime \in Nat /\ wait \in Nat /\ Len(queue) \in Nat /\ wait <= Len(queue)
         /\ sessions # 0 => Floor >= 1 /\ Floor <= now + Tick
         /\ AtWork => /\ sessions # 0 /\ ts = Span(ts.start) /\ ts.start \in Nat \ {0}
                      /\ ts.end = ts.start + Tick
                      /\ Floor <= now /\ ts.start = Floor - wait * Tick
                      /\ wait = 0 => ts.start = Floor
                      /\ wait # 0 => ts.end <= Floor
<1>1. HookInv /\ AccountInv /\ LineInv
  BY DEF IInv
<1>2. /\ queue \in Seq(Interval) /\ Len(queue) \in Nat /\ DOMAIN queue = 1..Len(queue)
      /\ wait \in Nat /\ total \in Nat /\ wait <= total /\ wait <= Len(queue)
  BY <1>1, QueueFacts
<1>3. audioTime \in Nat /\ Tick \in Nat \ {0} /\ now \in Nat
  BY <1>1, UsualFacts DEF LineInv
<1>4. Floor \in Int /\ Floor = audioTime - Len(queue) * Tick + wait * Tick
  <2>1. (Len(queue) - wait) * Tick = Len(queue) * Tick - wait * Tick
        /\ Len(queue) * Tick \in Int /\ wait * Tick \in Int
    BY <1>2, <1>3, TimesFacts
  <2>2. Floor = audioTime - (Len(queue) - wait) * Tick
    BY DEF Floor
  <2>3. QED
    BY <2>1, <2>2, <1>3
<1>5. wait * Tick \in Nat /\ (wait # 0 => wait * Tick >= Tick)
  <2>1. wait \in Int /\ wait >= 0 /\ (wait # 0 => wait >= 1)
    BY <1>2
  <2>2. wait * Tick \in Int /\ (wait >= 0 => wait * Tick >= 0) /\ (wait >= 1 => wait * Tick >= Tick)
    BY <2>1, <1>3, TimesFacts
  <2>3. QED
    BY <2>1, <2>2
<1>6. sessions # 0 => audioTime - Len(queue) * Tick >= 1
  BY DEF GridInv
<1>7. Len(queue) * Tick \in Int
  BY <1>2, <1>3, TimesFacts
<1>8. sessions # 0 => Floor >= 1 /\ Floor <= now + Tick
  <2>1. Floor <= audioTime
    <3>1. Len(queue) - wait \in Int /\ Len(queue) - wait >= 0
      BY <1>2
    <3>2. (Len(queue) - wait) * Tick \in Int /\ (Len(queue) - wait) * Tick >= 0
      BY <3>1, <1>3, TimesFacts
    <3>3. QED
      BY <3>2, <1>3 DEF Floor
  <2>2. sessions # 0 => audioTime <= now + Tick
    BY DEF GridInv
  <2>3. QED
    BY <2>1, <2>2, <1>3, <1>4, <1>5, <1>6, <1>7
<1>9. ASSUME AtWork
      PROVE  /\ sessions # 0 /\ ts = Span(ts.start) /\ ts.start \in Nat \ {0}
             /\ ts.end = ts.start + Tick
             /\ Floor <= now /\ ts.start = Floor - wait * Tick
             /\ wait = 0 => ts.start = Floor
             /\ wait # 0 => ts.end <= Floor
  <2>1. sessions # 0
    BY <1>1, <1>9 DEF LineInv, AtWork
  <2>2. Len(queue) = total + 1
    BY <1>1, <1>9, QueueFacts DEF AtWork
  <2>3. 1 \in DOMAIN queue /\ ts = queue[1]
    BY <1>2, <1>9, <2>2 DEF GridInv
  <2>4. ts = Span(audioTime - (Len(queue) + 1 - 1) * Tick)
    BY <2>3 DEF GridInv
  <2>5. Len(queue) + 1 - 1 = Len(queue)
    BY <1>2
  <2> DEFINE s == audioTime - Len(queue) * Tick
  <2>6. s \in Nat \ {0} /\ s = Floor - wait * Tick
    BY <2>1, <1>3, <1>4, <1>5, <1>6, <1>7
  <2>7. ts = Span(s)
    BY <2>4, <2>5
  <2> HIDE DEF s
  <2>8. ts.start = s /\ ts.end = s + Tick
    BY <2>7 DEF Span
  <2>9. wait + 1 \in DOMAIN queue /\ wait + 1 > wait
    BY <1>2, <2>2
  <2>10. queue[wait + 1].start <= now
    BY <2>9, <1>1 DEF LineInv
  <2>11. queue[wait + 1] = Span(audioTime - (Len(queue) + 1 - (wait + 1)) * Tick)
    BY <2>9 DEF GridInv
  <2>12. queue[wait + 1].start = Floor
    <3>1. Len(queue) \in Nat /\ wait \in Nat
      BY <1>2
    <3>2. Len(queue) + 1 - (wait + 1) = Len(queue) - wait
      BY <3>1
    <3>3. QED
      BY <3>2, <2>11 DEF Span, Floor
  <2>13. wait = 0 => wait * Tick = 0
    BY <1>3, TimesFacts
  <2>14. ts = Span(ts.start) /\ ts.start \in Nat \ {0} /\ ts.end = ts.start + Tick
        /\ ts.start = Floor - wait * Tick
    BY <2>6, <2>7, <2>8
  <2>15. Floor <= now
    BY <2>10, <2>12
  <2>16. (wait = 0 => ts.start = Floor) /\ (wait # 0 => ts.end <= Floor)
    <3> DEFINE w == wait * Tick
    <3>1. /\ w \in Nat /\ (wait = 0 => w = 0) /\ (wait # 0 => w >= Tick)
          /\ ts.start = Floor - w /\ ts.end = ts.start + Tick /\ Floor \in Int /\ Tick \in Nat
      BY <2>13, <2>14, <1>3, <1>4, <1>5
    <3> HIDE DEF w
    <3>2. QED
      BY <3>1
  <2>17. QED
    BY <2>1, <2>14, <2>15, <2>16
<1>10. QED
  BY <1>2, <1>3, <1>4, <1>8, <1>9

\* The channel of a steady client that is heard holds all that is to be heard up to
\* the Delay after the clock.
LEMMA ReachFacts ==
  ASSUME Usual, Calm, IInv, OnlyInv, NEW c \in scenario.steady, Sounding(c)
  PROVE  LET ch == channel[c]
         IN /\ ch.audioTs + Len(ch.buf) >= Delay + now
            /\ Coming(c) => ch.audioTs + Len(ch.buf) = Delay + now
<1>1. HookInv /\ ChannelInv
  BY DEF IInv
<1>2. c \in Clients /\ now \in Nat /\ Delay \in Nat /\ PacketTime \in Nat
  BY <1>1, UsualFacts
<1>3. /\ rendered[c] \in Nat /\ rendered[c] # 0
      /\ channel[c].audioTs + Len(channel[c].buf) = Delay + rendered[c] + (IF Coming(c) THEN 0 ELSE PacketTime)
  BY <1>1, <1>2 DEF Sounding, HookInv
<1>4. now <= rendered[c] + PacketTime
  BY <1>3 DEF OnlyInv
<1>5. CASE Coming(c)
  <2>1. rendered[c] = now
    BY <1>2, <1>5, ComingFacts
  <2>2. QED
    BY <2>1, <1>2, <1>3, <1>5
<1>6. CASE ~Coming(c)
  BY <1>2, <1>3, <1>4, <1>6
<1>7. QED
  BY <1>5, <1>6

\* A client that is not fresh is heard after Floor.
LEMMA SoundingFacts ==
  ASSUME Usual, Calm, IInv, GridInv, NEW c \in Clients, Sounding(c)
  PROVE  sessions = 0 \/ channel[c].audioTs # 0
<1>1. ChannelInv
  BY DEF IInv
<1>2. Floor \in Int /\ (sessions # 0 => Floor >= 1) /\ channel[c].audioTs \in Nat
  BY <1>1, FloorFacts, ChannelFacts
<1>3. channel[c].audioTs >= Floor
  BY DEF Sounding
<1>4. QED
  BY <1>2, <1>3
-----------------------------------------------------------------------------
(* A step that changes nothing of what a part speaks of leaves it true. *)

\* The session,
LEMMA OnlyStays ==
  ASSUME OnlyInv, UNCHANGED <<scenario, now, sessions, capturing, rendered, playing>>,
         (cpc' = "off") = (cpc = "off"), (mpc' = "off") = (mpc = "off")
  PROVE  OnlyInv'
BY DEF OnlyInv

\* the packets,
LEMMA PacketStays ==
  ASSUME PacketInv, UNCHANGED <<flight, cpc, packet, order>>
  PROVE  PacketInv'
BY DEF PacketInv, Listed

\* where the channels begin,
LEMMA BeginStays ==
  ASSUME BeginInv, UNCHANGED <<cpc, packet, channel>>
  PROVE  BeginInv'
BY DEF BeginInv

\* the ticks,
LEMMA GridStays ==
  ASSUME GridInv, UNCHANGED <<scenario, now, sessions, queue, wait, audioTime, mpc, ts, minTs>>
  PROVE  GridInv'
BY DEF GridInv, AtWork, Floor

\* which packets are coming,
LEMMA ComingStays ==
  ASSUME UNCHANGED <<flight, cpc, packet>>
  PROVE  \A c \in Clients : Awaited(c)' = Awaited(c) /\ Coming(c)' = Coming(c)
BY DEF Awaited, Coming, AudioBufHeld

\* a client, whether it is fresh or heard,
LEMMA KeptStays ==
  ASSUME NEW c \in Clients, Fresh(c) \/ Sounding(c),
         rendered'[c] = rendered[c], channel[c].audioTs \in Int,
         channel'[c].audioTs = channel[c].audioTs, channel'[c].buf = channel[c].buf,
         channel'[c].nextTs = channel[c].nextTs,
         Awaited(c)' = Awaited(c), Coming(c)' = Coming(c),
         Floor \in Int, Floor' \in Int, Floor' <= Floor, c \in Listed => c \in Listed'
  PROVE  (Fresh(c) \/ Sounding(c))'
<1>1. CASE Fresh(c)
  BY <1>1 DEF Fresh
<1>2. CASE Sounding(c)
  <2>1. channel'[c].audioTs >= Floor'
    BY <1>2 DEF Sounding
  <2>2. QED
    BY <2>1, <1>2 DEF Sounding
<1>3. QED
  BY <1>1, <1>2

\* and its part in the tick at work.
LEMMA PartStays ==
  ASSUME NEW c \in Clients, PartInv(c), mixing \in Nat,
         UNCHANGED <<mpc, wait, mixing, i, Floor>>,
         \A k \in 1..mixing : order'[k] = order[k],
         channel'[c].audioTs = channel[c].audioTs, channel'[c].pending = channel[c].pending,
         channel'[c].out = channel[c].out, heard'[c] = heard[c]
  PROVE  PartInv(c)'
<1>1. PickedInv(c)' = PickedInv(c) /\ MixedInv(c)' = MixedInv(c) /\ AtWork' = AtWork
  BY DEF PickedInv, MixedInv, AtWork
<1>2. QED
  BY <1>1 DEF PartInv
-----------------------------------------------------------------------------
(* The hooked process, and time. *)

\* Nothing has been played at the beginning.
LEMMA InitCalm == ASSUME Usual, Calm, Init PROVE CalmInv
<1>1. IInv
  BY InitStep
<1>2. /\ now \in Nat \ {0} /\ scenario.steady \subseteq Clients
  BY <1>1, UsualFacts DEF IInv
<1>3. OnlyInv
  BY <1>2 DEF Init, OnlyInv
<1>4. PacketInv
  BY DEF Init, PacketInv
<1>5. BeginInv
  BY DEF Init, BeginInv, Created
<1>6. GridInv
  BY DEF Init, GridInv, AtWork
<1>7. SteadyInv
  <2> SUFFICES ASSUME NEW c \in scenario.steady
               PROVE  /\ c \notin lost /\ \A h \in heard[c] : h[1] = h[2]
                      /\ Fresh(c) /\ PartInv(c)
    BY DEF SteadyInv
  <2>1. c \in Clients
    BY <1>2
  <2>2. QED
    BY <2>1 DEF Init, Fresh, Created, PartInv, AtWork
<1>8. QED
  BY <1>3, <1>4, <1>5, <1>6, <1>7 DEF CalmInv

\* A steady client releases its next packet when the last one ends.
LEMMA ReleaseCalm ==
  ASSUME Usual, Calm, IInv, CalmInv, IInv', NEW d \in Clients, Release(d)
  PROVE  CalmInv'
<1>1. /\ OnlyInv /\ PacketInv /\ BeginInv /\ GridInv /\ SteadyInv
      /\ HookInv /\ TravelInv /\ ChannelInv /\ LineInv
  BY DEF IInv, CalmInv
<1>2. PICK silent \in {FALSE, scenario.quiet} :
        flight' = Append(flight, [client |-> d, ts |-> now, silent |-> silent])
  BY DEF Release
<1>3. /\ capturing /\ AtRest /\ (rendered[d] = 0 \/ rendered[d] + PacketTime <= now)
      /\ rendered' = [rendered EXCEPT ![d] = now] /\ playing' = playing \cup {d}
      /\ UNCHANGED <<scenario, now, sessionVars, channelVars, captureVars, mixVars, bufferingVars,
                     lastOut, heard, lost>>
  BY DEF Release
<1>4. /\ now \in Nat \ {0} /\ PacketTime \in Nat \ {0} /\ scenario.steady \subseteq Clients /\ silent = FALSE
      /\ Delay \in Nat
  BY <1>1, <1>2, UsualFacts
<1>5. rendered \in [Clients -> Nat] /\ flight \in Seq(Packets)
  BY <1>1 DEF HookInv
<1>6. /\ rendered'[d] = now /\ \A c \in Clients : c # d => rendered'[c] = rendered[c]
  BY <1>3, <1>5
<1>7. /\ Len(flight) \in Nat /\ DOMAIN flight = 1..Len(flight) /\ DOMAIN flight' = 1..(Len(flight) + 1)
      /\ \A k \in 1..Len(flight) : flight'[k] = flight[k]
      /\ flight'[Len(flight) + 1].client = d /\ ~flight'[Len(flight) + 1].silent
  <2> DEFINE p == [client |-> d, ts |-> now, silent |-> silent]
  <2>1. p \in Packets
    BY <1>2, <1>4 DEF Packets
  <2>2. p.client = d /\ ~p.silent
    BY <1>4
  <2> HIDE DEF p
  <2>3. flight' = Append(flight, p)
    BY <1>2 DEF p
  <2>4. QED
    BY <2>1, <2>2, <2>3, <1>5, AppendFacts
<1>8. OnlyInv'
  <2>1. sessions # 0
    BY <1>1, <1>3 DEF OnlyInv
  <2>2. \A c \in scenario.steady : rendered'[c] # 0 => now <= rendered'[c] + PacketTime
    BY <1>1, <1>4, <1>6 DEF OnlyInv
  <2>3. \A c \in Clients : rendered'[c] # 0 => c \in playing'
    BY <1>1, <1>3, <1>6 DEF OnlyInv
  <2>4. QED
    BY <2>1, <2>2, <2>3, <1>1, <1>3 DEF OnlyInv, sessionVars, captureVars, mixVars
<1>9. PacketInv'
  BY <1>1, <1>3, <1>7 DEF PacketInv, Listed, captureVars, channelVars, AtRest
<1>10. BeginInv' /\ GridInv'
  BY <1>1, <1>3, BeginStays, GridStays DEF sessionVars, channelVars, captureVars, mixVars, bufferingVars
<1>11. cpc \in {"off", "wait"} /\ cpc' = cpc /\ mpc' \in {"off", "sleep"}
  BY <1>3 DEF AtRest, captureVars, mixVars
<1>12. ~AtWork' /\ Floor' = Floor /\ Listed' = Listed /\ channel' = channel
  BY <1>3, <1>11 DEF AtWork, Floor, Listed, mixVars, bufferingVars, channelVars
<1>13. \A c \in Clients : c # d => Awaited(c)' = Awaited(c) /\ Coming(c)' = Coming(c)
  <2> SUFFICES ASSUME NEW c \in Clients, c # d
               PROVE  Awaited(c)' = Awaited(c) /\ Coming(c)' = Coming(c)
    OBVIOUS
  <2>1. (\E k \in DOMAIN flight' : flight'[k].client = c) = (\E k \in DOMAIN flight : flight[k].client = c)
    <3>1. ASSUME NEW k \in DOMAIN flight', flight'[k].client = c
          PROVE  k \in DOMAIN flight /\ flight[k].client = c
      BY <3>1, <1>7
    <3>2. ASSUME NEW k \in DOMAIN flight, flight[k].client = c
          PROVE  k \in DOMAIN flight' /\ flight'[k].client = c
      BY <3>2, <1>7
    <3>3. QED
      BY <3>1, <3>2
  <2>2. QED
    BY <2>1, <1>11 DEF Awaited, Coming, AudioBufHeld
<1>14. ~Coming(d) /\ Awaited(d)'
  <2>1. \A k \in DOMAIN flight : flight[k].client # d
    <3> SUFFICES ASSUME NEW k \in DOMAIN flight, flight[k].client = d
                 PROVE  FALSE
      OBVIOUS
    <3>1. rendered[d] = now
      BY ComingFacts
    <3>2. QED
      BY <3>1, <1>3, <1>4
  <2>2. Len(flight) + 1 \in DOMAIN flight'
    BY <1>7
  <2>3. QED
    BY <2>1, <2>2, <1>7, <1>11 DEF Awaited, Coming, AudioBufHeld
<1>15. SteadyInv'
  <2> SUFFICES ASSUME NEW c \in scenario.steady
               PROVE  /\ c \notin lost' /\ \A h \in heard'[c] : h[1] = h[2]
                      /\ (Fresh(c) \/ Sounding(c))' /\ PartInv(c)'
    BY <1>3 DEF SteadyInv
  <2>1. /\ c \in Clients /\ c \notin lost /\ \A h \in heard[c] : h[1] = h[2]
        /\ Fresh(c) \/ Sounding(c)
    BY <1>1, <1>4 DEF SteadyInv
  <2>2. c \notin lost' /\ (\A h \in heard'[c] : h[1] = h[2]) /\ PartInv(c)'
    BY <2>1, <1>3, <1>12 DEF PartInv
  <2>3. CASE c # d
    <3>1. Floor \in Int /\ channel[c].audioTs \in Int
      BY <2>1, <1>1, FloorFacts, ChannelFacts
    <3>2. (Fresh(c) \/ Sounding(c))'
      BY <2>1, <2>3, <3>1, <1>6, <1>12, <1>13, KeptStays
    <3>3. QED
      BY <2>2, <3>2
  <2>4. CASE c = d /\ Fresh(c)
    BY <2>2, <2>4, <1>12, <1>14 DEF Fresh
  <2>5. CASE c = d /\ Sounding(c)
    <3>1. rendered[d] \in Nat /\ rendered[d] # 0 /\ now <= rendered[d] + PacketTime
      BY <2>5, <1>1, <1>5 DEF Sounding, OnlyInv
    <3>2. now = rendered[d] + PacketTime
      BY <3>1, <1>3, <1>4
    <3>3. Coming(d)' /\ ~Awaited(d)
      BY <1>14 DEF Coming
    <3>4. Sounding(d)'
      BY <2>5, <3>1, <3>2, <3>3, <1>4, <1>6, <1>12, <1>14 DEF Sounding
    <3>5. QED
      BY <2>2, <2>5, <3>4
  <2>6. QED
    BY <2>1, <2>3, <2>4, <2>5
<1>16. QED
  BY <1>8, <1>9, <1>10, <1>15 DEF CalmInv

\* Time passes when no packet is on its way and each steady client has its last one out.
LEMMA PassCalm == ASSUME Usual, Calm, IInv, CalmInv, IInv', Pass PROVE CalmInv'
<1>1. /\ OnlyInv /\ PacketInv /\ BeginInv /\ GridInv /\ SteadyInv
      /\ HookInv /\ TravelInv /\ ChannelInv /\ LineInv /\ AccountInv
  BY DEF IInv, CalmInv
<1>2. /\ sessions > 0 /\ AtRest /\ now' = now + 1
      /\ flight # <<>> => now < Head(flight).ts + scenario.late
      /\ capturing => \A c \in scenario.steady \cap playing : now < rendered[c] + PacketTime
      /\ mpc = "sleep" => now < audioTime + scenario.lag
      /\ UNCHANGED <<scenario, hookVars, sessionVars, channelVars, captureVars, mixVars,
                     bufferingVars, history>>
  BY DEF Pass
<1>3. /\ UNCHANGED <<scenario, rendered, playing, flight, capturing, sessions, channel, order, cpc, packet>>
      /\ UNCHANGED <<mpc, i, audioTime, mixing, ts, minTs, queue, wait, lost, heard>>
  BY <1>2 DEF hookVars, sessionVars, channelVars, captureVars, mixVars, bufferingVars, history
<1>4. /\ now \in Nat \ {0} /\ PacketTime \in Nat \ {0} /\ scenario.steady \subseteq Clients
      /\ Tick \in Nat \ {0} /\ scenario.lag \in Nat /\ MaxTicks \in Nat /\ scenario.late = 0
  BY <1>1, UsualFacts DEF Calm
<1>5. rendered \in [Clients -> Nat] /\ flight \in Seq(Packets)
  BY <1>1 DEF HookInv
<1>6. capturing /\ sessions # 0 /\ mpc = "sleep" /\ cpc = "wait"
  BY <1>1, <1>2 DEF OnlyInv, AtRest
<1>7. flight = <<>>
  <2>1. ASSUME flight # <<>>
        PROVE  FALSE
    <3>1. 1 \in DOMAIN flight /\ Head(flight) = flight[1]
      BY <2>1, <1>5
    <3>2. flight[1].ts = now
      BY <3>1, ComingFacts
    <3>3. QED
      BY <3>1, <3>2, <2>1, <1>2, <1>4
  <2>2. QED
    BY <2>1
<1>8. OnlyInv'
  <2>1. \A c \in scenario.steady : rendered[c] # 0 => now + 1 <= rendered[c] + PacketTime
    <3> SUFFICES ASSUME NEW c \in scenario.steady, rendered[c] # 0
                 PROVE  now + 1 <= rendered[c] + PacketTime
      OBVIOUS
    <3>1. c \in Clients /\ rendered[c] \in Nat
      BY <1>4, <1>5
    <3>2. c \in playing
      BY <3>1, <1>1 DEF OnlyInv
    <3>3. now < rendered[c] + PacketTime
      BY <3>2, <1>2, <1>6
    <3>4. QED
      BY <3>1, <3>3, <1>4
  <2>2. QED
    BY <2>1, <1>1, <1>2, <1>3 DEF OnlyInv
<1>9. PacketInv' /\ BeginInv'
  BY <1>1, <1>3, PacketStays, BeginStays
<1>10. Floor' = Floor /\ AtWork' = AtWork /\ ~AtWork /\ Listed' = Listed
  BY <1>3, <1>6 DEF Floor, AtWork, Listed
<1>11. GridInv'
  <2>1. now + 1 <= audioTime + scenario.lag /\ audioTime \in Nat
    BY <1>1, <1>2, <1>4, <1>6 DEF LineInv
  <2>2. /\ Len(queue) \in Nat /\ wait \in Nat /\ wait <= Len(queue) /\ Len(queue) <= MaxTicks
    BY <1>1, <1>4, <1>6, QueueFacts DEF AccountInv
  <2>3. (Len(queue) - wait) * Tick \in Int /\ (Len(queue) - wait) * Tick <= MaxTicks * Tick
        /\ MaxTicks * Tick \in Int
    <3>1. Len(queue) - wait \in Int /\ Len(queue) - wait <= MaxTicks /\ MaxTicks \in Int
      BY <2>2, <1>4
    <3>2. QED
      BY <3>1, <1>4, TimesFacts
  <2>4. now + 1 <= Floor + scenario.lag + MaxTicks * Tick
    BY <2>1, <2>3, <1>4 DEF Floor
  <2>5. audioTime <= now + 1 + Tick
    <3>1. audioTime <= now + Tick
      BY <1>1, <1>6 DEF GridInv
    <3>2. QED
      BY <3>1, <2>1, <1>4
  <2>6. QED
    BY <2>1, <2>4, <2>5, <1>1, <1>2, <1>3, <1>6, <1>10 DEF GridInv
<1>12. SteadyInv'
  <2> SUFFICES ASSUME NEW c \in scenario.steady
               PROVE  /\ c \notin lost /\ \A h \in heard[c] : h[1] = h[2]
                      /\ (Fresh(c) \/ Sounding(c))' /\ PartInv(c)'
    BY <1>3 DEF SteadyInv
  <2>1. /\ c \in Clients /\ c \notin lost /\ \A h \in heard[c] : h[1] = h[2]
        /\ Fresh(c) \/ Sounding(c)
    BY <1>1, <1>4 DEF SteadyInv
  <2>2. PartInv(c)'
    BY <1>10 DEF PartInv
  <2>3. Awaited(c)' = Awaited(c) /\ Coming(c)' = Coming(c)
    BY <2>1, <1>3, ComingStays
  <2>4. Floor \in Int /\ channel[c].audioTs \in Int
    BY <2>1, <1>1, FloorFacts, ChannelFacts
  <2>5. (Fresh(c) \/ Sounding(c))'
    BY <2>1, <2>3, <2>4, <1>3, <1>10, KeptStays
  <2>6. QED
    BY <2>1, <2>2, <2>5
<1>13. QED
  BY <1>8, <1>9, <1>11, <1>12 DEF CalmInv

\* The session begins when nothing has been played.
LEMMA StartCalm == ASSUME Usual, Calm, IInv, CalmInv, IInv', Start PROVE CalmInv'
<1>1. /\ OnlyInv /\ PacketInv /\ BeginInv /\ GridInv /\ SteadyInv
      /\ HookInv /\ ChannelInv /\ LineInv /\ AccountInv
  BY DEF IInv, CalmInv
<1>2. /\ ~capturing /\ cpc = "off" /\ mpc = "off"
      /\ capturing' = TRUE /\ sessions' = sessions + 1 /\ cpc' = "wait"
      /\ mpc' = "sleep" /\ audioTime' = now
      /\ UNCHANGED <<scenario, now, hookVars, channelVars, packet, i, mixing, ts, minTs,
                     bufferingVars, history>>
  BY DEF Start
<1>3. /\ UNCHANGED <<scenario, now, rendered, playing, flight, channel, order, packet>>
      /\ UNCHANGED <<i, mixing, ts, minTs, queue, wait, lost, heard>>
  BY <1>2 DEF hookVars, channelVars, bufferingVars, history
<1>4. /\ now \in Nat \ {0} /\ scenario.steady \subseteq Clients
      /\ Tick \in Nat \ {0} /\ scenario.lag \in Nat /\ MaxTicks \in Nat
  BY <1>1, UsualFacts
<1>5. sessions = 0 /\ \A c \in Clients : rendered[c] = 0
  BY <1>1, <1>2 DEF OnlyInv
<1>6. queue = <<>> /\ Len(queue) = 0 /\ wait = 0
  <2>1. queue = <<>>
    BY <1>1, <1>5 DEF LineInv
  <2>2. wait \in Nat /\ wait <= Len(queue) /\ Len(queue) = 0
    BY <2>1, <1>1, QueueFacts
  <2>3. QED
    BY <2>1, <2>2
<1>7. OnlyInv'
  BY <1>1, <1>2, <1>3, <1>4, <1>5 DEF OnlyInv
<1>8. PacketInv'
  BY <1>1, <1>2, <1>3 DEF PacketInv, Listed
<1>9. BeginInv'
  BY <1>1, <1>2, <1>3 DEF BeginInv
<1>10. GridInv'
  <2>1. (0 - 0) * Tick = 0 /\ 0 * Tick = 0 /\ MaxTicks * Tick \in Nat
    <3>1. MaxTicks \in Int /\ MaxTicks >= 0 /\ 0 - 0 = 0
      BY <1>4
    <3>2. QED
      BY <3>1, <1>4, TimesFacts
  <2>2. Floor' = now
    BY <2>1, <1>2, <1>3, <1>4, <1>6 DEF Floor
  <2>3. audioTime' - Len(queue') * Tick >= 1 /\ audioTime' <= now + Tick /\ now <= audioTime' + scenario.lag
        /\ now <= Floor' + scenario.lag + MaxTicks * Tick
    BY <2>1, <2>2, <1>2, <1>3, <1>4, <1>6
  <2>4. DOMAIN queue' = {} /\ ~AtWork'
    BY <1>2, <1>3, <1>6 DEF AtWork
  <2>5. QED
    BY <2>3, <2>4, <1>2, <1>3, <1>4 DEF GridInv
<1>11. SteadyInv'
  <2> SUFFICES ASSUME NEW c \in scenario.steady
               PROVE  /\ c \notin lost /\ \A h \in heard[c] : h[1] = h[2]
                      /\ Fresh(c)' /\ PartInv(c)'
    BY <1>3 DEF SteadyInv
  <2>1. /\ c \in Clients /\ c \notin lost /\ \A h \in heard[c] : h[1] = h[2]
        /\ Fresh(c) \/ Sounding(c)
    BY <1>1, <1>4 DEF SteadyInv
  <2>2. Fresh(c) /\ rendered[c] = 0
    BY <2>1, <1>5 DEF Sounding
  <2>3. PartInv(c)'
    BY <1>2 DEF PartInv, AtWork
  <2>4. Fresh(c)'
    BY <2>2, <1>3 DEF Fresh
  <2>5. QED
    BY <2>1, <2>3, <2>4
<1>12. QED
  BY <1>7, <1>8, <1>9, <1>10, <1>11 DEF CalmInv

\* The session goes on to the end.
LEMMA GoesOn ==
  ASSUME Calm, IInv, CalmInv
  PROVE  ~Stop /\ ~CaptureLeaves /\ ~MixLeaves
<1>1. OnlyInv /\ sessions \in 0..scenario.sessions /\ scenario.sessions = 1
  BY DEF CalmInv, IInv, HookInv, Calm
<1>2. ~Stop
  BY <1>1 DEF OnlyInv, Stop
<1>3. ~CaptureLeaves /\ ~MixLeaves
  BY <1>1 DEF OnlyInv, CaptureLeaves, MixLeaves
<1>4. QED
  BY <1>2, <1>3
-----------------------------------------------------------------------------
(* The capture thread. *)

\* A packet in hand is still one that is awaited.
LEMMA ReceiveCalm == ASSUME Usual, Calm, IInv, CalmInv, IInv', Receive PROVE CalmInv'
<1>1. /\ OnlyInv /\ PacketInv /\ BeginInv /\ GridInv /\ SteadyInv
      /\ HookInv /\ ChannelInv /\ CaptureInv /\ RoundInv
  BY DEF IInv, CalmInv
<1> DEFINE p == flight[1]
<1>2. /\ cpc = "wait" /\ flight # <<>> /\ packet' = Head(flight) /\ flight' = Tail(flight)
      /\ cpc' = "output"
      /\ order' = IF Contains(order, Head(flight).client) THEN order
                  ELSE Append(order, Head(flight).client)
      /\ UNCHANGED <<scenario, now, rendered, playing, sessionVars, channel, mixVars, bufferingVars, history>>
  BY DEF Receive
<1>3. /\ UNCHANGED <<scenario, now, rendered, playing, capturing, sessions, channel>>
      /\ UNCHANGED <<mpc, i, audioTime, mixing, ts, minTs, queue, wait, lost, heard>>
  BY <1>2 DEF sessionVars, mixVars, bufferingVars, history
<1>4. /\ flight \in Seq(Packets) /\ Head(flight) = p /\ 1 \in DOMAIN flight
      /\ DOMAIN flight = 1..Len(flight) /\ DOMAIN flight' = 1..(Len(flight) - 1)
      /\ Len(flight) \in Nat
      /\ \A k \in 1..(Len(flight) - 1) : flight'[k] = flight[k + 1] /\ k + 1 \in 1..Len(flight)
  <2>1. flight \in Seq(Packets)
    BY <1>1 DEF HookInv
  <2>2. QED
    BY <2>1, <1>2, TailFacts
<1>5. p.client \in Clients /\ packet' = p /\ ~p.silent
  BY <1>1, <1>2, <1>4, ComingFacts DEF PacketInv
<1>6. /\ order \in Seq(Clients) /\ Len(order) \in Nat /\ mixing \in 0..Len(order) /\ mixing \in Nat
      /\ DOMAIN order = 1..Len(order)
  BY <1>1, ListedFacts
<1>7. /\ \A k \in DOMAIN order : k \in DOMAIN order' /\ order'[k] = order[k]
      /\ \E k \in DOMAIN order' : order'[k] = p.client
  <2>1. CASE Contains(order, p.client)
    <3>1. order' = order /\ \E k \in DOMAIN order : order[k] = p.client
      BY <2>1, <1>2, <1>4, <1>6 DEF Contains
    <3>2. QED
      BY <3>1
  <2>2. CASE ~Contains(order, p.client)
    <3>1. order' = Append(order, p.client)
      BY <2>2, <1>2, <1>4
    <3>2. QED
      BY <3>1, <1>5, <1>6, AppendFacts
  <2>3. QED
    BY <2>1, <2>2
<1>8. p.client \in Listed' /\ \A c \in Listed : c \in Listed'
  BY <1>7 DEF Listed
<1>9. \A k \in 1..mixing : order'[k] = order[k]
  BY <1>6, <1>7
<1>10. \A c \in Clients : Awaited(c)' = Awaited(c) /\ Coming(c)' = Coming(c)
  <2> SUFFICES ASSUME NEW c \in Clients
               PROVE  Awaited(c)' = Awaited(c) /\ ~AudioBufHeld(c) /\ ~AudioBufHeld(c)'
    BY DEF Coming
  <2>1. ~AudioBufHeld(c) /\ ~AudioBufHeld(c)'
    BY <1>2 DEF AudioBufHeld
  <2>2. CASE c = p.client
    <3>1. Awaited(c) = TRUE /\ Awaited(c)' = TRUE
      BY <2>2, <1>2, <1>4, <1>5 DEF Awaited
    <3>2. QED
      BY <2>1, <3>1
  <2>3. CASE c # p.client
    <3>1. ASSUME NEW k \in DOMAIN flight, flight[k].client = c
          PROVE  \E j \in DOMAIN flight' : flight'[j].client = c
      <4>1. k # 1
        BY <3>1, <2>3
      <4>2. k - 1 \in 1..(Len(flight) - 1) /\ (k - 1) + 1 = k
        BY <4>1, <3>1, <1>4
      <4>3. flight'[k - 1] = flight[k]
        BY <4>2, <1>4
      <4>4. QED
        BY <4>2, <4>3, <3>1, <1>4
    <3>2. ASSUME NEW k \in DOMAIN flight', flight'[k].client = c
          PROVE  \E j \in DOMAIN flight : flight[j].client = c
      BY <3>2, <1>4
    <3>3. Awaited(c)' = (\E j \in DOMAIN flight' : flight'[j].client = c)
      BY <2>3, <1>5 DEF Awaited
    <3>4. Awaited(c) = (\E j \in DOMAIN flight : flight[j].client = c)
      BY <1>2 DEF Awaited
    <3>5. QED
      BY <2>1, <3>1, <3>2, <3>3, <3>4
  <2>4. QED
    BY <2>2, <2>3
<1>11. OnlyInv'
  BY <1>1, <1>2, <1>3, OnlyStays
<1>12. PacketInv'
  BY <1>1, <1>2, <1>4, <1>5, <1>8 DEF PacketInv
<1>13. BeginInv'
  BY <1>1, <1>2, <1>3 DEF BeginInv
<1>14. GridInv' /\ Floor' = Floor
  BY <1>1, <1>3, GridStays DEF Floor
<1>15. SteadyInv'
  <2> SUFFICES ASSUME NEW c \in scenario.steady
               PROVE  /\ c \notin lost /\ \A h \in heard[c] : h[1] = h[2]
                      /\ (Fresh(c) \/ Sounding(c))' /\ PartInv(c)'
    BY <1>3 DEF SteadyInv
  <2>1. /\ c \in Clients /\ c \notin lost /\ \A h \in heard[c] : h[1] = h[2]
        /\ Fresh(c) \/ Sounding(c)
        /\ PartInv(c)
    BY <1>1, UsualFacts DEF SteadyInv
  <2>2. PartInv(c)'
    BY <2>1, <1>3, <1>6, <1>9, <1>14, PartStays
  <2>3. Floor \in Int /\ channel[c].audioTs \in Int
    BY <2>1, <1>1, FloorFacts, ChannelFacts
  <2>4. (Fresh(c) \/ Sounding(c))'
    BY <2>1, <2>3, <1>3, <1>8, <1>10, <1>14, KeptStays
  <2>5. QED
    BY <2>1, <2>2, <2>4
<1>16. QED
  BY <1>11, <1>12, <1>13, <1>14, <1>15 DEF CalmInv

\* The channel of the packet in hand changes to ch, which is right if the client
\* is a steady one; the others do not notice.
LEMMA PutCalm ==
  ASSUME Usual, Calm, IInv, CalmInv, IInv',
         cpc \in {"output", "place"}, NEW d \in Clients, d = packet.client,
         NEW ch, channel' = [channel EXCEPT ![d] = ch],
         \/ cpc' = "wait" /\ packet' = NoPacket
         \/ cpc' = "place" /\ packet' = packet /\ ch.audioTs # 0 /\ ch.buf = <<>>,
         IF ch.audioTs = 0 THEN ch.buf = <<>> ELSE ch.audioTs > Delay,
         lost' \in {lost, lost \cup {d}},
         d \in scenario.steady => lost' = lost /\ Sounding(d)' /\ PartInv(d)',
         UNCHANGED <<scenario, now, hookVars, sessionVars, order, mixVars, bufferingVars, heard>>
  PROVE  CalmInv'
<1>1. /\ OnlyInv /\ PacketInv /\ BeginInv /\ GridInv /\ SteadyInv
      /\ HookInv /\ ChannelInv /\ CaptureInv /\ RoundInv
  BY DEF IInv, CalmInv
<1>2. /\ UNCHANGED <<scenario, now, rendered, playing, flight, capturing, sessions, order, heard>>
      /\ UNCHANGED <<mpc, i, audioTime, mixing, ts, minTs, queue, wait>>
  BY DEF hookVars, sessionVars, mixVars, bufferingVars
<1>3. channel'[d] = ch /\ \A c \in Clients : c # d => channel'[c] = channel[c]
  BY <1>1 DEF ChannelInv
<1>4. OnlyInv'
  BY <1>1, <1>2, OnlyStays
<1>5. PacketInv'
  BY <1>1, <1>2 DEF PacketInv, Listed
<1>6. BeginInv'
  BY <1>1, <1>3 DEF BeginInv
<1>7. GridInv' /\ Floor' = Floor
  BY <1>1, <1>2, GridStays DEF Floor
<1>8. \A c \in Clients : c # d => Awaited(c)' = Awaited(c) /\ Coming(c)' = Coming(c)
  <2> SUFFICES ASSUME NEW c \in Clients, c # d
               PROVE  Awaited(c)' = Awaited(c) /\ Coming(c)' = Coming(c)
    OBVIOUS
  <2>1. ~AudioBufHeld(c) /\ ~(cpc = "output" /\ packet.client = c)
    BY DEF AudioBufHeld
  <2>2. ~AudioBufHeld(c)' /\ ~(cpc' = "output" /\ packet'.client = c)
    BY DEF AudioBufHeld
  <2>3. QED
    BY <2>1, <2>2, <1>2 DEF Awaited, Coming
<1>9. SteadyInv'
  <2> SUFFICES ASSUME NEW c \in scenario.steady
               PROVE  /\ c \notin lost' /\ \A h \in heard[c] : h[1] = h[2]
                      /\ (Fresh(c) \/ Sounding(c))' /\ PartInv(c)'
    BY <1>2 DEF SteadyInv
  <2>1. /\ c \in Clients /\ c \notin lost /\ \A h \in heard[c] : h[1] = h[2]
        /\ Fresh(c) \/ Sounding(c)
        /\ PartInv(c)
    BY <1>1, UsualFacts DEF SteadyInv
  <2>2. CASE c = d
    BY <2>1, <2>2
  <2>3. CASE c # d
    <3>1. c \notin lost'
      BY <2>1, <2>3
    <3>2. mixing \in Nat /\ \A k \in 1..mixing : order'[k] = order[k]
      BY <1>1, <1>2, ListedFacts
    <3>3. PartInv(c)'
      BY <2>1, <2>3, <3>2, <1>2, <1>3, <1>7, PartStays
    <3>4. Floor \in Int /\ channel[c].audioTs \in Int /\ Listed' = Listed
      BY <2>1, <1>1, <1>2, FloorFacts, ChannelFacts DEF Listed
    <3>5. (Fresh(c) \/ Sounding(c))'
      BY <2>1, <2>3, <3>4, <1>2, <1>3, <1>7, <1>8, KeptStays
    <3>6. QED
      BY <2>1, <3>1, <3>3, <3>5
  <2>4. QED
    BY <2>2, <2>3
<1>10. QED
  BY <1>4, <1>5, <1>6, <1>7, <1>9 DEF CalmInv

\* A channel begins where it began when a packet is put into it.
LEMMA PutTime ==
  ASSUME NEW c \in Channel, NEW s, NEW at
  PROVE  PushedBack(c, s).audioTs = c.audioTs /\ Placed(c, at, s).audioTs = c.audioTs
BY DEF PushedBack, Placed, Channel

\* The channel of a steady client, with its packet put behind what it holds, or into
\* it once it is reset.
LEMMA NextOfSteady ==
  ASSUME Usual, Calm, IInv, CalmInv, cpc \in {"output", "place"},
         packet.client \in scenario.steady, NEW ch \in Channel,
         ch.audioTs # 0, ch.audioTs >= Floor, InPlace(ch.buf, ch.audioTs),
         ch.audioTs + Len(ch.buf) = now + Delay,
         NEW r, r \in {PushedBack(ch, Samples(packet)), Placed(ch, now + Delay, Samples(packet))}
  PROVE  /\ r.audioTs = ch.audioTs /\ r.nextTs = ch.nextTs /\ r.pending = ch.pending /\ r.out = ch.out
         /\ r.audioTs + Len(r.buf) = now + Delay + PacketTime /\ InPlace(r.buf, r.audioTs)
         /\ Sounds(ch.buf) \cup Sounds(Samples(packet)) \subseteq Sounds(r.buf)
<1>1. GridInv /\ PacketInv /\ HookInv
  BY DEF CalmInv, IInv
<1>2. /\ now \in Nat /\ Delay \in Nat /\ Packet \in Nat /\ MaxBuf \in Nat /\ PacketTime = Packet
      /\ scenario.lag \in Nat /\ Frame = 1 /\ MaxTicks \in Nat /\ Tick \in Nat \ {0}
      /\ Packet + Delay + scenario.lag + MaxTicks * Tick <= MaxBuf
  BY <1>1, UsualFacts
<1>3. /\ packet \in Packets /\ ~packet.silent /\ packet.ts = now
  BY <1>1, ComingFacts DEF PacketInv
<1> DEFINE s == Samples(packet)
<1>4. s \in Seq(Nat) /\ Len(s) = Packet /\ InPlace(s, now + Delay)
  BY <1>2, <1>3, SamplesInPlace
<1>5. sessions # 0 /\ Floor \in Int /\ now <= Floor + scenario.lag + MaxTicks * Tick
  <2>1. sessions # 0
    BY DEF CalmInv, OnlyInv
  <2>2. QED
    BY <2>1, <1>1, FloorFacts DEF GridInv
<1>6. ch.audioTs \in Nat /\ Len(ch.buf) \in Nat /\ MaxTicks * Tick \in Int
  <2>1. ch.audioTs \in Nat /\ Len(ch.buf) \in Nat
    BY DEF Channel
  <2>2. QED
    BY <2>1, <1>2, TimesFacts
<1>7. Len(ch.buf) + Len(s) <= MaxBuf
  <2> DEFINE m == MaxTicks * Tick
             n == Len(ch.buf)
             t == ch.audioTs
             lag == scenario.lag
             k == Len(s)
  <2>1. /\ m \in Int /\ n \in Int /\ t \in Int /\ lag \in Int /\ k \in Int /\ Floor \in Int
        /\ now \in Int /\ Delay \in Int /\ MaxBuf \in Int
    <3>1. m \in Int /\ n \in Int /\ t \in Int
      BY <1>6
    <3>2. k \in Int
      BY <1>4, <1>2
    <3>3. lag \in Int /\ now \in Int /\ Delay \in Int /\ MaxBuf \in Int
      BY <1>2
    <3> HIDE DEF m, n, t, k, lag
    <3>4. QED
      BY <3>1, <3>2, <3>3, <1>5, Zenon
  <2>2. t >= Floor /\ t + n = now + Delay
    OBVIOUS
  <2>3. now <= Floor + lag + m /\ k + Delay + lag + m <= MaxBuf
    BY <1>2, <1>4, <1>5
  <2> HIDE DEF m, n, t, lag, k
  <2>4. n + k <= MaxBuf
    BY <2>1, <2>2, <2>3
  <2>5. QED
    BY <2>4 DEF n, k
<1> HIDE DEF s
<1>8. ch.audioTs + Len(ch.buf) = now + Delay
  OBVIOUS
<1>9. InPlace(s, ch.audioTs + Len(ch.buf)) /\ r \in {PushedBack(ch, s), Placed(ch, ch.audioTs + Len(ch.buf), s)}
  BY <1>4, <1>8 DEF s
<1>10. /\ r.audioTs = ch.audioTs /\ r.nextTs = ch.nextTs /\ r.pending = ch.pending /\ r.out = ch.out
       /\ Len(r.buf) = Len(ch.buf) + Len(s) /\ InPlace(r.buf, ch.audioTs)
       /\ Sounds(ch.buf) \cup Sounds(s) \subseteq Sounds(r.buf)
  <2>1. Frame = 1 /\ s \in Seq(Nat) /\ Len(ch.buf) + Len(s) <= MaxBuf
    BY <1>2, <1>4, <1>7
  <2>2. QED
    BY <2>1, <1>9, NextPacketFacts, ZenonT(60)
<1>11. r.audioTs + Len(r.buf) = now + Delay + PacketTime
  <2> DEFINE n == Len(ch.buf)
  <2>1. n \in Nat /\ ch.audioTs \in Nat /\ ch.audioTs + n = now + Delay /\ Len(r.buf) = n + Packet
        /\ r.audioTs = ch.audioTs
    BY <1>4, <1>6, <1>8, <1>10
  <2>2. now \in Nat /\ Delay \in Nat /\ Packet \in Nat /\ PacketTime = Packet
    BY <1>2
  <2> DEFINE t == ch.audioTs
  <2>3. t \in Nat /\ t + n = now + Delay
    BY <2>1
  <2> HIDE DEF n, t
  <2>4. t + (n + Packet) = now + Delay + PacketTime
    BY <2>1, <2>2, <2>3
  <2>5. QED
    BY <2>1, <2>4 DEF t
<1>12. QED
  BY <1>10, <1>11 DEF s

\* A packet that was put is no longer awaited, nor is one that will be placed.
LEMMA NoLonger ==
  ASSUME Calm, IInv, cpc \in {"output", "place"}, NEW d, d = packet.client, UNCHANGED flight,
         cpc' = "wait" \/ (cpc' = "place" /\ packet' = packet)
  PROVE  ~Awaited(d)' /\ Coming(d)' = (cpc' = "place")
<1>1. \A k \in DOMAIN flight : flight[k].client # d
  BY ComingFacts
<1>2. ~Awaited(d)'
  BY <1>1 DEF Awaited
<1>3. QED
  BY <1>2 DEF Coming, AudioBufHeld

\* The packet of a steady client follows the one before; its first one is placed
\* the Delay after the clock.
LEMMA OutputAudioCalm == ASSUME Usual, Calm, IInv, CalmInv, IInv', OutputAudio PROVE CalmInv'
<1> DEFINE samples == Samples(packet)
<1>1. /\ OnlyInv /\ PacketInv /\ BeginInv /\ GridInv /\ SteadyInv
      /\ HookInv /\ ChannelInv /\ CaptureInv /\ RoundInv
  BY DEF IInv, CalmInv
<1>2. cpc = "output" /\ packet.client \in Clients
  BY ComingFacts DEF OutputAudio
<1>3. PICK d \in Clients : d = packet.client
  BY <1>2
<1> DEFINE s == Stamped(channel[d], packet.ts, Packet, now)
           c == channel[d]
<1>4. /\ c \in Channel /\ c.audioTs \in Nat /\ c.nextTs \in Nat /\ Len(c.buf) \in Nat
      /\ packet.ts = now /\ now \in Nat \ {0} /\ rendered[d] = now /\ Packet \in Nat /\ Delay \in Nat
      /\ PacketTime = Packet /\ Frame = 1
  BY <1>1, <1>2, <1>3, ChannelFacts, ComingFacts, UsualFacts, PacketFacts
<1>5. /\ s.channel \in Channel
      /\ s.channel.buf = c.buf /\ s.channel.out = c.out /\ s.channel.pending = c.pending
      /\ s.channel.audioTs = c.audioTs
      /\ s.ts \in Nat /\ s.ts > Delay
      /\ c.nextTs = 0 \/ c.nextTs = now => s.ts = now + Delay /\ s.channel.nextTs = now + Packet
  <2>1. s = Stamped(c, now, Packet, now)
    BY <1>4
  <2> HIDE DEF s, c
  <2>2. c \in Channel /\ now \in Nat \ {0} /\ Packet \in Nat /\ Frame = 1
    BY <1>4
  <2>3. QED
    BY <2>1, <2>2, AtOnceFacts, ZenonT(60)
<1>6. /\ IF s.pushBack /\ c.audioTs # 0
         THEN Output(packet, PushedBack(s.channel, samples))
         ELSE IF ~NeedsReset(s.channel, s.ts)
         THEN Output(packet, Placed(s.channel, s.ts, samples))
         ELSE /\ channel' = [channel EXCEPT ![d] = ResetData(s.channel, s.ts)]
              /\ lost' = IF Loses(d, c, Created) THEN lost \cup {d} ELSE lost
              /\ cpc' = "place"
              /\ UNCHANGED <<packet, unheard>>
      /\ UNCHANGED <<scenario, now, hookVars, sessionVars, order, mixVars, bufferingVars, lastOut, heard>>
  BY <1>3, Zenon DEF OutputAudio
<1>7. /\ UNCHANGED <<scenario, now, rendered, playing, flight, capturing, sessions, order, heard>>
      /\ UNCHANGED <<mpc, i, audioTime, mixing, ts, minTs, queue, wait>>
  BY <1>6 DEF hookVars, sessionVars, mixVars, bufferingVars
<1>8. Floor' = Floor /\ Floor \in Int /\ sessions # 0 /\ d \in Listed /\ Listed' = Listed
  BY <1>1, <1>2, <1>3, <1>7, FloorFacts DEF Floor, OnlyInv, PacketInv, Listed
<1>9. /\ mixing \in Nat /\ \A k \in 1..mixing : order'[k] = order[k]
  BY <1>1, <1>7, ListedFacts
<1>10. Awaited(d) /\ Coming(d)
  BY <1>2, <1>3 DEF Awaited, Coming
<1> HIDE DEF s, c, samples
<1>11. ASSUME NEW r, Output(packet, r),
              c.audioTs # 0, r \in {PushedBack(s.channel, samples), Placed(s.channel, s.ts, samples)}
       PROVE  CalmInv'
  <2>1. r.audioTs = c.audioTs
    <3>1. r.audioTs = s.channel.audioTs
      BY <1>11, <1>5, PutTime
    <3>2. QED
      BY <3>1, <1>5
  <2>2. r.audioTs # 0 /\ r.audioTs > Delay
    BY <2>1, <1>1, <1>11 DEF BeginInv, c
  <2>3. /\ channel' = [channel EXCEPT ![d] = r] /\ cpc' = "wait" /\ packet' = NoPacket
        /\ lost' \in {lost, lost \cup {d}}
        /\ Sounds(c.buf) \cup Sounds(samples) \subseteq Sounds(r.buf) => lost' = lost
    BY <1>3, <1>11 DEF Output, samples, c
  <2>4. channel'[d] = r
    BY <2>3, <1>1 DEF ChannelInv
  <2>5. ASSUME d \in scenario.steady
        PROVE  lost' = lost /\ Sounding(d)' /\ PartInv(d)'
    <3>1. Sounding(d) /\ PartInv(d)
      BY <2>5, <1>1, <1>11 DEF SteadyInv, Fresh, c
    <3>2. c.audioTs >= Floor /\ InPlace(c.buf, c.audioTs) /\ c.nextTs = now + 0
          /\ c.audioTs + Len(c.buf) = Delay + now + 0
      BY <3>1, <1>4, <1>10 DEF Sounding, c
    <3>3. s.ts = now + Delay /\ s.channel.nextTs = now + Packet
      BY <3>2, <1>4, <1>5
    <3>4. /\ s.channel \in Channel /\ s.channel.audioTs # 0 /\ s.channel.audioTs >= Floor
          /\ InPlace(s.channel.buf, s.channel.audioTs)
          /\ s.channel.audioTs + Len(s.channel.buf) = now + Delay
      BY <3>2, <1>4, <1>5, <1>11
    <3>5. r \in {PushedBack(s.channel, Samples(packet)), Placed(s.channel, now + Delay, Samples(packet))}
      BY <3>3, <1>11 DEF samples
    <3>6. /\ r.audioTs = s.channel.audioTs /\ r.nextTs = s.channel.nextTs
          /\ r.pending = s.channel.pending /\ r.out = s.channel.out
          /\ r.audioTs + Len(r.buf) = now + Delay + PacketTime /\ InPlace(r.buf, r.audioTs)
          /\ Sounds(s.channel.buf) \cup Sounds(Samples(packet)) \subseteq Sounds(r.buf)
      <4> DEFINE x == s.channel
      <4>1. /\ x \in Channel /\ x.audioTs # 0 /\ x.audioTs >= Floor /\ InPlace(x.buf, x.audioTs)
            /\ x.audioTs + Len(x.buf) = now + Delay
            /\ r \in {PushedBack(x, Samples(packet)), Placed(x, now + Delay, Samples(packet))}
        BY <3>4, <3>5
      <4> HIDE DEF x
      <4>2. /\ r.audioTs = x.audioTs /\ r.nextTs = x.nextTs /\ r.pending = x.pending /\ r.out = x.out
            /\ r.audioTs + Len(r.buf) = now + Delay + PacketTime /\ InPlace(r.buf, r.audioTs)
            /\ Sounds(x.buf) \cup Sounds(Samples(packet)) \subseteq Sounds(r.buf)
        BY <4>1, <2>5, <1>2, <1>3, NextOfSteady
      <4>3. QED
        BY <4>2 DEF x
    <3>7. lost' = lost
      BY <3>6, <2>3, <1>5 DEF samples
    <3>8. ~Awaited(d)' /\ ~Coming(d)'
      BY <2>3, <1>2, <1>3, <1>7, NoLonger
    <3>9. Sounding(d)'
      <4>1. rendered'[d] = now /\ now # 0 /\ d \in Listed' /\ r.audioTs >= Floor'
        BY <3>2, <2>1, <1>4, <1>7, <1>8
      <4>2. r.nextTs = now + PacketTime /\ r.audioTs + Len(r.buf) = Delay + now + PacketTime
        BY <3>3, <3>6, <1>4
      <4>3. QED
        BY <4>1, <4>2, <3>6, <3>8, <2>4 DEF Sounding
    <3>10. PartInv(d)'
      <4>1. r.pending = c.pending /\ r.out = c.out
        BY <3>6, <1>5
      <4>2. QED
        BY <4>1, <3>1, <2>1, <2>4, <1>7, <1>8, <1>9, PartStays DEF c
    <3>11. QED
      BY <3>7, <3>9, <3>10
  <2>6. QED
    BY <2>2, <2>3, <2>5, <1>2, <1>3, <1>6, PutCalm
<1>12. CASE s.pushBack /\ c.audioTs # 0
  BY <1>6, <1>11, <1>12
<1>13. CASE ~(s.pushBack /\ c.audioTs # 0) /\ ~NeedsReset(s.channel, s.ts)
  <2>1. c.audioTs # 0
    BY <1>5, <1>13 DEF NeedsReset
  <2>2. QED
    BY <2>1, <1>6, <1>11, <1>13
<1>14. CASE ~(s.pushBack /\ c.audioTs # 0) /\ NeedsReset(s.channel, s.ts)
  <2> DEFINE r == ResetData(s.channel, s.ts)
  <2>1. /\ r.buf = <<>> /\ r.audioTs = s.ts /\ r.nextTs = s.channel.nextTs
    BY <1>5, ResetFacts
  <2> HIDE DEF r
  <2>2. r.audioTs # 0 /\ r.audioTs > Delay /\ Len(r.buf) = 0
    BY <2>1, <1>4, <1>5
  <2>3. /\ channel' = [channel EXCEPT ![d] = r] /\ cpc' = "place" /\ packet' = packet
        /\ lost' \in {lost, lost \cup {d}} /\ (~Loses(d, c, Created) => lost' = lost)
    BY <1>6, <1>14 DEF r
  <2>4. channel'[d] = r
    BY <2>3, <1>1 DEF ChannelInv
  <2>5. ASSUME d \in scenario.steady
        PROVE  lost' = lost /\ Sounding(d)' /\ PartInv(d)'
    <3>1. Fresh(d)
      <4>1. ASSUME Sounding(d)
            PROVE  FALSE
        <5>1. /\ c.nextTs = now + 0 /\ c.audioTs + Len(c.buf) = Delay + now + 0
          BY <4>1, <1>4, <1>10 DEF Sounding, c
        <5>2. s.ts = now + Delay
          BY <5>1, <1>4, <1>5
        <5>3. c.audioTs # 0
          BY <4>1, <1>1, <1>8, SoundingFacts DEF c
        <5>4. s.ts < c.audioTs
          BY <5>3, <1>5, <1>14 DEF NeedsReset
        <5>5. QED
          BY <5>1, <5>2, <5>4, <1>4
      <4>2. QED
        BY <4>1, <2>5, <1>1 DEF SteadyInv
    <3>2. c.buf = <<>> /\ c.nextTs = 0
      BY <3>1 DEF Fresh, c
    <3>3. r.audioTs = now + Delay /\ r.nextTs = now + PacketTime
      BY <3>2, <2>1, <1>4, <1>5
    <3>4. lost' = lost
      <4>1. Sounds(c.buf) = {}
        BY <3>2 DEF Sounds
      <4>2. QED
        BY <4>1, <2>3 DEF Loses
    <3>5. ~Awaited(d)' /\ Coming(d)'
      BY <2>3, <1>2, <1>3, <1>7, NoLonger
    <3>6. AtWork => Floor <= now
      BY <1>1, FloorFacts
    <3>7. now <= Floor + scenario.lag + MaxTicks * Tick /\ Tick \in Nat /\ Tick <= Delay
      BY <1>1, <1>8, UsualFacts DEF GridInv
    <3>8. PartInv(d)'
      <4>1. AtWork' = AtWork
        BY <1>7 DEF AtWork
      <4>2. AtWork => ~(r.audioTs < Floor' + Tick)
        BY <3>3, <3>6, <3>7, <1>4, <1>8
      <4>3. QED
        BY <4>1, <4>2, <2>4 DEF PartInv
    <3>9. Floor <= now + Delay
      <4>1. Floor <= now + Tick
        BY <1>1, <1>8, FloorFacts
      <4>2. QED
        BY <4>1, <3>7, <1>4, <1>8
    <3>10. Sounding(d)'
      <4>1. rendered'[d] = now /\ now # 0 /\ d \in Listed' /\ r.audioTs >= Floor'
        BY <3>3, <3>9, <1>4, <1>7, <1>8
      <4>2. InPlace(r.buf, r.audioTs)
        BY <2>1 DEF InPlace
      <4>3. r.audioTs + Len(r.buf) = Delay + now + 0
        BY <3>3, <2>2, <1>4
      <4>4. QED
        BY <4>1, <4>2, <4>3, <3>3, <3>5, <2>4 DEF Sounding
    <3>11. QED
      BY <3>4, <3>8, <3>10
  <2>6. QED
    BY <2>1, <2>2, <2>3, <2>5, <1>2, <1>3, <1>6, PutCalm
<1>15. QED
  BY <1>12, <1>13, <1>14

\* The first packet of a client is placed where its channel begins.
LEMMA PlaceCalm == ASSUME Usual, Calm, IInv, CalmInv, IInv', Place PROVE CalmInv'
<1>1. /\ OnlyInv /\ PacketInv /\ BeginInv /\ GridInv /\ SteadyInv
      /\ HookInv /\ ChannelInv /\ ResetInv /\ CaptureInv /\ RoundInv
  BY DEF IInv, CalmInv
<1>2. cpc = "place" /\ packet.client \in Clients
  BY ComingFacts DEF Place
<1>3. PICK d \in Clients : d = packet.client
  BY <1>2
<1> DEFINE c == channel[d]
           r == Placed(c, c.nextSys, Samples(packet))
<1>4. /\ c \in Channel /\ c.audioTs \in Nat /\ c.audioTs # 0 /\ c.audioTs > Delay /\ c.nextSys = c.audioTs
      /\ c.buf = <<>> /\ Len(c.buf) = 0
  BY <1>1, <1>2, <1>3, ChannelFacts DEF BeginInv, ResetInv
<1>5. rendered[d] = now /\ now \in Nat \ {0} /\ Delay \in Nat /\ PacketTime \in Nat
  BY <1>1, <1>2, <1>3, ComingFacts, UsualFacts
<1>6. /\ Output(packet, r)
      /\ UNCHANGED <<scenario, now, hookVars, sessionVars, order, mixVars, bufferingVars, lastOut, heard>>
  BY <1>3, Zenon DEF Place
<1>7. /\ UNCHANGED <<scenario, now, rendered, playing, flight, capturing, sessions, order, heard>>
      /\ UNCHANGED <<mpc, i, audioTime, mixing, ts, minTs, queue, wait>>
  BY <1>6 DEF hookVars, sessionVars, mixVars, bufferingVars
<1>8. Floor' = Floor /\ d \in Listed /\ Listed' = Listed
  BY <1>1, <1>2, <1>3, <1>7 DEF Floor, PacketInv, Listed
<1>9. /\ channel' = [channel EXCEPT ![d] = r] /\ cpc' = "wait" /\ packet' = NoPacket
      /\ lost' \in {lost, lost \cup {d}}
      /\ Sounds(c.buf) \cup Sounds(Samples(packet)) \subseteq Sounds(r.buf) => lost' = lost
  BY <1>3, <1>6 DEF Output
<1>10. channel'[d] = r
  BY <1>1, <1>9 DEF ChannelInv
<1> HIDE DEF c
<1>11. r.audioTs = c.audioTs
  BY <1>4, PutTime
<1>12. ASSUME d \in scenario.steady
       PROVE  lost' = lost /\ Sounding(d)' /\ PartInv(d)'
  <2>1. Sounding(d) /\ PartInv(d)
    BY <1>1, <1>4, <1>12 DEF SteadyInv, Fresh, c
  <2>2. Coming(d) /\ ~Awaited(d)
    <3>1. \A k \in DOMAIN flight : flight[k].client # d
      BY <1>2, <1>3, ComingFacts
    <3>2. QED
      BY <3>1, <1>2, <1>3 DEF Coming, Awaited, AudioBufHeld
  <2>3. /\ c.audioTs >= Floor /\ InPlace(c.buf, c.audioTs) /\ c.nextTs = now + PacketTime
        /\ c.audioTs + Len(c.buf) = Delay + now + 0
    BY <2>1, <2>2, <1>5 DEF Sounding, c
  <2>4. c.audioTs + Len(c.buf) = now + Delay /\ c.nextSys = now + Delay
    BY <2>3, <1>4, <1>5
  <2>5. r \in {PushedBack(c, Samples(packet)), Placed(c, now + Delay, Samples(packet))}
    BY <2>4
  <2> HIDE DEF r
  <2>6. /\ r.audioTs = c.audioTs /\ r.nextTs = c.nextTs /\ r.pending = c.pending /\ r.out = c.out
        /\ r.audioTs + Len(r.buf) = now + Delay + PacketTime /\ InPlace(r.buf, r.audioTs)
        /\ Sounds(c.buf) \cup Sounds(Samples(packet)) \subseteq Sounds(r.buf)
    BY <2>3, <2>4, <2>5, <1>2, <1>3, <1>4, <1>12, NextOfSteady
  <2>7. lost' = lost
    BY <2>6, <1>9
  <2>8. ~Awaited(d)' /\ ~Coming(d)'
    BY <1>2, <1>3, <1>7, <1>9, NoLonger
  <2>9. Sounding(d)'
    <3>1. rendered'[d] = now /\ now # 0 /\ d \in Listed' /\ r.audioTs >= Floor'
      BY <2>3, <1>5, <1>7, <1>8, <1>11
    <3>2. r.nextTs = now + PacketTime /\ r.audioTs + Len(r.buf) = Delay + now + PacketTime
      BY <2>3, <2>6, <1>5
    <3>3. QED
      BY <3>1, <3>2, <2>6, <2>8, <1>10 DEF Sounding
  <2>10. PartInv(d)'
    <3>1. mixing \in Nat /\ \A k \in 1..mixing : order'[k] = order[k]
      BY <1>1, <1>7, ListedFacts
    <3>2. QED
      BY <3>1, <2>1, <2>6, <1>7, <1>8, <1>10, PartStays DEF c
  <2>11. QED
    BY <2>7, <2>9, <2>10
<1> HIDE DEF r
<1>13. QED
  BY <1>2, <1>3, <1>4, <1>6, <1>9, <1>11, <1>12, PutCalm
-----------------------------------------------------------------------------
(* The mix thread. *)

\* A tick is taken up; the channels of the clients that are heard are in its rounds.
LEMMA FetchAudioCalm == ASSUME Usual, Calm, IInv, CalmInv, IInv', FetchAudio PROVE CalmInv'
<1>1. /\ OnlyInv /\ PacketInv /\ BeginInv /\ GridInv /\ SteadyInv
      /\ HookInv /\ ChannelInv /\ CaptureInv /\ RoundInv /\ AccountInv /\ LineInv
  BY DEF IInv, CalmInv
<1>2. /\ mpc = "sleep" /\ audioTime <= now
      /\ queue' = Append(queue, Span(audioTime))
      /\ ts' = Head(queue') /\ minTs' = ts'.start
      /\ mixing' = Len(order)
      /\ audioTime' = audioTime + Tick
      /\ mpc' = IF order = <<>> THEN "find" ELSE "pick"
      /\ UNCHANGED <<scenario, now, hookVars, sessionVars, channelVars, captureVars, i, wait, total, bufferedTs,
                     history>>
  BY DEF FetchAudio
<1>3. /\ UNCHANGED <<scenario, now, rendered, playing, flight, capturing, sessions, channel, order, cpc, packet>>
      /\ UNCHANGED <<i, wait, lost, heard>>
  BY <1>2 DEF hookVars, sessionVars, channelVars, captureVars, history
<1>4. /\ now \in Nat \ {0} /\ scenario.steady \subseteq Clients
      /\ Tick \in Nat \ {0} /\ scenario.lag \in Nat /\ MaxTicks \in Nat
  BY <1>1, UsualFacts
<1> DEFINE n == Len(queue)
<1>5. /\ Floor \in Int /\ audioTime \in Nat /\ wait \in Nat /\ n \in Nat /\ wait <= n
      /\ queue \in Seq(Interval) /\ sessions # 0
  BY <1>1, <1>2, FloorFacts DEF AccountInv, OnlyInv
<1>6. Span(audioTime) \in Interval
  BY <1>4, <1>5, SpanFacts
<1>7. /\ Len(queue') = n + 1 /\ DOMAIN queue' = 1..(n + 1)
      /\ \A k \in 1..n : queue'[k] = queue[k] /\ k \in DOMAIN queue
      /\ queue'[n + 1] = Span(audioTime)
  BY <1>2, <1>5, <1>6, AppendFacts
<1>8. ts' = queue'[1]
  <2>1. queue' \in Seq(Interval) /\ queue' # <<>>
    BY <1>2, <1>5, <1>6
  <2>2. QED
    BY <2>1, <1>2
<1> HIDE DEF n
<1>9. \A k \in 1..(n + 1) : queue'[k] = Span(audioTime' - (n + 1 + 1 - k) * Tick)
  <2> SUFFICES ASSUME NEW k \in 1..(n + 1)
               PROVE  queue'[k] = Span(audioTime' - (n + 1 + 1 - k) * Tick)
    OBVIOUS
  <2>0. audioTime' = audioTime + Tick
    BY <1>2
  <2>1. CASE k = n + 1
    <3>1. n + 1 + 1 - k = 1 /\ 1 * Tick = Tick
      BY <2>1, <1>4, <1>5
    <3>2. audioTime' - 1 * Tick = audioTime
      BY <3>1, <2>0, <1>4, <1>5
    <3>3. QED
      BY <3>1, <3>2, <2>1, <1>7
  <2>2. CASE k # n + 1
    <3> DEFINE a == n + 1 - k
    <3>1. k \in 1..n /\ a \in Int /\ n + 1 + 1 - k = a + 1
      BY <2>2, <1>5
    <3> HIDE DEF a
    <3>2. (a + 1) * Tick = a * Tick + 1 * Tick /\ 1 * Tick = Tick /\ a * Tick \in Int
      BY <3>1, <1>4, TimesFacts
    <3>3. audioTime' - (a + 1) * Tick = audioTime - a * Tick
      BY <3>2, <2>0, <1>4, <1>5
    <3>4. queue[k] = Span(audioTime - a * Tick)
      BY <3>1, <1>1, <1>7 DEF GridInv, a, n
    <3>5. QED
      BY <3>1, <3>3, <3>4, <1>7
  <2>3. QED
    BY <2>1, <2>2
<1>10. Floor' = Floor
  <2> DEFINE a == n - wait
  <2>1. Len(queue') - wait' = a + 1 /\ a \in Int
    BY <1>3, <1>5, <1>7
  <2>2. Floor' = audioTime' - (Len(queue') - wait') * Tick /\ Floor = audioTime - a * Tick
    BY Zenon DEF Floor, n
  <2> HIDE DEF a
  <2>3. (a + 1) * Tick = a * Tick + 1 * Tick /\ 1 * Tick = Tick /\ a * Tick \in Int
    BY <2>1, <1>4, TimesFacts
  <2>4. (Len(queue') - wait') * Tick = a * Tick + Tick
    BY <2>1, <2>3
  <2>5. audioTime' = audioTime + Tick
    BY <1>2
  <2>6. QED
    BY <2>2, <2>3, <2>4, <2>5, <1>4, <1>5
<1>11. audioTime' - Len(queue') * Tick >= 1 /\ audioTime' <= now + Tick /\ now <= audioTime' + scenario.lag
  <2>1. (n + 1) * Tick = n * Tick + 1 * Tick /\ 1 * Tick = Tick /\ n * Tick \in Int
    BY <1>4, <1>5, TimesFacts
  <2>2. audioTime - n * Tick >= 1 /\ now <= audioTime + scenario.lag
    BY <1>1, <1>5 DEF GridInv, n
  <2>3. audioTime' = audioTime + Tick /\ audioTime <= now
    BY <1>2
  <2>4. QED
    BY <2>1, <2>2, <2>3, <1>4, <1>5, <1>7
<1>12. mpc' \in {"find", "pick"} /\ AtWork'
  BY <1>2 DEF AtWork
<1>13. GridInv'
  <2>1. now <= Floor + scenario.lag + MaxTicks * Tick
    BY <1>1, <1>5 DEF GridInv
  <2>2. \A k \in DOMAIN queue' : queue'[k] = Span(audioTime' - (Len(queue') + 1 - k) * Tick)
    BY <1>7, <1>9
  <2>3. minTs' = ts'.start /\ mpc' # "mix" /\ mpc' # "sleep"
    BY <1>2, <1>12
  <2>4. QED
    BY <2>1, <2>2, <2>3, <1>3, <1>8, <1>10, <1>11 DEF GridInv
<1>14. OnlyInv' /\ PacketInv' /\ BeginInv'
  <2>1. (mpc' = "off") = (mpc = "off")
    BY <1>2
  <2>2. QED
    BY <2>1, <1>1, <1>3, OnlyStays, PacketStays, BeginStays
<1>15. SteadyInv'
  <2> SUFFICES ASSUME NEW c \in scenario.steady
               PROVE  /\ c \notin lost /\ \A h \in heard[c] : h[1] = h[2]
                      /\ (Fresh(c) \/ Sounding(c))' /\ PartInv(c)'
    BY <1>3 DEF SteadyInv
  <2>1. /\ c \in Clients /\ c \notin lost /\ \A h \in heard[c] : h[1] = h[2]
        /\ Fresh(c) \/ Sounding(c)
    BY <1>1, <1>4 DEF SteadyInv
  <2>2. Awaited(c)' = Awaited(c) /\ Coming(c)' = Coming(c) /\ Listed' = Listed
    BY <2>1, <1>3, ComingStays DEF Listed
  <2>3. channel[c].audioTs \in Int
    BY <2>1, <1>1, ChannelFacts
  <2>4. (Fresh(c) \/ Sounding(c))'
    BY <2>1, <2>2, <2>3, <1>3, <1>5, <1>10, KeptStays
  <2>5. ASSUME channel[c].audioTs # 0
        PROVE  \E k \in 1..mixing' : order'[k] = c /\ ~(mpc' # "pick" \/ k < i') /\ mpc' \notin {"mix", "discard"}
    <3>1. Sounding(c)
      BY <2>1, <2>5 DEF Fresh
    <3>2. PICK k \in DOMAIN order : order[k] = c
      BY <3>1 DEF Sounding, Listed
    <3>3. k \in 1..Len(order) /\ order # <<>>
      BY <3>2, <1>1, ListedFacts
    <3>4. i = 1 /\ mpc' = "pick"
      BY <3>3, <1>1, <1>2 DEF RoundInv
    <3>5. ~(k < i)
      BY <3>3, <3>4
    <3>6. QED
      BY <3>2, <3>3, <3>4, <3>5, <1>2, <1>3
  <2>6. PartInv(c)'
    BY <2>5, <1>3 DEF PartInv
  <2>7. QED
    BY <2>1, <2>4, <2>6
<1>16. QED
  BY <1>13, <1>14, <1>15 DEF CalmInv

\* A steady client that is part of the first tick to be mixed has a block for it.
LEMMA EnoughFacts ==
  ASSUME Usual, Calm, IInv, CalmInv, AtWork, NEW c \in scenario.steady,
         channel[c].audioTs # 0, channel[c].audioTs < Floor + Tick
  PROVE  LET ch == channel[c]
         IN /\ Sounding(c) /\ ch.audioTs \in Nat /\ Len(ch.buf) \in Nat /\ ch.audioTs >= Floor
            /\ Len(ch.buf) > Block /\ ch.audioTs + Len(ch.buf) >= Floor + Tick + Tick
<1>1. OnlyInv /\ GridInv /\ SteadyInv /\ HookInv /\ ChannelInv
  BY DEF IInv, CalmInv
<1>2. c \in Clients /\ (Fresh(c) \/ Sounding(c))
  BY <1>1, UsualFacts DEF SteadyInv
<1>3. Sounding(c) /\ channel[c].audioTs >= Floor
  BY <1>2 DEF Fresh, Sounding
<1>4. channel[c].audioTs + Len(channel[c].buf) >= Delay + now
  BY <1>1, <1>3, ReachFacts
<1>5. /\ channel[c].audioTs \in Nat /\ Len(channel[c].buf) \in Nat /\ Floor \in Int /\ Floor <= now
  BY <1>1, <1>2, ChannelFacts, FloorFacts
<1>6. Tick = Block /\ Tick \in Nat \ {0} /\ Tick + Tick <= Delay /\ Delay \in Nat /\ now \in Nat
  BY <1>1, UsualFacts
<1>7. QED
  BY <1>3, <1>4, <1>5, <1>6

\* What is picked of a steady client is in place.
LEMMA PickCalm == ASSUME Usual, Calm, IInv, CalmInv, IInv', Pick PROVE CalmInv'
<1>1. /\ OnlyInv /\ PacketInv /\ BeginInv /\ GridInv /\ SteadyInv
      /\ HookInv /\ ChannelInv /\ CaptureInv /\ RoundInv
  BY DEF IInv, CalmInv
<1>2. /\ UNCHANGED <<scenario, now, hookVars, sessionVars, order, captureVars, audioTime, mixing, ts, minTs,
                     bufferingVars, history>>
      /\ mpc = "pick"
      /\ channel' = [channel EXCEPT ![order[i]] = Picked(channel[order[i]])]
      /\ IF i < mixing THEN i' = i + 1 /\ mpc' = mpc ELSE i' = 1 /\ mpc' = "find"
  BY DEF Pick, Round
<1>3. /\ UNCHANGED <<scenario, now, rendered, playing, flight, capturing, sessions, order, cpc, packet>>
      /\ UNCHANGED <<audioTime, mixing, ts, minTs, queue, wait, lost, heard>>
  BY <1>2 DEF hookVars, sessionVars, captureVars, bufferingVars, history
<1>4. /\ Len(order) \in Nat /\ mixing \in Nat /\ i \in 1..mixing /\ order[i] \in Clients
      /\ \A k \in 1..mixing : order[k] \in Clients
  <2>1. /\ Len(order) \in Nat /\ mixing \in 0..Len(order) /\ i \in 1..mixing
        /\ \A k \in 1..Len(order) : order[k] \in Clients
    BY <1>1, <1>2, ListedFacts DEF RoundInv
  <2>2. \A k \in 1..mixing : k \in 1..Len(order)
    BY <2>1
  <2>3. QED
    BY <2>1, <2>2
<1>5. PICK d \in Clients : d = order[i]
  BY <1>4
<1> DEFINE r == Picked(channel[d])
<1>6. /\ r.buf = channel[d].buf /\ r.audioTs = channel[d].audioTs /\ r.nextTs = channel[d].nextTs
      /\ Len(channel[d].buf) >= Block => r.pending = FALSE /\ r.out = SubSeq(channel[d].buf, 1, Block)
  <2>1. channel[d] \in Channel /\ Len(channel[d].buf) \in Nat /\ Block \in Nat
    BY <1>1, ChannelFacts, ChannelAssumption
  <2>2. QED
    BY <2>1 DEF Picked, Channel
<1> HIDE DEF r
<1>7. channel'[d] = r /\ \A c \in Clients : c # d => channel'[c] = channel[c]
  BY <1>1, <1>2, <1>5 DEF ChannelInv, r
<1>8. \A c \in Clients : /\ channel'[c].buf = channel[c].buf /\ channel'[c].audioTs = channel[c].audioTs
                         /\ channel'[c].nextTs = channel[c].nextTs
  BY <1>6, <1>7
<1>9. mpc' \in {"pick", "find"} /\ AtWork /\ AtWork'
  BY <1>2 DEF AtWork
<1>10. OnlyInv' /\ PacketInv'
  BY <1>1, <1>2, <1>3, <1>9, OnlyStays, PacketStays
<1>11. BeginInv'
  BY <1>1, <1>3, <1>8, ComingFacts DEF BeginInv
<1>12. Floor' = Floor /\ Listed' = Listed
  BY <1>3 DEF Floor, Listed
<1>13. GridInv'
  BY <1>1, <1>2, <1>3, <1>9, <1>12 DEF GridInv
<1>14. \A k \in 1..mixing : mpc' # "pick" \/ k < i' => k < i \/ k = i
  BY <1>2, <1>4
<1>15. SteadyInv'
  <2> SUFFICES ASSUME NEW c \in scenario.steady
               PROVE  /\ c \notin lost /\ \A h \in heard[c] : h[1] = h[2]
                      /\ (Fresh(c) \/ Sounding(c))' /\ PartInv(c)'
    BY <1>3 DEF SteadyInv
  <2>1. /\ c \in Clients /\ c \notin lost /\ \A h \in heard[c] : h[1] = h[2]
        /\ Fresh(c) \/ Sounding(c)
        /\ PartInv(c)
    BY <1>1, UsualFacts DEF SteadyInv
  <2>2. Awaited(c)' = Awaited(c) /\ Coming(c)' = Coming(c)
    BY <2>1, <1>3, ComingStays
  <2>3. Floor \in Int /\ channel[c].audioTs \in Int
    BY <2>1, <1>1, FloorFacts, ChannelFacts
  <2>4. (Fresh(c) \/ Sounding(c))'
    BY <2>1, <2>2, <2>3, <1>3, <1>8, <1>12, KeptStays
  <2>5. PartInv(c)'
    <3> SUFFICES ASSUME channel[c].audioTs # 0, channel[c].audioTs < Floor + Tick
                 PROVE  \E k \in 1..mixing :
                          order[k] = c /\ (mpc' # "pick" \/ k < i' => PickedInv(c)')
      BY <2>1, <1>3, <1>8, <1>9, <1>12 DEF PartInv
    <3>1. PICK k \in 1..mixing : order[k] = c /\ (mpc # "pick" \/ k < i => PickedInv(c))
      BY <2>1, <1>9 DEF PartInv
    <3>2. CASE c = d
      <4>1. Sounding(c) /\ Len(channel[c].buf) \in Nat /\ Len(channel[c].buf) > Block
        BY <1>9, EnoughFacts
      <4>2. channel[c].buf \in Seq(Nat) /\ Block \in Nat \ {0} /\ InPlace(channel[c].buf, channel[c].audioTs)
        BY <4>1, <2>1, <1>1, ChannelFacts, ChannelAssumption DEF Sounding
      <4>3. ~r.pending /\ r.out = SubSeq(channel[c].buf, 1, Block)
        BY <4>1, <4>2, <3>2, <1>6
      <4>4. /\ Len(r.out) = Block /\ DOMAIN r.out = 1..Block
            /\ \A j \in 1..Block : r.out[j] = channel[c].buf[j] /\ j \in DOMAIN channel[c].buf
        <5> DEFINE b == channel[c].buf
                   o == SubSeq(b, 1, Block)
        <5>1. b \in Seq(Nat) /\ Len(b) \in Nat /\ Len(b) > Block /\ DOMAIN b = 1..Len(b)
          BY <4>1, <4>2
        <5> HIDE DEF b
        <5>2. o = [j \in 1..(Block - 1 + 1) |-> b[1 + j - 1]]
          BY <5>1, <4>2
        <5>3. Block - 1 + 1 = Block /\ \A j \in 1..Block : 1 + j - 1 = j /\ j \in 1..Len(b)
          BY <5>1, <4>2
        <5>4. o = [j \in 1..Block |-> b[1 + j - 1]]
          BY <5>2, <5>3
        <5>5. Len(o) = Block /\ DOMAIN o = 1..Block /\ \A j \in 1..Block : o[j] = b[j] /\ j \in DOMAIN b
          BY <5>1, <5>3, <5>4, <4>2
        <5>6. QED
          BY <5>5, <4>3 DEF b
      <4>5. InPlace(r.out, channel[c].audioTs)
        BY <4>2, <4>4 DEF InPlace
      <4>6. PickedInv(c)'
        BY <4>3, <4>4, <4>5, <3>2, <1>6, <1>7 DEF PickedInv
      <4>7. QED
        BY <4>6, <3>1
    <3>3. CASE c # d
      <4>1. PickedInv(c)' = PickedInv(c)
        BY <3>3, <2>1, <1>7 DEF PickedInv
      <4>2. k # i
        BY <3>1, <3>3, <1>5
      <4>3. mpc' # "pick" \/ k < i' => k < i
        BY <4>2, <1>14
      <4>4. QED
        BY <4>1, <4>3, <3>1
    <3>4. QED
      BY <3>2, <3>3
  <2>6. QED
    BY <2>1, <2>4, <2>5
<1>16. QED
  BY <1>10, <1>11, <1>13, <1>15 DEF CalmInv

\* A step amid a tick that leaves what the channels hold, and where the ticks to be
\* mixed begin.
LEMMA TurnCalm ==
  ASSUME Usual, Calm, IInv, CalmInv, AtWork, AtWork', GridInv', Floor' = Floor,
         UNCHANGED <<scenario, now, hookVars, sessionVars, order, captureVars, lost>>,
         \A c \in Clients : /\ channel'[c].buf = channel[c].buf /\ channel'[c].audioTs = channel[c].audioTs
                            /\ channel'[c].nextTs = channel[c].nextTs,
         \A c \in scenario.steady : (\A h \in heard'[c] : h[1] = h[2]) /\ PartInv(c)'
  PROVE  CalmInv'
<1>1. OnlyInv /\ PacketInv /\ BeginInv /\ GridInv /\ SteadyInv /\ HookInv /\ ChannelInv
  BY DEF IInv, CalmInv
<1>2. UNCHANGED <<scenario, now, rendered, playing, flight, capturing, sessions, order, cpc, packet, lost>>
  BY DEF hookVars, sessionVars, captureVars
<1>3. OnlyInv' /\ PacketInv'
  BY <1>1, <1>2, OnlyStays, PacketStays DEF AtWork
<1>4. BeginInv'
  BY <1>1, <1>2, ComingFacts DEF BeginInv
<1>5. SteadyInv'
  <2> SUFFICES ASSUME NEW c \in scenario.steady
               PROVE  c \notin lost /\ (Fresh(c) \/ Sounding(c))'
    BY <1>2 DEF SteadyInv
  <2>1. c \in Clients /\ c \notin lost /\ (Fresh(c) \/ Sounding(c))
    BY <1>1, UsualFacts DEF SteadyInv
  <2>2. Awaited(c)' = Awaited(c) /\ Coming(c)' = Coming(c) /\ Listed' = Listed
    BY <2>1, <1>2, ComingStays DEF Listed
  <2>3. Floor \in Int /\ channel[c].audioTs \in Int
    BY <2>1, <1>1, FloorFacts, ChannelFacts
  <2>4. (Fresh(c) \/ Sounding(c))'
    BY <2>1, <2>2, <2>3, <1>2, KeptStays
  <2>5. QED
    BY <2>1, <2>4
<1>6. QED
  BY <1>3, <1>4, <1>5 DEF CalmInv

\* The earliest channel that is behind the tick at work begins later than the Delay.
LEMMA FindMinCalm == ASSUME Usual, Calm, IInv, CalmInv, IInv', FindMin PROVE CalmInv'
<1>1. /\ OnlyInv /\ PacketInv /\ BeginInv /\ GridInv /\ SteadyInv
      /\ HookInv /\ ChannelInv /\ CaptureInv /\ RoundInv /\ AccountInv
  BY DEF IInv, CalmInv
<1> DEFINE A == {channel[c].audioTs : c \in {d \in Listed : ~channel[d].pending /\ channel[d].audioTs # 0}}
<1>2. /\ mpc \in {"find", "refind"} /\ minTs' = Min({minTs} \cup A)
      /\ mpc' = IF mpc = "find" THEN "mark" ELSE "buffer"
      /\ UNCHANGED <<scenario, now, hookVars, sessionVars, channelVars, captureVars, i, audioTime, mixing, ts,
                     bufferingVars, history>>
  BY DEF FindMin
<1>3. UNCHANGED <<sessions, channel, order, queue, wait, lost, heard>>
  BY <1>2 DEF sessionVars, channelVars, bufferingVars, history
<1>4. minTs \in Int /\ Delay \in Nat /\ AtWork /\ AtWork'
  BY <1>1, <1>2, UsualFacts DEF AccountInv, AtWork
<1>5. A \subseteq Nat /\ \A a \in A : a > Delay
  <2>1. Listed \subseteq Clients
    BY <1>1, ListedFacts DEF Listed
  <2>2. \A c \in Clients : channel[c].audioTs \in Nat /\ (channel[c].audioTs # 0 => channel[c].audioTs > Delay)
    BY <1>1, ChannelFacts DEF BeginInv
  <2>3. QED
    BY <2>1, <2>2
<1> HIDE DEF A
<1>6. minTs' \in Int /\ minTs' <= minTs /\ (minTs' = minTs \/ minTs' > Delay)
  BY <1>2, <1>4, <1>5, MinFacts
<1>7. ts.start \in Nat /\ (minTs = ts.start \/ (minTs <= ts.start /\ minTs > Delay))
  BY <1>1, <1>2, <1>4, FloorFacts DEF GridInv
<1>8. minTs' = ts.start \/ (minTs' <= ts.start /\ minTs' > Delay)
  BY <1>4, <1>6, <1>7
<1>9. Floor' = Floor
  BY <1>2, <1>3 DEF Floor
<1>10. GridInv'
  <2>1. mpc' # "mix" /\ UNCHANGED <<scenario, now, sessions, queue, audioTime, ts>>
    BY <1>2, <1>3
  <2>2. QED
    BY <2>1, <1>1, <1>4, <1>8, <1>9 DEF GridInv
<1>11. ASSUME NEW c \in scenario.steady
       PROVE  (\A h \in heard'[c] : h[1] = h[2]) /\ PartInv(c)'
  <2>1. c \in Clients /\ (\A h \in heard[c] : h[1] = h[2]) /\ PartInv(c)
    BY <1>1, UsualFacts DEF SteadyInv
  <2>2. PickedInv(c)' = PickedInv(c)
    BY <1>3 DEF PickedInv
  <2>3. mpc \notin {"pick", "mix", "discard"} /\ mpc' \notin {"pick", "mix", "discard"} /\ UNCHANGED <<mixing, order>>
    BY <1>2, <1>3
  <2>4. PartInv(c)'
    BY <2>1, <2>2, <2>3, <1>3, <1>4, <1>9 DEF PartInv
  <2>5. QED
    BY <2>1, <2>4, <1>3
<1>12. QED
  BY <1>2, <1>3, <1>4, <1>9, <1>10, <1>11, TurnCalm

\* No steady client that is part of the tick is short.
LEMMA MarkCalm == ASSUME Usual, Calm, IInv, CalmInv, IInv', Mark PROVE CalmInv'
<1>1. /\ OnlyInv /\ PacketInv /\ BeginInv /\ GridInv /\ SteadyInv
      /\ HookInv /\ ChannelInv /\ CaptureInv /\ AccountInv
  BY DEF IInv, CalmInv
<1> DEFINE short == {c \in Listed : Insufficient(channel[c], minTs)}
<1>2. /\ mpc = "mark" /\ mpc' = IF short # {} THEN "refind" ELSE "buffer"
      /\ channel' = [c \in Clients |-> [channel[c] EXCEPT !.pending = channel[c].pending \/ c \in short]]
      /\ UNCHANGED <<scenario, now, hookVars, sessionVars, order, captureVars, i, audioTime, mixing, ts,
                     minTs, bufferingVars, history>>
  BY DEF Mark
<1>3. UNCHANGED <<sessions, queue, wait, lost, heard>>
  BY <1>2 DEF sessionVars, bufferingVars, history
<1>4. mpc' \in {"refind", "buffer"} /\ AtWork /\ AtWork' /\ minTs \in Int
  BY <1>1, <1>2 DEF AtWork, AccountInv
<1> HIDE DEF short
<1>5. \A c \in Clients : /\ channel'[c].buf = channel[c].buf /\ channel'[c].audioTs = channel[c].audioTs
                         /\ channel'[c].nextTs = channel[c].nextTs /\ channel'[c].out = channel[c].out
                         /\ c \notin short => channel'[c].pending = channel[c].pending
  <2> SUFFICES ASSUME NEW c \in Clients
               PROVE  /\ channel'[c].buf = channel[c].buf /\ channel'[c].audioTs = channel[c].audioTs
                      /\ channel'[c].nextTs = channel[c].nextTs /\ channel'[c].out = channel[c].out
                      /\ c \notin short => channel'[c].pending = channel[c].pending
    OBVIOUS
  <2>1. channel[c] \in Channel /\ channel[c].pending \in BOOLEAN
    BY <1>1, ChannelFacts
  <2>2. channel'[c] = [channel[c] EXCEPT !.pending = channel[c].pending \/ c \in short]
    BY <1>2
  <2>3. QED
    BY <2>1, <2>2 DEF Channel
<1>6. Floor' = Floor
  BY <1>2, <1>3 DEF Floor
<1>7. GridInv'
  <2>1. UNCHANGED <<scenario, now, sessions, queue, audioTime, ts, minTs>>
    BY <1>2, <1>3
  <2>2. QED
    BY <2>1, <1>1, <1>2, <1>4, <1>6 DEF GridInv
<1>8. ASSUME NEW c \in scenario.steady
      PROVE  (\A h \in heard'[c] : h[1] = h[2]) /\ PartInv(c)'
  <2>1. c \in Clients /\ (\A h \in heard[c] : h[1] = h[2]) /\ PartInv(c)
    BY <1>1, UsualFacts DEF SteadyInv
  <2>2. ASSUME channel[c].audioTs # 0, channel[c].audioTs < Floor + Tick
        PROVE  PickedInv(c)' = PickedInv(c)
    <3>1. channel[c].audioTs \in Nat /\ Len(channel[c].buf) \in Nat /\ Len(channel[c].buf) > Block
      BY <2>2, <1>4, EnoughFacts
    <3>2. \A t \in Int : TimeToFrames(t) = t
      BY <1>1, UsualFacts, UnitFacts
    <3>3. Block \in Nat
      BY ChannelAssumption
    <3>4. ~Insufficient(channel[c], minTs)
      BY <3>1, <3>2, <3>3, <1>4 DEF Insufficient
    <3>5. c \notin short
      BY <3>4 DEF short
    <3>6. QED
      BY <3>5, <2>1, <1>5 DEF PickedInv
  <2>3. mpc \notin {"pick", "mix", "discard"} /\ mpc' \notin {"pick", "mix", "discard"} /\ UNCHANGED <<mixing, order>>
    BY <1>2, <1>4
  <2>4. PartInv(c)'
    <3> SUFFICES ASSUME channel[c].audioTs # 0, channel[c].audioTs < Floor + Tick
                 PROVE  \E k \in 1..mixing : order[k] = c /\ PickedInv(c)'
      BY <2>1, <2>3, <1>5, <1>6 DEF PartInv
    <3>1. \E k \in 1..mixing : order[k] = c /\ PickedInv(c)
      BY <2>1, <2>3, <1>4 DEF PartInv
    <3>2. QED
      BY <3>1, <2>2
  <2>5. QED
    BY <2>1, <2>4, <1>3
<1>9. QED
  BY <1>2, <1>3, <1>4, <1>5, <1>6, <1>7, <1>8, TurnCalm

\* Ticks that are put in front are in the line of those that wait, and begin after time does.
LEMMA AddCalm ==
  ASSUME Usual, Calm, IInv, CalmInv, mpc = "buffer", minTs < ts.start, AddBuffering
  PROVE  \E n \in Nat \ {0} :
           /\ wait' = wait + n /\ queue' \in Seq(Interval) /\ Len(queue') = Len(queue) + n
           /\ \A k \in DOMAIN queue' : queue'[k] = Span(audioTime - (Len(queue) + n + 1 - k) * Tick)
           /\ audioTime - (Len(queue) + n) * Tick >= 1
           /\ ts' = queue'[1]
<1>1. GridInv /\ HookInv /\ AccountInv /\ LineInv
  BY DEF IInv, CalmInv
<1>2. AtWork /\ sessions # 0
  BY <1>1 DEF AtWork, LineInv
<1> DEFINE behind == TicksBehind(ts.start - minTs)
           n == IF total + behind > MaxTicks THEN MaxTicks - total ELSE behind
           base == IF wait = 0 THEN ts.start ELSE bufferedTs
           start(k) == base - k * Tick
           front == [k \in 1..n |-> Span(start(wait + n + 1 - k))]
<1>3. /\ total < MaxTicks /\ wait' = wait + n
      /\ queue' = front \o queue
      /\ ts' \in IF n > 0 THEN {Head(queue')} ELSE [start : {start(wait)}, end : Junk]
  BY DEF AddBuffering
<1>4. /\ Frame = 1 /\ Tick \in Nat \ {0} /\ MaxTicks \in Nat /\ Delay \in Nat /\ Tick + Tick <= Delay
  BY <1>1, UsualFacts
<1>5. /\ Floor \in Int /\ audioTime \in Nat /\ wait \in Nat /\ Len(queue) \in Nat /\ wait <= Len(queue)
      /\ ts.start \in Nat \ {0} /\ ts.start = Floor - wait * Tick /\ (wait = 0 => ts.start = Floor)
  BY <1>1, <1>2, FloorFacts
<1>6. /\ minTs \in Int /\ total \in Nat /\ bufferedTs \in Int /\ queue \in Seq(Interval)
      /\ DOMAIN queue = 1..Len(queue) /\ minTs > Delay
  BY <1>1, QueueFacts DEF AccountInv, GridInv
<1>7. /\ behind \in Nat /\ behind * Tick \in Nat /\ ts.start - minTs - 1 < behind * Tick
      /\ behind * Tick < ts.start - minTs + Tick
  <2> DEFINE t == ts.start - minTs
  <2>1. t \in Nat
    BY <1>5, <1>6
  <2> HIDE DEF t
  <2>2. /\ TicksBehind(t) \in Nat /\ TicksBehind(t) * Tick \in Nat /\ t - 1 < TicksBehind(t) * Tick
        /\ TicksBehind(t) * Tick < t + Tick
    BY <2>1, <1>4, BehindFacts
  <2>3. QED
    BY <2>2 DEF t
<1> HIDE DEF behind
<1>8. behind >= 1
  <2>1. behind * Tick > 0
    BY <1>5, <1>6, <1>7
  <2>2. behind = 0 => behind * Tick = 0
    BY <1>4
  <2>3. QED
    BY <2>1, <2>2, <1>7
<1>9. n \in Nat \ {0} /\ n <= behind
  BY <1>3, <1>4, <1>6, <1>7, <1>8
<1> HIDE DEF n
<1>10. n * Tick \in Int /\ n * Tick <= behind * Tick
  BY <1>4, <1>7, <1>9, TimesFacts
<1>11. base = Floor
  <2>1. CASE wait = 0
    BY <2>1, <1>5
  <2>2. CASE wait # 0
    <3>1. 1 \in 1..wait /\ wait + 1 - 1 = wait
      BY <2>2, <1>5
    <3>2. queue[1].start = bufferedTs - (wait + 1 - 1) * Tick
      BY <3>1, <1>1 DEF AccountInv
    <3>3. ts.start = bufferedTs - wait * Tick
      BY <3>1, <3>2, <1>1, <1>2 DEF AccountInv, AtWork
    <3>4. wait * Tick \in Int
      BY <1>4, <1>5, TimesFacts
    <3>5. QED
      BY <3>3, <3>4, <2>2, <1>5, <1>6
  <2>3. QED
    BY <2>1, <2>2
<1> HIDE DEF base
<1> DEFINE m == Len(queue)
<1>12. m * Tick \in Int /\ wait * Tick \in Int /\ Floor = audioTime - (m * Tick - wait * Tick)
  <2>1. (m - wait) * Tick = m * Tick - wait * Tick /\ m * Tick \in Int /\ wait * Tick \in Int
    BY <1>4, <1>5, TimesFacts
  <2>2. Floor = audioTime - (m - wait) * Tick
    BY DEF Floor
  <2>3. QED
    BY <2>1, <2>2
<1>13. audioTime - (m + n) * Tick >= 1
  <2>1. (m + n) * Tick = m * Tick + n * Tick
    BY <1>4, <1>5, <1>9, TimesFacts
  <2>2. ts.start = audioTime - m * Tick
    BY <1>5, <1>12
  <2>3. n * Tick < ts.start - minTs + Tick
    BY <1>4, <1>5, <1>6, <1>7, <1>10
  <2>4. audioTime - (m * Tick + n * Tick) > minTs - Tick
    BY <2>2, <2>3, <1>4, <1>5, <1>6, <1>10, <1>12
  <2>5. minTs - Tick >= 1
    BY <1>4, <1>6
  <2> HIDE DEF m
  <2> DEFINE x == m * Tick + n * Tick
  <2>6. audioTime - x >= 1
    <3>1. x \in Int
      BY <1>10, <1>12
    <3>2. audioTime - x > minTs - Tick
      BY <2>4
    <3>3. audioTime \in Int /\ minTs - Tick \in Int
      BY <1>4, <1>5, <1>6
    <3> HIDE DEF x
    <3>4. QED
      BY <3>1, <3>2, <3>3, <2>5
  <2>7. QED
    BY <2>1, <2>6
<1>14. ASSUME NEW k \in 1..n
       PROVE  start(wait + n + 1 - k) = audioTime - (m + n + 1 - k) * Tick /\ start(wait + n + 1 - k) \in Nat
  <2> DEFINE a == n + 1 - k
  <2>1. a \in Int /\ a <= n /\ wait + n + 1 - k = wait + a /\ m + n + 1 - k = m + a
    BY <1>5, <1>9
  <2> HIDE DEF a
  <2>2. /\ (wait + a) * Tick = wait * Tick + a * Tick /\ (m + a) * Tick = m * Tick + a * Tick
        /\ a * Tick \in Int /\ a * Tick <= n * Tick /\ (m + n) * Tick = m * Tick + n * Tick
    BY <2>1, <1>4, <1>5, <1>9, TimesFacts
  <2>3. start(wait + n + 1 - k) = Floor - (wait * Tick + a * Tick)
    BY <2>1, <2>2, <1>11
  <2>4. audioTime - (m + n + 1 - k) * Tick = audioTime - (m * Tick + a * Tick)
    BY <2>1, <2>2
  <2>5. audioTime - (m * Tick + n * Tick) >= 1
    BY <2>2, <1>13
  <2>6. a * Tick \in Int /\ a * Tick <= n * Tick
    BY <2>2
  <2> DEFINE x == m * Tick
             y == wait * Tick
             z == a * Tick
             u == n * Tick
  <2>7. /\ x \in Int /\ y \in Int /\ z \in Int /\ u \in Int /\ z <= u /\ audioTime \in Int
        /\ Floor = audioTime - (x - y) /\ audioTime - (x + u) >= 1
    BY <2>5, <2>6, <1>5, <1>10, <1>12
  <2> HIDE DEF x, y, z, u
  <2>8. Floor - (y + z) = audioTime - (x + z) /\ audioTime - (x + z) >= 1 /\ audioTime - (x + z) \in Nat
    BY <2>7
  <2>9. QED
    BY <2>3, <2>4, <2>8 DEF x, y, z
<1> HIDE DEF start
<1>15. front \in Seq(Interval) /\ Len(front) = n
  <2>1. \A k \in 1..n : Span(start(wait + n + 1 - k)) \in Interval
    BY <1>4, <1>14, SpanFacts
  <2>2. front \in [1..n -> Interval]
    BY <2>1
  <2>3. QED
    BY <2>2, <1>9
<1>16. \A k \in 1..n : front[k] = Span(audioTime - (m + n + 1 - k) * Tick)
  BY <1>14
<1> HIDE DEF front
<1>17. /\ queue' \in Seq(Interval) /\ Len(queue') = n + m /\ DOMAIN queue' = 1..(n + m)
       /\ \A k \in 1..n : queue'[k] = front[k]
       /\ \A k \in DOMAIN queue' : k > n => queue'[k] = queue[k - n]
  <2>1. queue' = front \o queue /\ Len(queue) = m
    BY <1>3 DEF m
  <2>2. front \in Seq(Interval) /\ queue \in Seq(Interval) /\ Len(front) = n
    BY <1>6, <1>15
  <2>3. LET q == front \o queue
        IN /\ q \in Seq(Interval) /\ Len(q) = Len(front) + Len(queue)
           /\ DOMAIN q = 1..(Len(front) + Len(queue))
           /\ \A k \in 1..Len(front) : q[k] = front[k]
           /\ \A k \in DOMAIN q : k > Len(front) => q[k] = queue[k - Len(front)]
    BY <2>2, ConcatFacts, Zenon
  <2>4. QED
    BY <2>1, <2>2, <2>3, Zenon
<1>18. ASSUME NEW k \in DOMAIN queue'
       PROVE  queue'[k] = Span(audioTime - (m + n + 1 - k) * Tick)
  <2>1. k \in Int /\ k >= 1 /\ k <= n + m
    BY <1>5, <1>9, <1>17
  <2>2. CASE k <= n
    <3>1. k \in 1..n
      BY <2>1, <2>2, <1>9
    <3>2. QED
      BY <3>1, <1>16, <1>17
  <2>3. CASE k > n
    <3>1. queue'[k] = queue[k - n] /\ k - n \in DOMAIN queue /\ m + 1 - (k - n) = m + n + 1 - k
      BY <2>1, <2>3, <1>5, <1>6, <1>9, <1>17
    <3>2. queue[k - n] = Span(audioTime - (m + 1 - (k - n)) * Tick)
      BY <3>1, <1>1 DEF GridInv
    <3>3. QED
      BY <3>1, <3>2
  <2>4. QED
    BY <2>1, <2>2, <2>3, <1>9
<1>19. ts' = queue'[1]
  <2>1. queue' # <<>> /\ n > 0
    BY <1>5, <1>9, <1>17
  <2>2. QED
    BY <2>1, <1>3, <1>17
<1>20. Len(queue') = m + n
  BY <1>5, <1>9, <1>17
<1>21. QED
  BY <1>3, <1>9, <1>13, <1>17, <1>18, <1>19, <1>20

\* Ticks are put before those that wait, not before those to be mixed.
LEMMA BufferCalm == ASSUME Usual, Calm, IInv, CalmInv, IInv', Buffer PROVE CalmInv'
<1>1. /\ OnlyInv /\ PacketInv /\ BeginInv /\ GridInv /\ SteadyInv
      /\ HookInv /\ ChannelInv /\ CaptureInv /\ RoundInv /\ AccountInv /\ LineInv
  BY DEF IInv, CalmInv
<1>2. /\ mpc = "buffer"
      /\ mpc' = IF wait' = 0 /\ mixing > 0 THEN "mix" ELSE "discard"
      /\ UNCHANGED <<scenario, now, hookVars, sessionVars, channelVars, captureVars, i, audioTime, mixing,
                     minTs, history>>
  BY DEF Buffer
<1>3. UNCHANGED <<sessions, channel, order, lost, heard>>
  BY <1>2 DEF sessionVars, channelVars, history
<1>4. AtWork /\ AtWork' /\ sessions # 0 /\ mpc' \in {"mix", "discard"} /\ (mpc' = "mix" => wait' = 0)
  BY <1>1, <1>2 DEF AtWork, LineInv
<1>5. Len(queue) \in Nat /\ wait \in Nat /\ now \in Nat
  BY <1>1, <1>2, QueueFacts, UsualFacts
<1>6. GridInv' /\ Floor' = Floor
  <2>1. CASE minTs < ts.start /\ AddBuffering
    <3>1. PICK n \in Nat \ {0} :
           /\ wait' = wait + n /\ queue' \in Seq(Interval) /\ Len(queue') = Len(queue) + n
           /\ \A k \in DOMAIN queue' : queue'[k] = Span(audioTime - (Len(queue) + n + 1 - k) * Tick)
           /\ audioTime - (Len(queue) + n) * Tick >= 1
           /\ ts' = queue'[1]
      BY <2>1, <1>2, AddCalm
    <3>2. Len(queue') - wait' = Len(queue) - wait
      BY <3>1, <1>5
    <3>3. Floor' = Floor
      <4>1. audioTime' = audioTime
        BY <1>2
      <4>2. Floor' = audioTime' - (Len(queue') - wait') * Tick /\ Floor = audioTime - (Len(queue) - wait) * Tick
        BY Zenon DEF Floor
      <4>3. QED
        BY <4>1, <4>2, <3>2
    <3>4. \A k \in DOMAIN queue' : queue'[k] = Span(audioTime' - (Len(queue') + 1 - k) * Tick)
      BY <3>1, <1>2
    <3>5. audioTime' - Len(queue') * Tick >= 1
      BY <3>1, <1>2
    <3>6. mpc' \notin {"pick", "find", "mark", "refind", "buffer"}
      BY <1>4
    <3>7. UNCHANGED <<scenario, now, sessions, audioTime>>
      BY <1>2, <1>3
    <3>8. QED
      BY <3>1, <3>3, <3>4, <3>5, <3>6, <3>7, <1>1, <1>4 DEF GridInv
  <2>2. CASE UNCHANGED <<bufferingVars, ts>>
    <3>1. UNCHANGED <<scenario, now, sessions, audioTime, queue, wait, ts>>
      BY <2>2, <1>2, <1>3 DEF bufferingVars
    <3>2. Floor' = Floor
      BY <3>1 DEF Floor
    <3>3. QED
      BY <3>1, <3>2, <1>1, <1>4 DEF GridInv
  <2>3. QED
    BY <2>1, <2>2 DEF Buffer
<1>7. ASSUME NEW c \in scenario.steady
      PROVE  (\A h \in heard'[c] : h[1] = h[2]) /\ PartInv(c)'
  <2>1. c \in Clients /\ (\A h \in heard[c] : h[1] = h[2]) /\ PartInv(c)
    BY <1>1, UsualFacts DEF SteadyInv
  <2>2. PickedInv(c)' = PickedInv(c)
    BY <1>3 DEF PickedInv
  <2>3. PartInv(c)'
    <3> SUFFICES ASSUME channel[c].audioTs # 0, channel[c].audioTs < Floor + Tick
                 PROVE  \E k \in 1..mixing :
                          /\ order[k] = c /\ PickedInv(c)
                          /\ ~((mpc' = "mix" /\ k < i') \/ (mpc' = "discard" /\ wait' = 0))
      BY <2>2, <1>2, <1>3, <1>6 DEF PartInv
    <3>1. PICK k \in 1..mixing : order[k] = c /\ PickedInv(c)
      BY <2>1, <1>2, <1>4 DEF PartInv
    <3>2. mixing \in Nat /\ i = 1
      BY <1>1, <1>2, ListedFacts DEF RoundInv
    <3>3. mixing > 0 /\ ~(k < i')
      BY <3>1, <3>2, <1>2
    <3>4. QED
      BY <3>1, <3>3, <1>2
  <2>4. QED
    BY <2>1, <2>3, <1>3
<1>8. QED
  BY <1>2, <1>3, <1>4, <1>6, <1>7, TurnCalm

\* What is mixed of a steady client is heard at its time, and is all that is to be
\* heard of it in the tick.
LEMMA MixFacts ==
  ASSUME Usual, Calm, IInv, CalmInv, mpc = "mix", NEW c \in scenario.steady
  PROVE  LET mix == MixedOf(channel[c])
         IN /\ \A h \in mix : h[1] = h[2]
            /\ channel[c].audioTs # 0 /\ channel[c].audioTs < Floor + Tick =>
                 mix # {} /\ \A x \in channel[c].audioTs..(Floor + Tick - 1) : <<x, x>> \in mix
<1>1. /\ GridInv /\ SteadyInv /\ HookInv /\ ChannelInv
  BY DEF IInv, CalmInv
<1>2. /\ AtWork /\ wait = 0 /\ Floor \in Int /\ ts.start = Floor /\ ts.start \in Nat \ {0}
      /\ ts.end = Floor + Tick
  <2>1. AtWork /\ wait = 0
    BY <1>1 DEF AtWork, GridInv
  <2>2. QED
    BY <2>1, <1>1, FloorFacts
<1>3. /\ Tick = Block /\ Tick \in Nat \ {0} /\ \A t \in Int : TimeToFrames(t) = t /\ FramesToTime(t) = t
  BY <1>1, UsualFacts, UnitFacts
<1> DEFINE t == channel[c].audioTs
           out == channel[c].out
           at == t - Floor
           mixed == {<<out[k], Floor + (at + k - 1)>> : k \in 1..(Block - at)}
<1>4. c \in Clients /\ PartInv(c) /\ t \in Nat
  BY <1>1, UsualFacts, ChannelFacts DEF SteadyInv
<1>5. CASE t = 0
  BY <1>5 DEF MixedOf
<1>6. CASE t # 0 /\ t >= Floor + Tick
  <2>1. ts.end <= channel[c].audioTs
    BY <1>2, <1>6
  <2>2. Mixed(channel[c], ts) = {}
    BY <2>1 DEF Mixed
  <2>3. MixedOf(channel[c]) = {}
    BY <2>2 DEF MixedOf
  <2>4. QED
    BY <2>3, <1>2, <1>3, <1>4, <1>6
<1>7. CASE t # 0 /\ t < Floor + Tick
  <2>1. PickedInv(c)
    BY <1>2, <1>4, <1>7 DEF PartInv
  <2>2. /\ ~channel[c].pending /\ Len(out) = Block /\ out \in Seq(Nat)
        /\ \A k \in DOMAIN out : out[k] = t + k - 1
    BY <2>1, <1>1, <1>4, ChannelFacts DEF PickedInv, InPlace
  <2>3. t >= Floor
    BY <1>2, <1>7, EnoughFacts
  <2>4. DOMAIN out = 1..Block /\ at \in Nat /\ at < Block
    BY <2>2, <2>3, <1>2, <1>3, <1>4, <1>7
  <2>5. out[1] # 0
    <3>1. 1 \in DOMAIN out /\ t + 1 - 1 = t
      BY <2>4, <1>3, <1>4
    <3>2. out[1] = t
      BY <3>1, <2>2
    <3>3. QED
      BY <3>2, <1>7
  <2>6. Mixed(channel[c], ts) = mixed
    <3>1. StartPoint(channel[c], ts) = at
      BY <2>4, <1>2, <1>3 DEF StartPoint
    <3>2. ~(channel[c].audioTs < ts.start \/ ts.end <= channel[c].audioTs)
      BY <2>3, <1>2, <1>3, <1>4, <1>7
    <3>3. Mixed(channel[c], ts) = {<<out[k], ts.start + FramesToTime(at + k - 1)>> : k \in 1..(Block - at)}
      BY <3>1, <3>2, Zenon DEF Mixed
    <3>4. \A k \in 1..(Block - at) : FramesToTime(at + k - 1) = at + k - 1
      BY <2>4, <1>3
    <3>5. QED
      BY <3>3, <3>4, <1>2
  <2>7. \A k \in 1..(Block - at) : out[k] = t + k - 1 /\ Floor + (at + k - 1) = t + k - 1 /\ out[k] # 0
    <3>1. \A k \in 1..(Block - at) : k \in DOMAIN out /\ k \in Nat \ {0}
      BY <2>4, <1>3
    <3>2. \A k \in 1..(Block - at) : out[k] = t + k - 1
      BY <3>1, <2>2
    <3> HIDE DEF out
    <3>3. ASSUME NEW k \in Nat \ {0}
          PROVE  Floor + (at + k - 1) = t + k - 1 /\ t + k - 1 # 0
      <4>1. t \in Nat /\ t # 0 /\ Floor \in Int /\ at = t - Floor
        BY <1>2, <1>4, <1>7
      <4> HIDE DEF t, at
      <4>2. QED
        BY <4>1
    <3>4. QED
      BY <3>1, <3>2, <3>3
  <2>8. MixedOf(channel[c]) = {h \in mixed : h[1] # 0}
    BY <2>2, <2>5, <2>6, <1>7 DEF MixedOf
  <2>9. \A h \in mixed : h[1] = h[2] /\ h[1] # 0
    <3> SUFFICES ASSUME NEW k \in 1..(Block - at)
                 PROVE  out[k] = Floor + (at + k - 1) /\ out[k] # 0
      OBVIOUS
    <3>1. QED
      BY <2>7
  <2>10. MixedOf(channel[c]) = mixed
    BY <2>8, <2>9
  <2>11. ASSUME NEW x \in t..(Floor + Tick - 1)
         PROVE  <<x, x>> \in mixed
    <3> DEFINE k == x - t + 1
    <3>1. k \in 1..(Block - at) /\ t + k - 1 = x
      <4>1. /\ t \in Nat /\ Floor \in Int /\ Tick \in Nat /\ Tick = Block /\ at = t - Floor
            /\ t <= x /\ x <= Floor + Tick - 1 /\ x \in Int
        BY <1>2, <1>3, <1>4
      <4> HIDE DEF t, at
      <4>2. QED
        BY <4>1
    <3> HIDE DEF k
    <3>2. out[k] = x /\ Floor + (at + k - 1) = x
      BY <3>1, <2>7
    <3>3. <<x, x>> = <<out[k], Floor + (at + k - 1)>>
      BY <3>2
    <3>4. QED
      BY <3>1, <3>3
  <2>12. t \in t..(Floor + Tick - 1)
    BY <1>2, <1>3, <1>4, <1>7
  <2>13. mixed # {}
    BY <2>11, <2>12
  <2> HIDE DEF mixed, t
  <2>14. QED
    BY <2>9, <2>10, <2>11, <2>13 DEF t
<1>8. QED
  BY <1>2, <1>3, <1>4, <1>5, <1>6, <1>7

\* One channel after the other is mixed.
LEMMA MixCalm == ASSUME Usual, Calm, IInv, CalmInv, IInv', Mix PROVE CalmInv'
<1>1. /\ OnlyInv /\ PacketInv /\ BeginInv /\ GridInv /\ SteadyInv
      /\ HookInv /\ ChannelInv /\ CaptureInv /\ RoundInv /\ AccountInv /\ LineInv /\ HeardInv
  BY DEF IInv, CalmInv
<1>2. PICK d : d = order[i]
  OBVIOUS
<1> DEFINE mix == MixedOf(channel[d])
<1>3. /\ mpc = "mix"
      /\ heard' = IF mix = {} THEN heard ELSE [heard EXCEPT ![d] = mix]
      /\ IF i < mixing THEN i' = i + 1 /\ mpc' = mpc ELSE i' = 1 /\ mpc' = "discard"
      /\ UNCHANGED <<scenario, now, hookVars, sessionVars, channelVars, captureVars, audioTime, mixing, ts,
                     minTs, bufferingVars, lastOut, lost>>
  BY <1>2 DEF Mix, Round
<1> HIDE DEF mix
<1>4. UNCHANGED <<sessions, channel, order, queue, wait>>
  BY <1>3 DEF sessionVars, channelVars, bufferingVars
<1>5. AtWork /\ AtWork' /\ mpc' \in {"mix", "discard"} /\ wait = 0
  BY <1>1, <1>3 DEF AtWork, GridInv
<1>6. i \in 1..mixing /\ mixing \in Nat
  BY <1>1, <1>3, ListedFacts DEF RoundInv
<1>7. Floor' = Floor
  BY <1>3, <1>4 DEF Floor
<1>8. GridInv'
  BY <1>1, <1>3, <1>4, <1>5, <1>7 DEF GridInv
<1>9. ASSUME NEW c \in scenario.steady
      PROVE  (\A h \in heard'[c] : h[1] = h[2]) /\ PartInv(c)'
  <2>1. c \in Clients /\ (\A h \in heard[c] : h[1] = h[2]) /\ PartInv(c)
    BY <1>1, UsualFacts DEF SteadyInv
  <2>2. heard \in [Clients -> SUBSET (Nat \X Int)]
    BY <1>1 DEF HeardInv
  <2>3. heard'[c] = IF c = d /\ mix # {} THEN mix ELSE heard[c]
    BY <2>1, <2>2, <1>3
  <2>4. \A h \in heard'[c] : h[1] = h[2]
    <3>1. c = d => \A h \in mix : h[1] = h[2]
      BY <1>3, MixFacts DEF mix
    <3>2. QED
      BY <3>1, <2>1, <2>3
  <2>5. PartInv(c)'
    <3> SUFFICES ASSUME channel[c].audioTs # 0, channel[c].audioTs < Floor + Tick
                 PROVE  \E k \in 1..mixing :
                          /\ order[k] = c /\ PickedInv(c)'
                          /\ (mpc' = "mix" /\ k < i') \/ mpc' = "discard" => MixedInv(c)'
      BY <1>3, <1>4, <1>7 DEF PartInv
    <3>1. PICK k \in 1..mixing : order[k] = c /\ PickedInv(c) /\ (k < i => MixedInv(c))
      BY <2>1, <1>3, <1>5 DEF PartInv
    <3>2. PickedInv(c)'
      BY <3>1, <1>4 DEF PickedInv
    <3>3. CASE c = d
      <4>1. mix # {} /\ \A x \in channel[c].audioTs..(Floor + Tick - 1) : <<x, x>> \in mix
        BY <3>3, <1>3, MixFacts DEF mix
      <4>2. MixedInv(c)'
        BY <4>1, <3>3, <2>3, <1>4, <1>7 DEF MixedInv
      <4>3. QED
        BY <4>2, <3>1, <3>2
    <3>4. CASE c # d
      <4>1. k # i
        BY <3>1, <3>4, <1>2
      <4>2. (mpc' = "mix" /\ k < i') \/ mpc' = "discard" => k < i
        BY <4>1, <3>1, <1>3, <1>6
      <4>3. MixedInv(c)' = MixedInv(c)
        BY <3>4, <2>3, <1>4, <1>7 DEF MixedInv
      <4>4. QED
        BY <4>2, <4>3, <3>1, <3>2
    <3>5. QED
      BY <3>3, <3>4
  <2>6. QED
    BY <2>4, <2>5
<1>10. QED
  BY <1>3, <1>4, <1>5, <1>7, <1>8, <1>9, TurnCalm

\* What is left of a channel.  One that is not empty begins no earlier than before.
LEMMA LeftFacts ==
  ASSUME Frame = 1, NEW c, Bounded(c), c.audioTs = 0 => c.buf = <<>>,
         NEW s \in Nat \ {0}, NEW full \in BOOLEAN
  PROVE  LET d == Discarded(c, Span(s), full)
             n == s + Tick - c.audioTs
         IN /\ d.nextTs = c.nextTs
            /\ IF d.audioTs = 0 THEN d.buf = <<>> ELSE c.audioTs # 0 /\ d.audioTs >= c.audioTs
            /\ s + Tick <= c.audioTs => d = c
            /\ s <= c.audioTs /\ c.audioTs < s + Tick /\ Block <= Len(c.buf) =>
                 d.audioTs = s + Tick /\ d.buf = SubSeq(c.buf, n + 1, Len(c.buf))
<1>1. /\ Tick = Block /\ Tick \in Nat \ {0} /\ \A t \in Int : TimeToFrames(t) = t /\ FramesToTime(t) = t
  BY UnitFacts
<1>2. /\ c \in Channel /\ c.audioTs \in Nat /\ c.buf \in Seq(Nat) /\ Len(c.buf) \in Nat /\ c.nextTs \in Nat
      /\ (c.buf # <<>> => Len(c.buf) > 0)
  BY DEF Bounded, Channel
<1> DEFINE n == s + Tick - c.audioTs
           d == Discarded(c, Span(s), full)
           halt == StopIfStalled(c)
           ignore(e) == IF full THEN Ignored(e) ELSE e
           moved == [halt EXCEPT !.audioTs = s + Tick]
           cut == [c EXCEPT !.buf = SubSeq(c.buf, n + 1, Len(c.buf)), !.lastSize = 0,
                            !.pendingStop = FALSE, !.audioTs = s + Tick]
<1>3. Block - StartPoint(c, Span(s)) = n
  <2>1. Span(s).start = s
    BY DEF Span
  <2>2. StartPoint(c, Span(s)) = c.audioTs - s
    BY <2>1, <1>1, <1>2 DEF StartPoint
  <2>3. QED
    BY <2>2, <1>1, <1>2
<1>4. d = IF s + Tick <= c.audioTs THEN c
          ELSE IF c.audioTs < s
          THEN IF ~(c.pending /\ Len(c.buf) < Block) THEN ignore(c)
               ELSE IF Stalled(c) THEN halt ELSE ignore(halt)
          ELSE IF n = 0 THEN c
          ELSE IF n < 0 \/ Len(c.buf) < n
          THEN IF Stalled(c) THEN halt ELSE moved
          ELSE cut
  <2>1. Span(s).start = s /\ Span(s).end = s + Tick
    BY DEF Span
  <2> HIDE DEF n
  <2>2. QED
    BY <2>1, <1>3, Zenon DEF Discarded
<1> DEFINE right(e) == /\ e.nextTs = c.nextTs
                      /\ IF e.audioTs = 0 THEN e.buf = <<>> ELSE c.audioTs # 0 /\ e.audioTs >= c.audioTs
<1>5. right(c)
  BY <1>2
<1>6. halt \in Channel /\ right(halt) /\ (~Stalled(c) => halt.audioTs = c.audioTs /\ halt.buf = c.buf)
  <2>1. Bounded(halt) /\ halt.nextTs = c.nextTs
    BY StopIfStalledFacts
  <2>2. CASE ~Stalled(c) /\ c.buf = <<>>
    <3>1. halt = c
      BY <2>2 DEF StopIfStalled
    <3>2. QED
      BY <3>1, <2>1, <1>5 DEF Bounded
  <2>3. CASE ~Stalled(c) /\ c.buf # <<>>
    <3>1. halt = [c EXCEPT !.lastSize = Len(c.buf)]
      BY <2>3 DEF StopIfStalled
    <3>2. halt.audioTs = c.audioTs /\ halt.buf = c.buf
      BY <3>1 DEF Channel
    <3>3. QED
      BY <3>2, <2>1, <1>5 DEF Bounded
  <2>4. CASE Stalled(c) /\ ~c.pendingStop
    <3>1. halt = [c EXCEPT !.pendingStop = TRUE]
      BY <2>4 DEF StopIfStalled
    <3>2. halt.audioTs = c.audioTs /\ halt.buf = c.buf
      BY <3>1 DEF Channel
    <3>3. QED
      BY <3>2, <2>1, <2>4, <1>5 DEF Bounded
  <2>5. CASE Stalled(c) /\ c.pendingStop
    <3>1. halt = [c EXCEPT !.buf = <<>>, !.pendingStop = FALSE, !.audioTs = 0, !.lastSize = 0]
      BY <2>5 DEF StopIfStalled
    <3>2. halt.audioTs = 0 /\ halt.buf = <<>>
      BY <3>1 DEF Channel
    <3>3. QED
      BY <3>2, <2>1, <2>5 DEF Bounded
  <2>6. QED
    BY <2>2, <2>3, <2>4, <2>5
<1> HIDE DEF halt
<1>7. ASSUME NEW e \in Channel, right(e), e.audioTs = c.audioTs, e.buf = c.buf
      PROVE  right(ignore(e))
  <2>1. CASE e.buf = <<>> \/ ~full
    BY <1>7, <2>1 DEF Ignored
  <2>2. CASE e.buf # <<>> /\ full
    <3> DEFINE at == e.audioTs + FramesToTime(Len(e.buf))
    <3>1. at = c.audioTs + Len(c.buf) /\ at \in Nat /\ at # 0 /\ at >= c.audioTs
      BY <1>1, <1>2, <1>7, <2>2
    <3>2. ignore(e) = [e EXCEPT !.buf = <<>>, !.lastSize = 0, !.audioTs = at]
      BY <2>2 DEF Ignored
    <3> HIDE DEF at, ignore
    <3>3. ignore(e).audioTs = at /\ ignore(e).nextTs = e.nextTs
      BY <3>2 DEF Channel
    <3>4. QED
      BY <3>1, <3>3, <1>7, <2>2
  <2>3. QED
    BY <2>1, <2>2
<1> HIDE DEF ignore
<1>8. ASSUME s <= c.audioTs, c.audioTs < s + Tick
      PROVE  n > 0 /\ n <= Block /\ right(moved) /\ right(cut)
  <2>1. n > 0 /\ n <= Block /\ c.audioTs # 0 /\ s + Tick \in Nat \ {0} /\ s + Tick >= c.audioTs
    BY <1>1, <1>2, <1>8
  <2>2. moved.audioTs = s + Tick /\ moved.nextTs = halt.nextTs
    BY <1>6 DEF Channel
  <2> DEFINE b == SubSeq(c.buf, n + 1, Len(c.buf))
             e == s + Tick
  <2> HIDE DEF b, e
  <2>3. cut = [c EXCEPT !.buf = b, !.lastSize = 0, !.pendingStop = FALSE, !.audioTs = e]
    BY DEF b, e
  <2> HIDE DEF cut
  <2>4. cut.audioTs = e /\ cut.nextTs = c.nextTs
    BY <2>3 DEF Channel
  <2> HIDE DEF moved
  <2>5. QED
    BY <2>1, <2>2, <2>4, <1>6 DEF e
<1>9. cut.audioTs = s + Tick /\ cut.buf = SubSeq(c.buf, n + 1, Len(c.buf))
  <2> DEFINE b == SubSeq(c.buf, n + 1, Len(c.buf))
             e == s + Tick
  <2> HIDE DEF b, e
  <2>1. cut = [c EXCEPT !.buf = b, !.lastSize = 0, !.pendingStop = FALSE, !.audioTs = e]
    BY DEF b, e
  <2> HIDE DEF cut
  <2>2. cut.audioTs = e /\ cut.buf = b
    BY <2>1 DEF Channel
  <2>3. QED
    BY <2>2 DEF b, e
<1> HIDE DEF moved, cut
<1>10. CASE s + Tick <= c.audioTs
  <2>1. d = c
    BY <1>4, <1>10
  <2>2. QED
    BY <2>1, <1>5, <1>1, <1>2, <1>10
<1>11. CASE c.audioTs < s
  <2>1. ~(s + Tick <= c.audioTs) /\ ~(s <= c.audioTs)
    BY <1>1, <1>2, <1>11
  <2>2. d \in {ignore(c), halt} \/ (d = ignore(halt) /\ ~Stalled(c))
    BY <2>1, <1>4, <1>11
  <2>3. right(ignore(c)) /\ (~Stalled(c) => right(ignore(halt)))
    BY <1>2, <1>5, <1>6, <1>7
  <2> HIDE DEF d
  <2>4. right(d)
    BY <2>2, <2>3, <1>6
  <2>5. QED
    BY <2>1, <2>4 DEF d
<1>12. CASE s <= c.audioTs /\ c.audioTs < s + Tick
  <2>1. n > 0 /\ n <= Block /\ right(moved) /\ right(cut)
    BY <1>8, <1>12
  <2>2. ~(s + Tick <= c.audioTs) /\ ~(c.audioTs < s) /\ n # 0 /\ ~(n < 0)
    BY <2>1, <1>1, <1>2, <1>12
  <2>3. d = IF Len(c.buf) < n THEN IF Stalled(c) THEN halt ELSE moved ELSE cut
    BY <2>2, <1>4
  <2>4. right(d)
    BY <2>1, <2>3, <1>6
  <2>5. Block <= Len(c.buf) => d = cut
    BY <2>1, <2>3, <1>1, <1>2
  <2> HIDE DEF d
  <2>6. QED
    BY <2>2, <2>4, <2>5, <1>9 DEF d
<1>13. QED
  BY <1>1, <1>2, <1>10, <1>11, <1>12

\* What is left of a sequence without its first n members.
LEMMA RestFacts ==
  ASSUME NEW buf \in Seq(Nat), NEW n \in Nat, n < Len(buf)
  PROVE  LET rest == SubSeq(buf, n + 1, Len(buf))
         IN /\ Len(rest) = Len(buf) - n /\ DOMAIN rest = 1..(Len(buf) - n)
            /\ \A k \in 1..(Len(buf) - n) : rest[k] = buf[k + n] /\ k + n \in 1..Len(buf)
<1> DEFINE rest == SubSeq(buf, n + 1, Len(buf))
<1>1. /\ Len(buf) \in Nat /\ n + 1 \in Int /\ n + 1 <= Len(buf)
      /\ \A k \in (n + 1)..Len(buf) : buf[k] \in Nat
  OBVIOUS
<1>2. /\ rest \in Seq(Nat) /\ Len(rest) = Len(buf) - (n + 1) + 1
      /\ \A k \in 1 .. Len(buf) - (n + 1) + 1 : rest[k] = buf[n + 1 + k - 1]
  BY <1>1, SubSeqProperties
<1> HIDE DEF rest
<1>3. Len(buf) - (n + 1) + 1 = Len(buf) - n /\ Len(buf) - n \in Nat
  BY <1>1
<1>4. \A k \in 1..(Len(buf) - n) : n + 1 + k - 1 = k + n /\ k + n \in 1..Len(buf)
  BY <1>1
<1>5. Len(rest) = Len(buf) - n /\ DOMAIN rest = 1..(Len(buf) - n)
  BY <1>2, <1>3
<1>6. \A k \in 1..(Len(buf) - n) : rest[k] = buf[k + n]
  BY <1>2, <1>3, <1>4
<1>7. QED
  BY <1>4, <1>5, <1>6 DEF rest

\* The tick at work is done with: a steady client keeps what comes after it, and what
\* it loses was mixed.
LEMMA DiscardCalm == ASSUME Usual, Calm, IInv, CalmInv, IInv', Discard PROVE CalmInv'
<1>1. /\ OnlyInv /\ PacketInv /\ BeginInv /\ GridInv /\ SteadyInv
      /\ HookInv /\ ChannelInv /\ CaptureInv /\ RoundInv /\ AccountInv /\ LineInv /\ SoundInv
  BY DEF IInv, CalmInv
<1> DEFINE full == total = MaxTicks
           after == [c \in Clients |->
                       IF c \in Listed THEN Discarded(channel[c], ts, full) ELSE channel[c]]
<1>2. /\ mpc = "discard" /\ \A c \in Listed : ~AudioBufHeld(c)
      /\ channel' = [c \in Clients |-> [after[c] EXCEPT !.out = <<>>]]
      /\ lost' = lost \cup {c \in Clients : Loses(c, channel[c], after[c])}
      /\ mpc' = "sleep"
      /\ UNCHANGED <<scenario, now, hookVars, sessionVars, order, captureVars, i, audioTime, total,
                     bufferedTs, heard, unheard>>
  BY DEF Discard
<1>3. UNCHANGED <<scenario, now, rendered, playing, flight, capturing, sessions, order, cpc, packet, audioTime, heard>>
  BY <1>2 DEF hookVars, sessionVars, captureVars
<1>4. /\ AtWork /\ ~AtWork' /\ sessions # 0
  BY <1>1, <1>2 DEF AtWork, LineInv
<1>5. /\ Floor \in Int /\ audioTime \in Nat /\ wait \in Nat /\ ts = Span(ts.start) /\ ts.start \in Nat \ {0}
      /\ (wait = 0 => ts.start = Floor) /\ (wait # 0 => ts.start + Tick <= Floor)
  BY <1>1, <1>4, FloorFacts
<1>6. /\ Frame = 1 /\ Tick \in Nat \ {0} /\ Tick = Block /\ Delay \in Nat \ {0} /\ now \in Nat
      /\ MaxTicks \in Nat /\ scenario.lag \in Nat
  BY <1>1, UsualFacts
<1>7. /\ Len(queue) \in Nat \ {0} /\ Len(queue') = Len(queue) - 1 /\ DOMAIN queue' = 1..(Len(queue) - 1)
      /\ \A k \in 1..(Len(queue) - 1) : queue'[k] = queue[k + 1] /\ k + 1 \in DOMAIN queue
      /\ wait' \in Nat /\ (wait = 0 => wait' = 0) /\ (wait # 0 => wait' = wait - 1)
  BY <1>1, DiscardFacts
<1>8. Floor' = IF wait = 0 THEN Floor + Tick ELSE Floor
  <2> DEFINE a == Len(queue) - wait
             b == Len(queue') - wait'
  <2>1. a \in Int /\ b = IF wait = 0 THEN a - 1 ELSE a
    BY <1>5, <1>7
  <2>2. Floor = audioTime - a * Tick /\ Floor' = audioTime' - b * Tick
    BY Zenon DEF Floor
  <2> HIDE DEF a, b
  <2>3. (a - 1) * Tick = a * Tick - 1 * Tick /\ 1 * Tick = Tick /\ a * Tick \in Int
    BY <2>1, <1>6, TimesFacts
  <2>4. b * Tick = IF wait = 0 THEN a * Tick - Tick ELSE a * Tick
    BY <2>1, <2>3
  <2>5. audioTime' = audioTime
    BY <1>3
  <2>6. QED
    BY <2>2, <2>3, <2>4, <2>5, <1>5, <1>6
<1>9. GridInv'
  <2>1. \A k \in DOMAIN queue' : queue'[k] = Span(audioTime - (Len(queue') + 1 - k) * Tick)
    <3> SUFFICES ASSUME NEW k \in DOMAIN queue'
                 PROVE  queue'[k] = Span(audioTime - (Len(queue') + 1 - k) * Tick)
      OBVIOUS
    <3>1. queue'[k] = queue[k + 1] /\ k + 1 \in DOMAIN queue /\ k \in Int
      BY <1>7
    <3>2. Len(queue) + 1 - (k + 1) = Len(queue') + 1 - k
      BY <3>1, <1>7
    <3>3. queue[k + 1] = Span(audioTime - (Len(queue) + 1 - (k + 1)) * Tick)
      BY <3>1, <1>1 DEF GridInv
    <3>4. QED
      BY <3>1, <3>2, <3>3
  <2>2. audioTime - Len(queue') * Tick >= 1
    <3>1. (Len(queue) - 1) * Tick = Len(queue) * Tick - 1 * Tick /\ 1 * Tick = Tick /\ Len(queue) * Tick \in Int
      BY <1>6, <1>7, TimesFacts
    <3>2. audioTime - Len(queue) * Tick >= 1
      BY <1>1, <1>4 DEF GridInv
    <3>3. Len(queue') * Tick = Len(queue) * Tick - Tick
      BY <3>1, <1>7
    <3>4. QED
      BY <3>1, <3>2, <3>3, <1>5, <1>6
  <2>3. now <= Floor' + scenario.lag + MaxTicks * Tick
    <3>1. now <= Floor + scenario.lag + MaxTicks * Tick
      BY <1>1, <1>4 DEF GridInv
    <3>2. MaxTicks * Tick \in Int
      BY <1>6, TimesFacts
    <3>3. QED
      BY <3>1, <3>2, <1>5, <1>6, <1>8
  <2>4. UNCHANGED <<scenario, now, sessions, audioTime>>
    BY <1>3
  <2>5. QED
    BY <2>1, <2>2, <2>3, <2>4, <1>1, <1>2, <1>4 DEF GridInv
<1>10. OnlyInv' /\ PacketInv'
  <2>1. (mpc' = "off") = (mpc = "off")
    BY <1>2
  <2>2. QED
    BY <2>1, <1>1, <1>3, OnlyStays, PacketStays
<1>11. ASSUME NEW c \in Clients
       PROVE  LET ch == channel[c]
                  n == ts.start + Tick - ch.audioTs
              IN /\ Bounded(ch) /\ after[c] \in Channel /\ after[c].nextTs = ch.nextTs
                 /\ IF after[c].audioTs = 0 THEN after[c].buf = <<>>
                    ELSE ch.audioTs # 0 /\ after[c].audioTs >= ch.audioTs
                 /\ ts.start + Tick <= ch.audioTs => after[c] = ch
                 /\ c \in Listed /\ ts.start <= ch.audioTs /\ ch.audioTs < ts.start + Tick /\ Block <= Len(ch.buf) =>
                      after[c].audioTs = ts.start + Tick /\ after[c].buf = SubSeq(ch.buf, n + 1, Len(ch.buf))
  <2> DEFINE ch == channel[c]
  <2>1. Bounded(ch) /\ (ch.audioTs = 0 => ch.buf = <<>>) /\ ch \in Channel /\ ch.audioTs \in Nat
    BY <1>1, ChannelFacts DEF Bounded, ChannelInv, BeginInv
  <2>2. CASE c \in Listed
    <3>1. after[c] = Discarded(ch, Span(ts.start), full)
      BY <2>2, <1>5
    <3> DEFINE s == ts.start
    <3>2. s \in Nat \ {0} /\ full \in BOOLEAN
      BY <1>5
    <3> DEFINE d == Discarded(ch, Span(s), full)
    <3>3. d \in Channel
      <4>1. Ordered(ch.buf)
        BY <1>1 DEF SoundInv
      <4>2. Span(s) \in [start : Int, end : Nat]
        BY <3>2, <1>6, SpanFacts DEF Interval
      <4> HIDE DEF ch, s, full
      <4>3. QED
        BY <4>1, <4>2, <2>1, <3>2, DiscardedFacts DEF Bounded
    <3> HIDE DEF s, full, ch
    <3>4. /\ d.nextTs = ch.nextTs
          /\ IF d.audioTs = 0 THEN d.buf = <<>> ELSE ch.audioTs # 0 /\ d.audioTs >= ch.audioTs
          /\ s + Tick <= ch.audioTs => d = ch
          /\ s <= ch.audioTs /\ ch.audioTs < s + Tick /\ Block <= Len(ch.buf) =>
               d.audioTs = s + Tick /\ d.buf = SubSeq(ch.buf, s + Tick - ch.audioTs + 1, Len(ch.buf))
      BY <2>1, <3>2, <1>6, LeftFacts
    <3> HIDE DEF d, after
    <3>5. after[c] = d
      BY <3>1 DEF d, s
    <3>6. QED
      BY <2>1, <3>3, <3>4, <3>5 DEF s, ch
  <2>3. CASE c \notin Listed
    <3>1. after[c] = ch
      BY <2>3
    <3> HIDE DEF after
    <3>2. QED
      BY <2>1, <2>3, <3>1
  <2>4. QED
    BY <2>2, <2>3
<1> HIDE DEF after, full
<1>12. \A c \in Clients : /\ channel'[c].buf = after[c].buf /\ channel'[c].audioTs = after[c].audioTs
                          /\ channel'[c].nextTs = after[c].nextTs
  <2> SUFFICES ASSUME NEW c \in Clients
               PROVE  /\ channel'[c].buf = after[c].buf /\ channel'[c].audioTs = after[c].audioTs
                      /\ channel'[c].nextTs = after[c].nextTs
    OBVIOUS
  <2>1. channel'[c] = [after[c] EXCEPT !.out = <<>>] /\ after[c] \in Channel
    BY <1>2, <1>11
  <2>2. QED
    BY <2>1 DEF Channel
<1>13. BeginInv'
  <2>1. ASSUME NEW c \in Clients
        PROVE  IF channel'[c].audioTs = 0 THEN channel'[c].buf = <<>> ELSE channel'[c].audioTs > Delay
    <3>1. IF after[c].audioTs = 0 THEN after[c].buf = <<>>
          ELSE channel[c].audioTs # 0 /\ after[c].audioTs >= channel[c].audioTs
      BY <1>11
    <3>2. channel[c].audioTs # 0 => channel[c].audioTs > Delay
      BY <1>1 DEF BeginInv
    <3>3. channel[c].audioTs \in Nat /\ after[c].audioTs \in Nat
      BY <1>11 DEF Bounded, Channel
    <3>4. QED
      BY <3>1, <3>2, <3>3, <1>6, <1>12
  <2>2. cpc' # "place"
    BY <1>1, <1>2, <1>3 DEF PacketInv, AudioBufHeld
  <2>3. QED
    BY <2>1, <2>2 DEF BeginInv
<1>14. ASSUME NEW c \in scenario.steady
       PROVE  ~Loses(c, channel[c], after[c]) /\ (Fresh(c) \/ Sounding(c))'
  <2>1. c \in Clients /\ (Fresh(c) \/ Sounding(c)) /\ PartInv(c)
    BY <1>1, UsualFacts DEF SteadyInv
  <2>2. Awaited(c)' = Awaited(c) /\ Coming(c)' = Coming(c) /\ Listed' = Listed /\ rendered'[c] = rendered[c]
    BY <2>1, <1>3, ComingStays DEF Listed
  <2>3. CASE Fresh(c)
    <3>1. channel[c].audioTs = 0 /\ channel[c].buf = <<>> /\ channel[c].nextTs = 0
      BY <2>3 DEF Fresh
    <3>2. after[c].audioTs = 0 /\ after[c].buf = <<>> /\ after[c].nextTs = 0
      BY <2>1, <3>1, <1>11
    <3>3. Fresh(c)'
      BY <2>1, <2>2, <2>3, <3>2, <1>12 DEF Fresh
    <3>4. ~Loses(c, channel[c], after[c])
      BY <3>1 DEF Loses, Sounds
    <3>5. QED
      BY <3>3, <3>4
  <2>4. CASE Sounding(c) /\ ts.start + Tick <= channel[c].audioTs
    <3>1. after[c] = channel[c]
      BY <2>1, <2>4, <1>11
    <3>2. ~Loses(c, channel[c], after[c])
      BY <3>1 DEF Loses
    <3>3. channel'[c].audioTs >= Floor'
      <4>1. channel[c].audioTs \in Nat /\ channel[c].audioTs >= Floor
        BY <2>1, <2>4, <1>1, ChannelFacts DEF Sounding
      <4>2. QED
        BY <2>1, <2>4, <3>1, <4>1, <1>5, <1>6, <1>8, <1>12
    <3>4. Sounding(c)'
      BY <2>1, <2>2, <2>4, <3>1, <3>3, <1>12 DEF Sounding
    <3>5. QED
      BY <3>2, <3>4
  <2>5. CASE Sounding(c) /\ channel[c].audioTs < ts.start + Tick
    <3> DEFINE t == channel[c].audioTs
               buf == channel[c].buf
               e == Floor + Tick
               n == e - t
               rest == after[c].buf
    <3>1. /\ t \in Nat /\ buf \in Seq(Nat) /\ Len(buf) \in Nat /\ DOMAIN buf = 1..Len(buf)
          /\ t >= Floor /\ InPlace(buf, t) /\ c \in Listed
      BY <2>1, <2>5, <1>1, ChannelFacts DEF Sounding
    <3>2. wait = 0 /\ ts.start = Floor /\ t < e /\ t # 0 /\ e \in Nat
      <4>1. /\ t < ts.start + Tick /\ ts.start \in Nat \ {0} /\ Tick \in Nat /\ t \in Nat
            /\ t >= Floor /\ Floor \in Int /\ wait \in Nat
            /\ (wait = 0 => ts.start = Floor) /\ (wait # 0 => ts.start + Tick <= Floor)
        BY <2>5, <3>1, <1>5, <1>6
      <4> HIDE DEF t
      <4>2. wait = 0
        BY <4>1
      <4>3. QED
        BY <4>1, <4>2
    <3>3. Len(buf) > Block
      BY <3>2, <1>4, EnoughFacts
    <3>4. n \in Nat \ {0} /\ n <= Block /\ n < Len(buf) /\ t + n = e
      <4> DEFINE b == Len(buf)
      <4>1. /\ t \in Nat /\ e \in Nat /\ n = e - t /\ t < e /\ Floor <= t /\ Floor \in Int
            /\ e = Floor + Block /\ Block \in Nat /\ b \in Nat /\ b > Block
        BY <3>1, <3>2, <3>3, <1>5, <1>6
      <4> HIDE DEF t, e, n, b
      <4>2. n \in Nat \ {0} /\ n <= Block /\ n < b /\ t + n = e
        BY <4>1
      <4>3. QED
        BY <4>2 DEF b
    <3>5. after[c].audioTs = e /\ rest = SubSeq(buf, n + 1, Len(buf))
      <4>1. ts.start <= t /\ t < ts.start + Tick /\ Block <= Len(buf) /\ ts.start + Tick = e
        BY <3>1, <3>2, <3>3, <1>6
      <4>2. /\ after[c].audioTs = ts.start + Tick
            /\ after[c].buf = SubSeq(buf, ts.start + Tick - t + 1, Len(buf))
        BY <2>1, <3>1, <4>1, <1>11
      <4> HIDE DEF t, buf, e
      <4>3. ts.start + Tick - t + 1 = n + 1
        BY <3>1, <3>2, <4>1, <1>5, <1>6
      <4> HIDE DEF n
      <4>4. QED
        BY <4>1, <4>2, <4>3, Zenon
    <3>6. \A x \in t..(e - 1) : <<x, x>> \in heard[c]
      <4>1. MixedInv(c)
        BY <2>1, <3>2, <1>2, <1>4 DEF PartInv
      <4>2. \A x \in channel[c].audioTs..(Floor + Tick - 1) : <<x, x>> \in heard[c]
        BY <4>1, Zenon DEF MixedInv
      <4>3. e - 1 = Floor + Tick - 1
        BY <1>5, <1>6
      <4>4. QED
        BY <4>2, <4>3, Zenon
    <3> HIDE DEF t, buf, e, n, rest
    <3>7. /\ Len(rest) = Len(buf) - n /\ DOMAIN rest = 1..(Len(buf) - n)
          /\ \A k \in 1..(Len(buf) - n) : rest[k] = buf[k + n] /\ k + n \in 1..Len(buf)
      <4>1. buf \in Seq(Nat) /\ n \in Nat /\ n < Len(buf)
        BY <3>1, <3>4
      <4>2. QED
        BY <4>1, <3>5, RestFacts
    <3>8. \A k \in 1..Len(buf) : buf[k] = t + k - 1
      BY <3>1 DEF InPlace
    <3>9. InPlace(rest, e)
      <4> SUFFICES ASSUME NEW k \in 1..(Len(buf) - n)
                   PROVE  rest[k] = e + k - 1
        BY <3>7 DEF InPlace
      <4>1. rest[k] = buf[k + n] /\ k + n \in 1..Len(buf) /\ buf[k + n] = t + (k + n) - 1
        BY <3>7, <3>8
      <4>2. QED
        BY <4>1, <3>1, <3>4
    <3>10. Sounding(c)'
      <4>1. /\ channel'[c].audioTs = e /\ channel'[c].buf = rest /\ channel'[c].nextTs = channel[c].nextTs
        BY <2>1, <3>5, <1>11, <1>12 DEF rest
      <4>2. Floor' = e
        BY <3>2, <1>8 DEF e
      <4>3. e + Len(rest) = t + Len(buf)
        BY <3>1, <3>2, <3>4, <3>7
      <4>4. t + Len(buf) = Delay + rendered[c] + (IF Coming(c) THEN 0 ELSE PacketTime)
        BY <2>5 DEF Sounding, t, buf
      <4>5. e >= e
        BY <3>2
      <4>6. /\ rendered[c] # 0 /\ c \in Listed
            /\ channel[c].nextTs = rendered[c] + (IF Awaited(c) THEN 0 ELSE PacketTime)
        BY <2>5 DEF Sounding
      <4>7. QED
        BY <2>2, <3>9, <4>1, <4>2, <4>3, <4>4, <4>5, <4>6 DEF Sounding
    <3>11. ~Loses(c, channel[c], after[c])
      <4> SUFFICES ASSUME NEW k \in 1..Len(buf)
                   PROVE  buf[k] \in {rest[j] : j \in DOMAIN rest} \/ \E h \in heard[c] : h[1] = buf[k]
        BY <3>1 DEF Loses, Sounds, buf, rest
      <4>1. CASE k <= n
        <5>1. buf[k] \in t..(e - 1)
          BY <4>1, <3>1, <3>4, <3>8
        <5>2. <<buf[k], buf[k]>> \in heard[c]
          BY <5>1, <3>6
        <5>3. QED
          BY <5>2
      <4>2. CASE k > n
        <5>1. k - n \in 1..(Len(buf) - n) /\ k - n + n = k
          BY <4>2, <3>1, <3>4
        <5>2. rest[k - n] = buf[k]
          BY <5>1, <3>7
        <5>3. QED
          BY <5>1, <5>2, <3>7
      <4>3. QED
        BY <4>1, <4>2, <3>4
    <3>12. QED
      BY <3>10, <3>11
  <2>6. channel[c].audioTs \in Nat
    BY <2>1, <1>1, ChannelFacts
  <2>7. QED
    BY <2>1, <2>3, <2>4, <2>5, <2>6, <1>5, <1>6
<1>15. SteadyInv'
  <2> SUFFICES ASSUME NEW c \in scenario.steady
               PROVE  /\ c \notin lost' /\ \A h \in heard[c] : h[1] = h[2]
                      /\ (Fresh(c) \/ Sounding(c))' /\ PartInv(c)'
    BY <1>3 DEF SteadyInv
  <2>1. c \in Clients /\ c \notin lost /\ \A h \in heard[c] : h[1] = h[2]
    BY <1>1, UsualFacts DEF SteadyInv
  <2>2. c \notin lost' /\ (Fresh(c) \/ Sounding(c))'
    BY <2>1, <1>2, <1>14
  <2>3. PartInv(c)'
    BY <1>4 DEF PartInv
  <2>4. QED
    BY <2>1, <2>2, <2>3
<1>16. QED
  BY <1>9, <1>10, <1>13, <1>15 DEF CalmInv
-----------------------------------------------------------------------------
\* The scenario stays.
LEMMA ScenarioStays == ASSUME [Next]_vars PROVE scenario' = scenario
<1>1. CASE UNCHANGED vars
  BY <1>1 DEF vars
<1>2. CASE \E c \in Clients : Release(c)
  BY <1>2 DEF Release
<1>3. CASE Pass \/ Start \/ Stop
  BY <1>3 DEF Pass, Start, Stop
<1>4. CASE CaptureThread
  BY <1>4 DEF CaptureThread, Receive, OutputAudio, Place, CaptureLeaves
<1>5. CASE FetchAudio \/ Pick \/ FindMin \/ Mark
  BY <1>5 DEF FetchAudio, Pick, FindMin, Mark
<1>6. CASE Buffer \/ Mix \/ Discard \/ MixLeaves
  BY <1>6 DEF Buffer, Mix, Discard, MixLeaves
<1>7. QED
  BY <1>1, <1>2, <1>3, <1>4, <1>5, <1>6 DEF Next, MixThread, TheEnd

\* Each step of a calm session leaves CalmInv as it is.
LEMMA CalmStep ==
  ASSUME Usual, Calm, IInv, CalmInv, IInv', [Next]_vars
  PROVE  CalmInv'
<1>1. CASE \E c \in Clients : Release(c)
  BY <1>1, ReleaseCalm
<1>2. CASE Pass
  BY <1>2, PassCalm
<1>3. CASE Start
  BY <1>3, StartCalm
<1>4. CASE Receive
  BY <1>4, ReceiveCalm
<1>5. CASE OutputAudio
  BY <1>5, OutputAudioCalm
<1>6. CASE Place
  BY <1>6, PlaceCalm
<1>7. CASE FetchAudio
  BY <1>7, FetchAudioCalm
<1>8. CASE Pick
  BY <1>8, PickCalm
<1>9. CASE FindMin
  BY <1>9, FindMinCalm
<1>10. CASE Mark
  BY <1>10, MarkCalm
<1>11. CASE Buffer
  BY <1>11, BufferCalm
<1>12. CASE Mix
  BY <1>12, MixCalm
<1>13. CASE Discard
  BY <1>13, DiscardCalm
<1>14. CASE UNCHANGED vars
  <2>1. OnlyInv /\ PacketInv /\ BeginInv /\ GridInv /\ SteadyInv /\ HookInv
    BY DEF IInv, CalmInv
  <2>2. /\ UNCHANGED <<scenario, now, rendered, playing, flight, capturing, sessions, channel, order, cpc, packet>>
        /\ UNCHANGED <<mpc, i, audioTime, mixing, ts, minTs, queue, wait, lost, heard>>
    BY <1>14 DEF vars, hookVars, sessionVars, channelVars, captureVars, mixVars, bufferingVars, history
  <2>3. OnlyInv' /\ PacketInv' /\ BeginInv' /\ GridInv'
    BY <2>1, <2>2, OnlyStays, PacketStays, BeginStays, GridStays
  <2>4. Floor' = Floor /\ AtWork' = AtWork /\ Listed' = Listed
    BY <2>2 DEF Floor, AtWork, Listed
  <2>5. ASSUME NEW c \in Clients
        PROVE  /\ Fresh(c)' = Fresh(c) /\ Sounding(c)' = Sounding(c)
               /\ PickedInv(c)' = PickedInv(c) /\ MixedInv(c)' = MixedInv(c)
    <3>1. Awaited(c)' = Awaited(c) /\ Coming(c)' = Coming(c)
      BY <2>2, ComingStays
    <3>2. QED
      BY <3>1, <2>2, <2>4 DEF Fresh, Sounding, PickedInv, MixedInv
  <2>6. scenario.steady \subseteq Clients
    BY <2>1, UsualFacts
  <2>7. \A c \in scenario.steady : PartInv(c)' = PartInv(c)
    BY <2>2, <2>4, <2>5, <2>6 DEF PartInv
  <2>8. SteadyInv'
    BY <2>1, <2>2, <2>5, <2>6, <2>7 DEF SteadyInv
  <2>9. QED
    BY <2>3, <2>8 DEF CalmInv
<1>15. QED
  BY <1>1, <1>2, <1>3, <1>4, <1>5, <1>6, <1>7, <1>8, <1>9, <1>10, <1>11, <1>12, <1>13, <1>14, GoesOn
     DEF Next, CaptureThread, MixThread, TheEnd

\* A client that plays without a pause, in a session in which packets come at once,
\* loses nothing and is heard exactly the Delay after its time stamps, whatever
\* another client makes the mixer do.
THEOREM SteadyUndisturbed == ASSUME Usual PROVE Spec => []Undisturbed
<1> DEFINE Inv == IInv /\ (Calm => CalmInv)
<1>1. Init => Inv
  BY InitStep, InitCalm
<1>2. ASSUME Inv, [Next]_vars
      PROVE  Inv'
  <2>1. IInv'
    BY <1>2, Inductive
  <2>2. Calm' = Calm
    BY <1>2, ScenarioStays DEF Calm
  <2>3. QED
    BY <1>2, <2>1, <2>2, CalmStep
<1>3. Inv => Undisturbed
  BY DEF CalmInv, SteadyInv, Calm, Undisturbed
<1> HIDE DEF Inv
<1>4. QED
  BY <1>1, <1>2, <1>3, PTL DEF Spec
-----------------------------------------------------------------------------
(***************************************************************************)
(* How long a sound may be put off.                                        *)
(*                                                                         *)
(* Each time a channel runs short its time stamp moves on by up to a tick, *)
(* and what it holds is heard that much later.  Between two such moves a   *)
(* packet must come in, or the channel is taken to have stopped; and when  *)
(* there is a block in the buffer, it does not run short.  So the moves    *)
(* that a sound has seen are counted by the packets that are behind it in  *)
(* the buffer.  What could spoil this is a packet that is placed among     *)
(* them and cuts the buffer: but packets that come one after the other are *)
(* put one behind the other, and one that comes after a pause, and not too *)
(* late, is placed a block or more behind where the channel begins.        *)
(***************************************************************************)

\* A session in which packets are late by no more than the Delay leaves when two ticks
\* are taken from it, and by less than what time stamps are smoothed.
Punctual(s) == s.sessions = 1 /\ s.late + Tick + Tick <= Delay /\ s.late < Smooth

\* The tick at work ends where it should.  (One that was put before the others because
\* a channel was less than a frame behind does not: see MixerSubFrame.cfg.)
EndsWritten == mpc \in {"mix", "discard"} => ts.end = ts.start + Tick

\* How much later than it should sample k of a channel is to be heard.
Lag(ch, k) == ch.audioTs + FramesToTime(k - 1) - ch.buf[k]

\* Where what a channel holds ends.
End(ch) == ch.audioTs + FramesToTime(Len(ch.buf))

\* The time that the next packet is compared with is that at which the last one ended.
Synced(ch) == ch.nextSys = ch.nextTs + ch.adjust

\* Sample k was put off r + s times, with r packets behind it, and for the last time
\* since the last of them if s is 1.
PutOff(ch, k, late, r, s) ==
  /\ r + s >= 1
  /\ Lag(ch, k) <= late + (r + s) * Tick
  /\ k + (r + s - 1) * Packet < Block
  /\ Len(ch.buf) >= k + r * Packet
  /\ r >= 1 => Synced(ch)
  /\ s = 1 => ch.lastSize = Len(ch.buf)

Timely(ch, late) == \A k \in DOMAIN ch.buf : ch.buf[k] # 0 => Lag(ch, k) <= late

Delayed(ch, late) ==
  \A k \in DOMAIN ch.buf : ch.buf[k] # 0 =>
    Lag(ch, k) <= late \/ \E r \in Nat, s \in {0, 1} : PutOff(ch, k, late, r, s)
-----------------------------------------------------------------------------
\* A packet that follows the one before it is put behind it; any other is placed no
\* earlier than its time stamp says, and no later than it was late.
LEMMA StampedTime ==
  ASSUME NEW c \in Channel, NEW ti \in Nat, NEW n \in Nat, NEW os \in Nat, ti <= os,
         NEW late \in Nat, os - ti <= late, c.adjust <= late, c.nextTs <= ti, late < Smooth
  PROVE  LET s == Stamped(c, ti, n, os)
         IN /\ s.channel.nextTs <= ti + FramesToTime(n)
            /\ Synced(s.channel) /\ s.channel.lastSize = c.lastSize
            /\ s.ts >= Delay /\ s.ts <= ti + late + Delay
            /\ Synced(c) => s.pushBack \/ s.ts >= ti + Delay
<1> DEFINE direct == Diff(ti, os) < MaxVar
           jumped == c.nextTs # 0 /\ Diff(c.nextTs, ti) > MaxVar /\ ~direct
           smooth == c.nextTs # 0 /\ Diff(c.nextTs, ti) < Smooth
           start  == IF smooth THEN c.nextTs ELSE ti
           adjust == IF direct THEN 0 ELSE IF jumped THEN os - ti ELSE c.adjust
           diff   == Diff(c.nextSys, start + adjust)
           resync == c.nextSys # 0 /\ diff > MaxVar
           final  == IF resync THEN os - ti ELSE adjust
           next   == start + FramesToTime(n)
           d == [c EXCEPT !.adjust = final, !.nextTs = next, !.nextSys = next + final]
           t == (IF resync THEN os ELSE start + adjust) + Delay
           pb == c.nextSys # 0 /\ diff < Smooth
           s == Stamped(c, ti, n, os)
<1>1. s = [channel |-> d, ts |-> t, pushBack |-> pb]
  BY DEF Stamped
<1>2. /\ c.nextTs \in Nat /\ c.nextSys \in Nat /\ c.adjust \in Nat
      /\ {Smooth, Delay, MaxVar} \subseteq Nat \ {0} /\ Smooth < MaxVar
      /\ FramesToTime(n) \in Nat
  <2>1. c.nextTs \in Nat /\ c.nextSys \in Nat /\ c.adjust \in Nat
    BY DEF Channel
  <2>2. {Smooth, Delay, MaxVar} \subseteq Nat \ {0} /\ Smooth < MaxVar
    BY ChannelAssumption
  <2>3. FramesToTime(n) \in Nat
    BY ChannelAssumption DEF FramesToTime
  <2>4. QED
    BY <2>1, <2>2, <2>3
<1>3. start \in Nat /\ start <= ti
  BY <1>2
<1>4. adjust \in Nat /\ adjust <= late
  BY <1>2
<1>5. final \in Nat /\ next \in Nat /\ next <= ti + FramesToTime(n)
  BY <1>2, <1>3, <1>4
<1>6. ti + adjust <= ti + late /\ os <= ti + late
  BY <1>2, <1>4
<1>7. t >= Delay /\ t <= ti + late + Delay
  BY <1>2, <1>3, <1>4, <1>6
<1>8. ASSUME Synced(c)
      PROVE  pb \/ t >= ti + Delay
  <2>1. CASE smooth
    <3>1. ~jumped /\ start = c.nextTs /\ c.nextTs # 0
      <4>1. Diff(c.nextTs, ti) \in Int
        BY <1>2 DEF Diff
      <4>2. QED
        BY <4>1, <2>1, <1>2
    <3>2. adjust \in {0, c.adjust}
      BY <3>1
    <3>3. c.nextSys = c.nextTs + c.adjust
      BY <1>8 DEF Synced
    <3>4. diff <= late
      <4> DEFINE x == start + adjust
      <4>1. x = c.nextTs \/ x = c.nextTs + c.adjust
        BY <3>1, <3>2, <1>2
      <4> HIDE DEF x
      <4>2. Diff(c.nextSys, x) <= late
        BY <4>1, <3>3, <1>2 DEF Diff
      <4>3. QED
        BY <4>2 DEF x
    <3>5. diff < Smooth
      <4>1. diff \in Int
        BY <1>2, <1>3, <1>4 DEF Diff
      <4> HIDE DEF diff
      <4>2. QED
        BY <4>1, <3>4, <1>2
    <3>6. c.nextSys # 0
      BY <3>1, <3>3, <1>2
    <3>7. QED
      BY <3>5, <3>6
  <2>2. CASE ~smooth
    <3>1. start = ti
      BY <2>2
    <3>2. QED
      BY <3>1, <1>2, <1>4
  <2>3. QED
    BY <2>1, <2>2
<1> HIDE DEF direct, jumped, smooth, start, adjust, diff, resync, final, next, t, pb
<1>9. /\ d.nextTs = next /\ d.adjust = final /\ d.nextSys = next + final /\ d.lastSize = c.lastSize
  <2>1. c \in [pending : BOOLEAN, pendingStop : BOOLEAN, audioTs : Nat, buf : Seq(Nat),
               lastSize : 0..MaxBuf, adjust : Nat, nextTs : Nat, nextSys : Nat, out : Seq(Nat)]
    BY DEF Channel
  <2>2. QED
    BY <2>1
<1> HIDE DEF d
<1>10. s.channel = d /\ s.ts = t /\ s.pushBack = pb
  BY <1>1
<1>11. Synced(d)
  BY <1>9 DEF Synced
<1>12. QED
  BY <1>10, <1>11, <1>9, <1>5, <1>7, <1>8

\* A packet comes into channel c, which becomes d: it goes behind the first n frames, or
\* it is dropped.
PutBehind(c, d, n, late) ==
  /\ d.audioTs = c.audioTs
  /\ \/ d.buf = c.buf /\ d.lastSize = c.lastSize
     \/ /\ Len(d.buf) = n + Packet
        /\ \A k \in DOMAIN d.buf : d.buf[k] # 0 =>
             Lag(d, k) <= late \/ (k <= n /\ k \in DOMAIN c.buf /\ d.buf[k] = c.buf[k])

\* A packet that is put behind all there is, or a block or more behind where the channel
\* begins, leaves a packet behind a sound for each time that it was put off.
LEMMA BehindCounts ==
  ASSUME NEW c, NEW n \in Nat, NEW late, NEW k \in 1..n, NEW r \in Nat, NEW s \in {0, 1},
         Len(c.buf) \in Nat, n = Len(c.buf) \/ (Synced(c) => n >= Block), PutOff(c, k, late, r, s)
  PROVE  n + Packet >= k + (r + s) * Packet
<1> DEFINE l == Len(c.buf)
<1>1. /\ r + s >= 1 /\ k + (r + s - 1) * Packet < Block
      /\ l >= k + r * Packet /\ (r >= 1 => Synced(c)) /\ l \in Nat
  BY DEF PutOff
<1>2. Packet \in Nat \ {0} /\ Block \in Nat
  BY PacketFacts, ChannelAssumption
<1>3. r * Packet \in Nat /\ (r + s - 1) * Packet \in Int
  BY <1>1, <1>2
<1>4. (r + s) * Packet = (r + s - 1) * Packet + Packet
  BY <1>2
<1>5. CASE r = 0 \/ (r = 1 /\ s = 0)
  <2>1. r + s = 1
    BY <1>1, <1>5
  <2>2. (r + s) * Packet = Packet
    BY <2>1, <1>2
  <2>3. QED
    BY <2>2, <1>2
<1>6. CASE r >= 1 /\ n >= Block
  BY <1>1, <1>2, <1>3, <1>4, <1>6
<1>7. CASE n = l
  <2>1. (r + s - 1) * Packet <= r * Packet
    <3>1. CASE s = 1
      BY <3>1, <1>3
    <3>2. CASE s = 0
      <4>1. r + s - 1 = r - 1 /\ (r - 1) * Packet = r * Packet - Packet
        BY <3>2, <1>2
      <4>2. QED
        BY <4>1, <1>2, <1>3
    <3>3. QED
      BY <3>1, <3>2
  <2> HIDE DEF l
  <2>2. QED
    BY <2>1, <1>1, <1>2, <1>3, <1>4, <1>7
<1>8. QED
  BY <1>1, <1>5, <1>6, <1>7 DEF l

\* What is behind a sound when a packet comes counts for what put it off before.
LEMMA AfterPacket ==
  ASSUME NEW c \in Channel, NEW d \in Channel, NEW late \in Nat, NEW n \in Nat, PutBehind(c, d, n, late)
  PROVE  /\ Timely(c, late) => Timely(d, late)
         /\ /\ Delayed(c, late) /\ Synced(d)
            /\ n = Len(c.buf) \/ (Synced(c) => n >= Block)
            => Delayed(d, late)
<1>1. d.audioTs = c.audioTs /\ Len(c.buf) \in Nat /\ DOMAIN c.buf \subseteq Nat \ {0}
  <2>1. c.buf \in Seq(Nat)
    BY DEF Channel
  <2>2. QED
    BY <2>1 DEF PutBehind
<1>2. \A k \in DOMAIN c.buf : d.buf[k] = c.buf[k] => Lag(d, k) = Lag(c, k)
  BY <1>1 DEF Lag
<1>3. \A k \in DOMAIN d.buf : d.buf[k] # 0 =>
        Lag(d, k) <= late \/ (k \in DOMAIN c.buf /\ d.buf[k] = c.buf[k])
  BY DEF PutBehind
<1>4. Timely(c, late) => Timely(d, late)
  BY <1>2, <1>3 DEF Timely
<1>5. ASSUME Delayed(c, late), Synced(d), n = Len(c.buf) \/ (Synced(c) => n >= Block),
             NEW k \in DOMAIN d.buf, d.buf[k] # 0, ~(Lag(d, k) <= late)
      PROVE  \E r \in Nat, s \in {0, 1} : PutOff(d, k, late, r, s)
  <2>1. k \in DOMAIN c.buf /\ d.buf[k] = c.buf[k] /\ Lag(d, k) = Lag(c, k)
    BY <1>5, <1>2, <1>3
  <2>2. PICK r \in Nat, s \in {0, 1} : PutOff(c, k, late, r, s)
    BY <2>1, <1>5 DEF Delayed
  <2>3. CASE d.buf = c.buf /\ d.lastSize = c.lastSize
    <3>1. PutOff(d, k, late, r, s)
      BY <2>1, <2>2, <2>3, <1>5 DEF PutOff
    <3>2. QED
      BY <3>1
  <2>4. CASE ~(d.buf = c.buf /\ d.lastSize = c.lastSize)
    <3>1. Len(d.buf) = n + Packet /\ k \in 1..n
      BY <2>4, <1>1, <1>5, <2>1 DEF PutBehind
    <3>2. n + Packet >= k + (r + s) * Packet
      BY <3>1, <2>2, <1>1, <1>5, BehindCounts
    <3>3. r + s \in Nat /\ (r + s) + 0 = r + s
      OBVIOUS
    <3>4. PutOff(d, k, late, r + s, 0)
      BY <2>1, <2>2, <3>1, <3>2, <3>3, <1>5 DEF PutOff
    <3>5. QED
      BY <3>3, <3>4
  <2>5. QED
    BY <2>3, <2>4
<1>6. /\ Delayed(c, late) /\ Synced(d)
      /\ n = Len(c.buf) \/ (Synced(c) => n >= Block)
      => Delayed(d, late)
  BY <1>5 DEF Delayed
<1>7. QED
  BY <1>4, <1>6

\* Frames last a time, and more of them last longer.
LEMMA FrameTimes ==
  /\ \A n \in Int : FramesToTime(n) \in Int
  /\ \A m, n \in Int : FramesToTime(m + n) = FramesToTime(m) + FramesToTime(n)
  /\ \A m, n \in Int : m < n => FramesToTime(m) < FramesToTime(n)
  /\ \A n \in Nat : FramesToTime(n) \in Nat
  /\ FramesToTime(0) = 0 /\ Tick = FramesToTime(Block) /\ PacketTime = FramesToTime(Packet)
<1>1. Frame \in Nat \ {0}
  BY ChannelAssumption
<1>2. \A n \in Int : n * Frame \in Int
  BY <1>1
<1>3. \A m, n \in Int : (m + n) * Frame = m * Frame + n * Frame
  BY <1>1
<1>4. \A m, n \in Int : m < n => m * Frame < n * Frame
  <2> SUFFICES ASSUME NEW m \in Int, NEW n \in Int, m < n
               PROVE  m * Frame < n * Frame
    OBVIOUS
  <2>1. (n - m) * Frame > 0 /\ (n - m) * Frame = n * Frame - m * Frame
    BY <1>1
  <2>2. QED
    BY <2>1, <1>2
<1>5. 0 * Frame = 0 /\ \A n \in Nat : n * Frame \in Nat
  BY <1>1
<1>6. QED
  BY <1>2, <1>3, <1>4, <1>5 DEF FramesToTime, Tick, PacketTime

\* What is late is late by a time.
LEMMA LagFacts ==
  ASSUME NEW ch \in Channel
  PROVE  /\ ch.buf \in Seq(Nat) /\ Len(ch.buf) \in Nat /\ DOMAIN ch.buf = 1..Len(ch.buf)
         /\ ch.audioTs \in Nat /\ End(ch) \in Int
         /\ \A k \in DOMAIN ch.buf : /\ k \in Nat \ {0} /\ ch.buf[k] \in Nat
                                     /\ FramesToTime(k - 1) \in Int /\ Lag(ch, k) \in Int
<1>1. ch.buf \in Seq(Nat) /\ ch.audioTs \in Nat
  BY DEF Channel
<1> DEFINE b == ch.buf
           a == ch.audioTs
<1> HIDE DEF a, b
<1>2. b \in Seq(Nat) /\ a \in Nat
  BY <1>1 DEF a, b
<1>3. Len(b) \in Nat /\ DOMAIN b = 1..Len(b) /\ \A k \in DOMAIN b : k \in Nat \ {0} /\ b[k] \in Nat
  BY <1>2
<1>4. \A k \in DOMAIN b : FramesToTime(k - 1) \in Int
  BY <1>3, FrameTimes
<1>5. ASSUME NEW k \in DOMAIN b
      PROVE  a + FramesToTime(k - 1) - b[k] \in Int
  <2>1. FramesToTime(k - 1) \in Int /\ b[k] \in Int /\ a \in Int
    BY <1>2, <1>3, <1>4
  <2>2. QED
    BY <2>1
<1>6. a + FramesToTime(Len(b)) \in Int
  <2>1. FramesToTime(Len(b)) \in Int /\ a \in Int
    BY <1>2, <1>3, FrameTimes
  <2>2. QED
    BY <2>1
<1>7. QED
  BY <1>2, <1>3, <1>4, <1>5, <1>6 DEF Lag, End, a, b

\* Where the sounds of a channel are, and what the next packet is compared with.
SameSounds(c, d) ==
  /\ d.buf = c.buf /\ d.audioTs = c.audioTs
  /\ d.nextSys = c.nextSys /\ d.nextTs = c.nextTs /\ d.adjust = c.adjust

\* A sound that was put off was so when nothing of it changes.
LEMMA StillPutOff ==
  ASSUME NEW c, NEW d, NEW k, NEW late, NEW r, NEW s, SameSounds(c, d),
         s = 1 => d.lastSize = c.lastSize, PutOff(c, k, late, r, s)
  PROVE  PutOff(d, k, late, r, s)
<1>1. Lag(d, k) = Lag(c, k) /\ (Synced(c) => Synced(d)) /\ d.buf = c.buf
  BY DEF SameSounds, Lag, Synced
<1>2. QED
  BY <1>1 DEF PutOff

\* discard_if_stopped leaves the sounds where they are, or drops them all.
LEMMA StoppedSounds ==
  ASSUME NEW c, Bounded(c)
  PROVE  LET d == StopIfStalled(c)
         IN /\ d \in Channel
            /\ SameSounds(c, d) \/ (d.buf = <<>> /\ d.audioTs = 0)
            /\ Stalled(c) => d.lastSize = c.lastSize \/ d.buf = <<>>
            /\ ~Stalled(c) => SameSounds(c, d) /\ (c.buf # <<>> => d.lastSize = Len(c.buf))
<1> DEFINE d == StopIfStalled(c)
<1>1. c \in Channel
  BY DEF Bounded
<1>2. d \in Channel
  BY StopIfStalledFacts DEF Bounded
<1>3. CASE ~Stalled(c) /\ c.buf = <<>>
  <2>1. d = c
    BY <1>3 DEF StopIfStalled
  <2> HIDE DEF d
  <2>2. QED
    BY <1>2, <1>3, <2>1 DEF SameSounds, d
<1>4. CASE ~Stalled(c) /\ c.buf # <<>>
  <2>1. d = [c EXCEPT !.lastSize = Len(c.buf)]
    BY <1>4 DEF StopIfStalled
  <2>2. SameSounds(c, d) /\ d.lastSize = Len(c.buf)
    BY <2>1, <1>1 DEF Channel, SameSounds
  <2> HIDE DEF d
  <2>3. QED
    BY <1>2, <1>4, <2>2 DEF d
<1>5. CASE Stalled(c) /\ ~c.pendingStop
  <2>1. d = [c EXCEPT !.pendingStop = TRUE]
    BY <1>5 DEF StopIfStalled
  <2>2. SameSounds(c, d) /\ d.lastSize = c.lastSize
    BY <2>1, <1>1 DEF Channel, SameSounds
  <2> HIDE DEF d
  <2>3. QED
    BY <1>2, <1>5, <2>2 DEF d
<1>6. CASE Stalled(c) /\ c.pendingStop
  <2>1. d = [c EXCEPT !.buf = <<>>, !.pendingStop = FALSE, !.audioTs = 0, !.lastSize = 0]
    BY <1>6 DEF StopIfStalled
  <2>2. d.buf = <<>> /\ d.audioTs = 0
    BY <2>1, <1>1 DEF Channel
  <2>3. QED
    BY <1>2, <1>6, <2>2
<1>7. QED
  BY <1>3, <1>4, <1>5, <1>6

\* ignore_audio drops the sounds, and ends where they ended.
LEMMA IgnoredEnd ==
  ASSUME NEW c \in Channel
  PROVE  LET d == Ignored(c) IN d.buf = <<>> /\ End(d) = End(c) /\ (c.buf = <<>> => d = c)
<1> DEFINE d == Ignored(c)
<1>1. Len(<<>>) = 0 /\ FramesToTime(0) = 0 /\ c.audioTs \in Nat /\ c.buf \in Seq(Nat)
  BY ChannelAssumption DEF FramesToTime, Channel
<1>2. CASE c.buf = <<>>
  BY <1>2 DEF Ignored, End
<1>3. CASE c.buf # <<>>
  <2>1. d = [c EXCEPT !.buf = <<>>, !.lastSize = 0, !.audioTs = c.audioTs + FramesToTime(Len(c.buf))]
    BY <1>3 DEF Ignored
  <2>2. d.buf = <<>> /\ d.audioTs = c.audioTs + FramesToTime(Len(c.buf))
    BY <2>1 DEF Channel
  <2>3. FramesToTime(Len(c.buf)) \in Int
    BY <1>1, ChannelAssumption DEF FramesToTime
  <2> HIDE DEF d
  <2>4. End(d) = End(c)
    BY <2>2, <2>3, <1>1 DEF End
  <2>5. QED
    BY <2>2, <2>4, <1>3 DEF d
<1>4. QED
  BY <1>2, <1>3

\* What discard_audio, at the tick x, makes of a channel whose sounds are late or were put
\* off.
DiscardKeeps(c, d, x, late) ==
  /\ d.buf = <<>> \/ d.audioTs = c.audioTs \/ d.audioTs = x.end
  /\ (c.audioTs = 0 => c.buf = <<>>) => (d.audioTs = 0 => d.buf = <<>>)
  /\ d.audioTs # 0 => End(d) <= End(c) \/ (d.audioTs = x.end /\ End(d) < x.end + Tick)
  /\ Timely(c, late) /\ d.audioTs = c.audioTs => Timely(d, late)
  /\ \/ Timely(c, late)
     \/ Delayed(c, late) /\ (x.start <= c.audioTs /\ c.audioTs < x.end => c.audioTs = x.start)
     => Delayed(d, late)

\* It leaves the sounds where they are,
LEMMA KeepsSame ==
  ASSUME NEW c \in Channel, NEW d, NEW x, NEW late, SameSounds(c, d), d.lastSize = c.lastSize \/ ~Stalled(c)
  PROVE  DiscardKeeps(c, d, x, late)
<1>1. d.buf = c.buf /\ d.audioTs = c.audioTs /\ \A k : Lag(d, k) = Lag(c, k)
  BY DEF SameSounds, Lag
<1>2. Timely(c, late) => Timely(d, late)
  BY <1>1 DEF Timely
<1>3. ASSUME NEW k \in DOMAIN c.buf, NEW r, NEW s, PutOff(c, k, late, r, s)
      PROVE  PutOff(d, k, late, r, s)
  <2>1. c.buf # <<>>
    BY DEF Channel
  <2>2. s = 1 => d.lastSize = c.lastSize
    BY <2>1, <1>3 DEF PutOff, Stalled
  <2>3. QED
    BY <2>2, <1>3, StillPutOff
<1>4. Delayed(c, late) => Delayed(d, late)
  BY <1>1, <1>3 DEF Delayed
<1>5. Timely(c, late) => Delayed(c, late)
  BY DEF Timely, Delayed
<1>6. End(d) = End(c) /\ (c.audioTs # 0 => End(c) \in Int)
  <2>1. End(c) \in Int
    BY LagFacts
  <2>2. QED
    BY <2>1, <1>1 DEF End
<1>7. d.audioTs # 0 => End(d) <= End(c)
  BY <1>1, <1>6
<1>8. QED
  BY <1>1, <1>2, <1>4, <1>5, <1>7 DEF DiscardKeeps

\* or drops them all,
LEMMA KeepsNone ==
  ASSUME NEW c \in Channel, NEW d, NEW x, NEW late, d.buf = <<>>, d.audioTs # 0 => End(d) = End(c)
  PROVE  DiscardKeeps(c, d, x, late)
<1>1. DOMAIN d.buf = {}
  OBVIOUS
<1>2. Timely(d, late) /\ Delayed(d, late)
  BY <1>1 DEF Timely, Delayed
<1>3. End(c) \in Int
  BY LagFacts
<1>4. QED
  BY <1>2, <1>3 DEF DiscardKeeps

\* or puts them off to the end of the tick, when there are not enough for it,
LEMMA KeepsShort ==
  ASSUME NEW c \in Channel, NEW d \in Channel, NEW x, x.start \in Int, x.end = x.start + Tick,
         NEW late \in Nat, ~Stalled(c), x.start <= c.audioTs, c.audioTs < x.end,
         d.audioTs = x.end, d.buf = c.buf,
         d.nextSys = c.nextSys, d.nextTs = c.nextTs, d.adjust = c.adjust,
         c.buf # <<>> => d.lastSize = Len(c.buf), Len(c.buf) < Block
  PROVE  DiscardKeeps(c, d, x, late)
<1>1. /\ Len(c.buf) \in Nat /\ DOMAIN c.buf = 1..Len(c.buf) /\ c.audioTs \in Nat
      /\ Block \in Nat \ {0} /\ Tick \in Nat \ {0} /\ Packet \in Nat
      /\ \A k \in DOMAIN c.buf : Lag(c, k) \in Int
  BY LagFacts, ChannelAssumption, TickFacts, PacketFacts
<1>2. d.buf = c.buf /\ d.audioTs = x.end
  OBVIOUS
<1>3. Synced(c) => Synced(d)
  BY DEF Synced
<1>4. ASSUME NEW k \in DOMAIN c.buf
      PROVE  Lag(d, k) \in Int /\ Lag(d, k) <= Lag(c, k) + Tick
  <2>1. k \in DOMAIN d.buf
    BY <1>2
  <2>2. Lag(c, k) \in Int /\ Lag(d, k) \in Int
    BY <2>1, LagFacts
  <2> DEFINE f == FramesToTime(k - 1)
             v == c.buf[k]
  <2>3. f \in Int /\ v \in Int
    BY LagFacts
  <2>4. Lag(c, k) = c.audioTs + f - v /\ Lag(d, k) = x.end + f - v
    BY <1>2 DEF Lag
  <2>5. x.end \in Int /\ c.audioTs \in Int /\ x.end <= c.audioTs + Tick /\ Tick \in Int
    BY <1>1
  <2> DEFINE p == c.audioTs
             q == x.end
             l == Lag(c, k)
             m == Lag(d, k)
  <2>6. /\ {f, v, p, q, l, m, Tick} \subseteq Int
        /\ l = p + f - v /\ m = q + f - v /\ q <= p + Tick
    BY <2>2, <2>3, <2>4, <2>5
  <2> HIDE DEF f, v, p, q, l, m
  <2>7. m <= l + Tick
    BY <2>6
  <2>8. QED
    BY <2>2, <2>7 DEF l, m
<1>5. ASSUME NEW k \in DOMAIN c.buf, Lag(c, k) <= late
      PROVE  PutOff(d, k, late, 0, 1)
  <2>1. k \in 1..Len(c.buf) /\ c.buf # <<>>
    BY <1>1
  <2>2. Lag(d, k) <= late + (0 + 1) * Tick
    <3>1. (0 + 1) * Tick = Tick
      BY <1>1
    <3>2. QED
      BY <3>1, <1>1, <1>4, <1>5
  <2>3. k + (0 + 1 - 1) * Packet < Block /\ Len(c.buf) >= k + 0 * Packet
    BY <1>1, <2>1
  <2>4. QED
    BY <1>2, <2>1, <2>2, <2>3 DEF PutOff
<1>6. ASSUME NEW k \in DOMAIN c.buf, NEW r \in Nat, NEW s \in {0, 1}, PutOff(c, k, late, r, s)
      PROVE  PutOff(d, k, late, r, 1)
  <2>1. k \in 1..Len(c.buf) /\ c.buf # <<>>
    BY <1>1
  <2>2. s = 0 /\ r >= 1
    BY <2>1, <1>6 DEF PutOff, Stalled
  <2>3. /\ Lag(c, k) <= late + r * Tick /\ Len(c.buf) >= k + r * Packet /\ Synced(c)
    BY <2>2, <1>6 DEF PutOff
  <2>4. /\ r * Packet \in Int /\ (r + 1 - 1) * Packet = r * Packet
        /\ r * Tick \in Int /\ (r + 1) * Tick = r * Tick + Tick
    BY <1>1
  <2>5. Lag(d, k) <= late + (r + 1) * Tick
    <3>1. Lag(d, k) \in Int /\ Lag(c, k) \in Int /\ Lag(d, k) <= Lag(c, k) + Tick
      BY <1>1, <1>4
    <3>2. QED
      BY <3>1, <2>3, <2>4, <1>1
  <2>6. k + (r + 1 - 1) * Packet < Block
    BY <2>1, <2>3, <2>4, <1>1
  <2>7. QED
    BY <1>2, <1>3, <2>1, <2>2, <2>3, <2>5, <2>6 DEF PutOff
<1>7. Delayed(c, late) => Delayed(d, late)
  <2> SUFFICES ASSUME Delayed(c, late), NEW k \in DOMAIN c.buf, c.buf[k] # 0
               PROVE  \E r \in Nat, s \in {0, 1} : PutOff(d, k, late, r, s)
    BY <1>2 DEF Delayed
  <2>1. CASE Lag(c, k) <= late
    BY <2>1, <1>5
  <2>2. CASE \E r \in Nat, s \in {0, 1} : PutOff(c, k, late, r, s)
    BY <2>2, <1>6
  <2>3. QED
    BY <2>1, <2>2 DEF Delayed
<1>8. Timely(c, late) => Delayed(c, late)
  BY DEF Timely, Delayed
<1>9. End(d) < x.end + Tick
  <2>1. FramesToTime(Len(c.buf)) < Tick /\ FramesToTime(Len(c.buf)) \in Int
    <3>1. Len(c.buf) \in Int /\ Block \in Int
      BY <1>1
    <3>2. QED
      BY <3>1, FrameTimes
  <2>2. End(d) = x.end + FramesToTime(Len(c.buf))
    BY <1>2 DEF End
  <2>3. QED
    BY <2>1, <2>2, <1>1
<1>10. d.audioTs # 0 /\ d.audioTs # c.audioTs
  BY <1>1
<1>11. QED
  BY <1>7, <1>8, <1>9, <1>10 DEF DiscardKeeps

\* What ends no later when it begins again, does so with the same added and taken away.
LEMMA NoLater ==
  ASSUME NEW a \in Int, NEW e \in Int, NEW f \in Int, NEW g \in Int, NEW v \in Int, e <= a + g
  PROVE  e + f - v <= a + (f + g) - v /\ e + f <= a + (f + g)
OBVIOUS

\* or cuts off those of the tick, none of which is left when the tick began with them.
LEMMA KeepsCut ==
  ASSUME NEW c \in Channel, NEW d \in Channel, NEW x, x.start \in Int, x.end = x.start + Tick,
         NEW late \in Nat, x.start <= c.audioTs, c.audioTs < x.end,
         NEW n \in Nat \ {0}, x.end <= c.audioTs + FramesToTime(n), c.audioTs = x.start => n = Block,
         n <= Len(c.buf), Len(d.buf) = Len(c.buf) - n,
         \A j \in 1..(Len(c.buf) - n) : d.buf[j] = c.buf[j + n], d.audioTs = x.end
  PROVE  DiscardKeeps(c, d, x, late)
<1>1. /\ Len(c.buf) \in Nat /\ DOMAIN c.buf = 1..Len(c.buf) /\ DOMAIN d.buf = 1..(Len(c.buf) - n)
      /\ c.audioTs \in Nat /\ End(c) \in Int /\ End(d) \in Int
  BY LagFacts
<1>2. Block \in Nat \ {0} /\ Tick \in Nat \ {0} /\ Packet \in Nat
  BY ChannelAssumption, TickFacts, PacketFacts
<1>5. ASSUME NEW j \in DOMAIN d.buf
      PROVE  /\ j + n \in DOMAIN c.buf /\ d.buf[j] = c.buf[j + n]
             /\ Lag(d, j) <= Lag(c, j + n) /\ Lag(d, j) \in Int /\ Lag(c, j + n) \in Int
             /\ j \in Nat \ {0}
  <2>1. j \in 1..(Len(c.buf) - n) /\ Lag(d, j) \in Int
    BY <1>1, LagFacts
  <2>2. j + n \in DOMAIN c.buf /\ d.buf[j] = c.buf[j + n] /\ j \in Nat \ {0}
    <3> DEFINE l == Len(c.buf)
    <3>1. l \in Nat /\ n \in Nat /\ j \in 1..(l - n)
      BY <2>1, <1>1
    <3> HIDE DEF l
    <3>2. j + n \in 1..l /\ j \in Nat \ {0}
      BY <3>1
    <3>3. DOMAIN c.buf = 1..l
      BY <1>1 DEF l
    <3>4. d.buf[j] = c.buf[j + n]
      BY <2>1
    <3>5. QED
      BY <3>2, <3>3, <3>4, Zenon
  <2>3. Lag(c, j + n) \in Int /\ c.buf[j + n] \in Nat
    BY <2>2, LagFacts
  <2> DEFINE f == FramesToTime(j - 1)
             g == FramesToTime(n)
             v == c.buf[j + n]
  <2>4. f \in Int /\ g \in Int /\ FramesToTime(j + n - 1) = f + g
    <3>1. j - 1 \in Int /\ n \in Int /\ j + n - 1 = (j - 1) + n
      BY <2>2
    <3>2. QED
      BY <3>1, FrameTimes
  <2>5. Lag(c, j + n) = c.audioTs + (f + g) - v /\ Lag(d, j) = x.end + f - v
    BY <2>2, <2>4 DEF Lag
  <2>6. x.end <= c.audioTs + g
    OBVIOUS
  <2>9. x.end \in Int
    BY <1>2
  <2>10. c.audioTs \in Int /\ v \in Int
    BY <1>1, <2>3
  <2> DEFINE a == c.audioTs
             e == x.end
  <2>11. a \in Int /\ e \in Int /\ f \in Int /\ g \in Int /\ v \in Int /\ e <= a + g
    BY <2>4, <2>6, <2>9, <2>10
  <2>12. Lag(c, j + n) = a + (f + g) - v /\ Lag(d, j) = e + f - v
    BY <2>5
  <2> HIDE DEF a, e, f, g, v
  <2>13. e + f - v <= a + (f + g) - v
    BY <2>11, NoLater
  <2>7. Lag(d, j) <= Lag(c, j + n)
    BY <2>12, <2>13, Zenon
  <2>8. QED
    BY <2>1, <2>2, <2>3, <2>7
<1>6. ASSUME Timely(c, late)
      PROVE  Timely(d, late)
  <2> SUFFICES ASSUME NEW j \in DOMAIN d.buf, d.buf[j] # 0
               PROVE  Lag(d, j) <= late
    BY DEF Timely
  <2>1. Lag(c, j + n) <= late
    BY <1>5, <1>6 DEF Timely
  <2>2. QED
    BY <2>1, <1>5
<1>7. ASSUME Delayed(c, late), x.start <= c.audioTs /\ c.audioTs < x.end => c.audioTs = x.start
      PROVE  Timely(d, late)
  <2>1. n = Block
    BY <1>7
  <2> SUFFICES ASSUME NEW j \in DOMAIN d.buf, d.buf[j] # 0
               PROVE  Lag(d, j) <= late
    BY DEF Timely
  <2>2. CASE Lag(c, j + n) <= late
    BY <2>2, <1>5
  <2>3. ASSUME NEW r \in Nat, NEW s \in {0, 1}, PutOff(c, j + n, late, r, s)
        PROVE  FALSE
    <3>1. r + s - 1 \in Nat /\ j + n + (r + s - 1) * Packet < Block
      BY <2>3 DEF PutOff
    <3>2. (r + s - 1) * Packet \in Nat
      BY <3>1, <1>2
    <3>3. j \in Nat \ {0}
      BY <1>5
    <3>4. QED
      BY <3>1, <3>2, <3>3, <2>1
  <2>4. QED
    BY <2>2, <2>3, <1>5, <1>7 DEF Delayed
<1>8. End(d) <= End(c)
  <2> DEFINE f == FramesToTime(Len(c.buf) - n)
             g == FramesToTime(n)
  <2>1. f \in Int /\ g \in Int /\ FramesToTime(Len(c.buf)) = f + g
    <3> DEFINE l == Len(c.buf)
    <3>1. l \in Int /\ n \in Int
      BY <1>1
    <3> HIDE DEF l
    <3>2. l - n \in Int /\ l = (l - n) + n
      BY <3>1
    <3>3. l \in Int /\ l - n \in Int /\ FramesToTime(l) = FramesToTime(l - n) + FramesToTime(n)
      BY <3>1, <3>2, FrameTimes
    <3>4. FramesToTime(l - n) \in Int /\ FramesToTime(n) \in Int
      BY <3>1, <3>2, FrameTimes
    <3>5. QED
      BY <3>3, <3>4 DEF l
  <2>2. End(c) = c.audioTs + (f + g) /\ End(d) = x.end + f
    BY <2>1 DEF End
  <2>3. x.end <= c.audioTs + g /\ x.end \in Int /\ c.audioTs \in Int
    BY <1>1, <1>2
  <2> DEFINE a == c.audioTs
             e == x.end
  <2>4. a \in Int /\ e \in Int /\ f \in Int /\ g \in Int /\ 0 \in Int /\ e <= a + g
    BY <2>1, <2>3
  <2>5. End(c) = a + (f + g) /\ End(d) = e + f
    BY <2>2
  <2> HIDE DEF a, e, f, g
  <2>6. e + f <= a + (f + g)
    BY <2>4, NoLater
  <2>7. QED
    BY <2>5, <2>6, Zenon
<1>9. Timely(d, late) => Delayed(d, late)
  BY DEF Timely, Delayed
<1>10. d.audioTs # 0
  BY <1>1, <1>2
<1>11. QED
  BY <1>6, <1>7, <1>8, <1>9, <1>10 DEF DiscardKeeps

\* A channel that begins in the tick has frames in it to the end of the tick, when
\* parts of a frame count as one.
LEMMA StartFacts ==
  ASSUME NEW c \in Channel, NEW x, x.start \in Int, x.end = x.start + Tick,
         x.start <= c.audioTs, c.audioTs < x.end
  PROVE  LET n == Block - StartPoint(c, x)
         IN /\ n \in 0..Block /\ x.end <= c.audioTs + FramesToTime(n)
            /\ c.audioTs = x.start => n = Block
<1> DEFINE a == c.audioTs - x.start
           m == a \div Frame
           n == Block - StartPoint(c, x)
<1>1. /\ c.audioTs \in Nat /\ Block \in Nat \ {0} /\ Frame \in Nat \ {0} /\ Tick \in Nat \ {0}
      /\ Tick = Block * Frame
  BY LagFacts, ChannelAssumption, TickFacts
<1>2. a \in Int /\ a >= 0 /\ a < Tick /\ c.audioTs = x.start + a /\ x.end - c.audioTs = Tick - a
  BY <1>1
<1>3. n = Block - m
  BY DEF StartPoint, TimeToFrames
<1> HIDE DEF a, n
<1>4. m \in Int /\ m * Frame <= a /\ a < m * Frame + Frame /\ m >= 0
  BY <1>1, <1>2, Division
<1> HIDE DEF m
<1>5. m * Frame \in Int /\ Block * Frame \in Int
  BY <1>1, <1>4
<1>6. m <= Block
  <2>1. ASSUME m > Block
        PROVE  FALSE
    <3>1. FramesToTime(Block) < FramesToTime(m)
      BY <2>1, <1>1, <1>4, FrameTimes
    <3>2. Block * Frame < m * Frame
      BY <3>1 DEF FramesToTime
    <3>3. QED
      BY <3>2, <1>1, <1>2, <1>4, <1>5
  <2>2. QED
    BY <2>1, <1>1, <1>4
<1>7. ASSUME c.audioTs = x.start
      PROVE  n = Block
  <2>1. m * Frame <= 0
    BY <1>7, <1>1, <1>2, <1>4, <1>5
  <2>2. m = 0
    BY <2>1, <1>1, <1>4
  <2>3. QED
    BY <2>2, <1>1, <1>3
<1>8. FramesToTime(n) = Tick - m * Frame
  <2>1. (Block - m) * Frame = Block * Frame - m * Frame
    BY <1>1, <1>4
  <2>2. QED
    BY <2>1, <1>3, <1>1 DEF FramesToTime
<1>9. x.end <= c.audioTs + FramesToTime(n)
  BY <1>1, <1>2, <1>4, <1>5, <1>8
<1>10. n \in 0..Block
  BY <1>1, <1>3, <1>4, <1>6
<1>11. QED
  BY <1>7, <1>9, <1>10 DEF n

\* wasapi_capture_discard_audio does one of these.
LEMMA DiscardedKeeps ==
  ASSUME NEW c, Bounded(c), Ordered(c.buf), NEW x \in [start : Int, end : Nat], x.end = x.start + Tick,
         NEW full \in BOOLEAN, NEW late \in Nat
  PROVE  DiscardKeeps(c, Discarded(c, x, full), x, late)
<1> DEFINE n == Block - StartPoint(c, x)
           halt == StopIfStalled(c)
           d == Discarded(c, x, full)
<1>1. /\ c \in Channel /\ Len(c.buf) \in Nat /\ c.audioTs \in Nat
      /\ x.start \in Int /\ x.end \in Nat /\ Tick \in Nat \ {0} /\ Block \in Nat \ {0} /\ Frame \in Nat \ {0}
  <2>1. c \in Channel
    BY DEF Bounded
  <2>2. QED
    BY <2>1, LagFacts, ChannelAssumption, TickFacts
<1>2. d \in Channel
  <2>1. LET e == Discarded(c, x, full)
        IN /\ Bounded(e) /\ e.out = c.out /\ e.adjust = c.adjust /\ e.nextTs = c.nextTs
           /\ Ordered(e.buf) /\ \A t \in Int : Below(c.buf, t) => Below(e.buf, t)
    BY DiscardedFacts, Zenon
  <2>2. QED
    BY <2>1 DEF Bounded
<1>3. DiscardKeeps(c, c, x, late)
  BY <1>1, KeepsSame DEF SameSounds
<1>4. /\ halt \in Channel
      /\ SameSounds(c, halt) \/ (halt.buf = <<>> /\ halt.audioTs = 0)
      /\ Stalled(c) => halt.lastSize = c.lastSize \/ halt.buf = <<>>
      /\ ~Stalled(c) => SameSounds(c, halt) /\ (c.buf # <<>> => halt.lastSize = Len(c.buf))
  BY StoppedSounds
<1> HIDE DEF halt
<1>5. DiscardKeeps(c, halt, x, late)
  <2>1. CASE halt.buf = <<>> /\ halt.audioTs = 0
    BY <2>1, <1>1, KeepsNone
  <2>2. CASE SameSounds(c, halt) /\ (halt.lastSize = c.lastSize \/ ~Stalled(c))
    BY <2>2, <1>1, KeepsSame
  <2>3. CASE SameSounds(c, halt) /\ Stalled(c) /\ halt.buf = <<>>
    <3>1. End(halt) = End(c)
      BY <2>3 DEF End, SameSounds
    <3>2. QED
      BY <3>1, <2>3, <1>1, KeepsNone
  <2>4. QED
    BY <2>1, <2>2, <2>3, <1>4
<1>6. ASSUME NEW e \in Channel, SameSounds(c, e)
      PROVE  DiscardKeeps(c, Ignored(e), x, late)
  <2>2. Ignored(e).buf = <<>> /\ End(Ignored(e)) = End(e)
    BY IgnoredEnd
  <2>3. End(e) = End(c)
    BY <1>6 DEF SameSounds, End
  <2>4. QED
    BY <2>2, <2>3, <1>1, KeepsNone
<1>7. CASE x.end <= c.audioTs
  <2>1. d = c
    BY <1>7 DEF Discarded
  <2>2. QED
    BY <2>1, <1>3
<1>8. CASE ~(x.end <= c.audioTs) /\ c.audioTs < x.start
  <2>1. \/ d = c
        \/ d = halt
        \/ d = Ignored(c)
        \/ d = Ignored(halt) /\ ~Stalled(c)
    BY <1>8 DEF Discarded, halt
  <2>2. DiscardKeeps(c, Ignored(c), x, late)
    BY <1>1, <1>6 DEF SameSounds
  <2>3. ~Stalled(c) => DiscardKeeps(c, Ignored(halt), x, late)
    BY <1>4, <1>6
  <2> HIDE DEF d
  <2>4. DiscardKeeps(c, d, x, late)
    BY <2>1, <2>2, <2>3, <1>3, <1>5
  <2>5. QED
    BY <2>4 DEF d
<1>9. CASE ~(x.end <= c.audioTs) /\ ~(c.audioTs < x.start)
  <2>1. x.start <= c.audioTs /\ c.audioTs < x.end
    BY <1>1, <1>9
  <2>2. /\ n \in 0..Block /\ x.end <= c.audioTs + FramesToTime(n)
        /\ c.audioTs = x.start => n = Block
    BY <2>1, <1>1, StartFacts
  <2>3. CASE n = 0
    <3>1. d = c
      BY <1>9, <2>3 DEF Discarded
    <3>2. QED
      BY <3>1, <1>3
  <2>4. CASE n # 0 /\ Len(c.buf) < n /\ Stalled(c)
    <3>1. d = halt
      BY <1>9, <2>4 DEF Discarded, halt
    <3>2. QED
      BY <3>1, <1>5
  <2>5. CASE n # 0 /\ Len(c.buf) < n /\ ~Stalled(c)
    <3>1. d = [halt EXCEPT !.audioTs = x.end]
      BY <1>9, <2>5 DEF Discarded, halt
    <3>2. /\ d.audioTs = x.end /\ d.buf = halt.buf /\ d.nextSys = halt.nextSys
          /\ d.nextTs = halt.nextTs /\ d.adjust = halt.adjust /\ d.lastSize = halt.lastSize
      BY <3>1, <1>4 DEF Channel
    <3> HIDE DEF d, n
    <3>3. /\ d.audioTs = x.end /\ d.buf = c.buf /\ d.nextSys = c.nextSys
          /\ d.nextTs = c.nextTs /\ d.adjust = c.adjust /\ (c.buf # <<>> => d.lastSize = Len(c.buf))
      BY <3>2, <1>4, <2>5 DEF SameSounds
    <3>4. Len(c.buf) < Block
      BY <2>2, <2>5, <1>1
    <3>5. DiscardKeeps(c, d, x, late)
      BY <3>3, <3>4, <2>1, <2>5, <1>1, <1>2, KeepsShort
    <3>6. QED
      BY <3>5 DEF d
  <2>6. CASE n > 0 /\ ~(Len(c.buf) < n)
    <3>1. d = [c EXCEPT !.buf = SubSeq(c.buf, n + 1, Len(c.buf)), !.lastSize = 0,
                        !.pendingStop = FALSE, !.audioTs = x.end]
      BY <1>9, <2>6, <2>2 DEF Discarded
    <3>2. d.audioTs = x.end /\ d.buf = SubSeq(c.buf, n + 1, Len(c.buf))
      BY <3>1, <1>1 DEF Channel
    <3>3. n \in Nat \ {0} /\ n <= Len(c.buf)
      BY <2>2, <2>6, <1>1
    <3>4. /\ Len(SubSeq(c.buf, n + 1, Len(c.buf))) = Len(c.buf) - n
          /\ \A j \in 1..(Len(c.buf) - n) : SubSeq(c.buf, n + 1, Len(c.buf))[j] = c.buf[j + n]
      <4> DEFINE b == c.buf
      <4>1. b \in Seq(Nat) /\ n \in Nat \ {0} /\ n <= Len(b) /\ Len(b) \in Nat
        BY <3>3, <1>1, LagFacts
      <4> HIDE DEF b, n
      <4>2. /\ Len(SubSeq(b, n + 1, Len(b))) = Len(b) - n
            /\ \A j \in 1..(Len(b) - n) : SubSeq(b, n + 1, Len(b))[j] = b[j + n]
        BY <4>1
      <4>3. QED
        BY <4>2 DEF b
    <3> HIDE DEF d, n
    <3>5. DiscardKeeps(c, d, x, late)
      BY <3>2, <3>3, <3>4, <2>1, <2>2, <1>1, <1>2, KeepsCut
    <3>6. QED
      BY <3>5 DEF d
  <2>7. QED
    BY <2>2, <2>3, <2>4, <2>5, <2>6, <1>1
<1>10. QED
  BY <1>7, <1>8, <1>9

\* Sample k of a packet that is put behind n frames, not later than it is late, is not
\* heard later than that.
LEMMA NewSample ==
  ASSUME NEW d \in Channel, NEW p \in Packets, NEW late \in Nat, NEW n \in Nat, NEW k \in DOMAIN d.buf,
         d.audioTs + FramesToTime(n) <= p.ts + Delay + late,
         k > n, k - n \in 1..Packet, d.buf[k] = Samples(p)[k - n], d.buf[k] # 0
  PROVE  Lag(d, k) <= late
<1> DEFINE s == Samples(p)
<1>1. k - n \in DOMAIN s
  BY SampleFacts
<1>2. s[k - n] = p.ts + Delay + FramesToTime(k - n - 1)
  BY <1>1 DEF Samples
<1> HIDE DEF s
<1> DEFINE a == d.audioTs
           f == FramesToTime(n)
           g == FramesToTime(k - n - 1)
           u == p.ts + Delay
<1>3. a \in Int /\ u \in Int
  <2>1. p.ts \in Nat /\ Delay \in Nat
    BY ChannelAssumption DEF Packets
  <2>2. a \in Nat
    BY LagFacts
  <2>3. QED
    BY <2>1, <2>2
<1>4. f \in Int /\ g \in Int /\ FramesToTime(k - 1) = f + g
  <2>1. k \in Int
    BY LagFacts
  <2>2. k - n - 1 \in Int /\ n \in Int /\ n + (k - n - 1) = k - 1
    BY <2>1
  <2>3. QED
    BY <2>2, FrameTimes
<1>5. Lag(d, k) = a + (f + g) - (u + g)
  BY <1>2, <1>4 DEF Lag, s
<1>6. a + f <= u + late
  OBVIOUS
<1> HIDE DEF a, f, g, u
<1>7. a + (f + g) - (u + g) <= late
  BY <1>3, <1>4, <1>6
<1>8. QED
  BY <1>5, <1>7

\* A packet that is put behind the others is late by what the end of them is.
LEMMA PushedBehind ==
  ASSUME NEW c \in Channel, NEW p \in Packets, NEW late \in Nat, End(c) <= p.ts + Delay + late,
         NEW d \in Channel, d = PushedBack(c, Samples(p))
  PROVE  /\ PutBehind(c, d, Len(c.buf), late)
         /\ Synced(c) => Synced(d)
         /\ d.nextTs = c.nextTs /\ d.audioTs = c.audioTs /\ d.out = c.out /\ d.pending = c.pending
         /\ End(d) <= p.ts + PacketTime + Delay + late
<1> DEFINE s == Samples(p)
           l == Len(c.buf)
<1>1. c.buf \in Seq(Nat) /\ l \in Nat /\ s \in Seq(Nat) /\ Len(s) = Packet
  BY LagFacts, SampleFacts
<1>2. /\ Packet \in Nat \ {0} /\ PacketTime \in Nat \ {0} /\ End(c) \in Int
      /\ p.ts + Delay + late \in Int
  <2>1. p.ts \in Nat /\ Delay \in Nat
    BY ChannelAssumption DEF Packets
  <2>2. QED
    BY <2>1, PacketFacts, LagFacts
<1>3. CASE d = c
  <2>1. PutBehind(c, d, l, late)
    BY <1>3 DEF PutBehind
  <2>2. End(d) <= p.ts + PacketTime + Delay + late
    <3> DEFINE u == p.ts + Delay + late
               e == End(c)
    <3>1. e <= u /\ u \in Int /\ e \in Int
      BY <1>2
    <3>2. p.ts + PacketTime + Delay + late = u + PacketTime
      <4>1. p.ts \in Nat /\ Delay \in Nat
        BY ChannelAssumption DEF Packets
      <4>2. QED
        BY <4>1, <1>2
    <3> HIDE DEF u, e
    <3>3. e <= u + PacketTime
      BY <3>1, <1>2
    <3>4. QED
      BY <3>2, <3>3, <1>3 DEF e
  <2>3. QED
    BY <2>1, <2>2, <1>3
<1>4. CASE d # c
  <2>1. d = [c EXCEPT !.buf = c.buf \o s, !.lastSize = 0]
    BY <1>4 DEF PushedBack
  <2>2. /\ d.buf = c.buf \o s /\ d.audioTs = c.audioTs /\ d.nextTs = c.nextTs /\ d.nextSys = c.nextSys
        /\ d.adjust = c.adjust /\ d.out = c.out /\ d.pending = c.pending
    BY <2>1 DEF Channel
  <2> HIDE DEF s
  <2>3. /\ c.buf \o s \in Seq(Nat) /\ Len(c.buf \o s) = Len(c.buf) + Len(s)
        /\ DOMAIN (c.buf \o s) = 1..(Len(c.buf) + Len(s))
        /\ \A k \in 1..Len(c.buf) : (c.buf \o s)[k] = c.buf[k]
        /\ \A k \in DOMAIN (c.buf \o s) : k > Len(c.buf) => (c.buf \o s)[k] = s[k - Len(c.buf)]
    <3> DEFINE q == c.buf
    <3>1. q \in Seq(Nat) /\ s \in Seq(Nat)
      BY <1>1
    <3> HIDE DEF q
    <3>2. /\ q \o s \in Seq(Nat) /\ Len(q \o s) = Len(q) + Len(s)
          /\ DOMAIN (q \o s) = 1..(Len(q) + Len(s))
          /\ \A k \in 1..Len(q) : (q \o s)[k] = q[k]
          /\ \A k \in DOMAIN (q \o s) : k > Len(q) => (q \o s)[k] = s[k - Len(q)]
      BY <3>1, ConcatFacts
    <3>3. QED
      BY <3>2 DEF q
  <2>4. /\ Len(d.buf) = l + Packet /\ DOMAIN d.buf = 1..(l + Packet)
        /\ \A k \in 1..l : d.buf[k] = c.buf[k]
        /\ \A k \in DOMAIN d.buf : k > l => d.buf[k] = s[k - l]
    BY <2>2, <2>3, <1>1
  <2>5. ASSUME NEW k \in DOMAIN d.buf, d.buf[k] # 0, ~(k <= l /\ k \in DOMAIN c.buf /\ d.buf[k] = c.buf[k])
        PROVE  Lag(d, k) <= late
    <3>1. k \in 1..(l + Packet) /\ DOMAIN c.buf = 1..l
      BY <2>4, LagFacts
    <3>2. k > l
      <4>1. k \in 1..l => k <= l /\ k \in DOMAIN c.buf /\ d.buf[k] = c.buf[k]
        BY <2>4, <3>1
      <4>2. k \notin 1..l
        BY <4>1, <2>5
      <4> HIDE DEF l
      <4>3. l \in Nat
        BY <1>1 DEF l
      <4>4. QED
        BY <3>1, <4>2, <4>3, <1>2
    <3>3. k - l \in 1..Packet
      <4> HIDE DEF l
      <4>1. l \in Nat
        BY <1>1 DEF l
      <4>2. QED
        BY <4>1, <3>1, <3>2, <1>2
    <3>4. d.buf[k] = Samples(p)[k - l]
      BY <2>4, <3>2 DEF s
    <3>5. d.audioTs + FramesToTime(l) <= p.ts + Delay + late
      BY <2>2 DEF End
    <3> HIDE DEF l
    <3>6. l \in Nat
      BY <1>1 DEF l
    <3>7. QED
      BY <3>2, <3>3, <3>4, <3>5, <3>6, <2>5, NewSample
  <2>6. PutBehind(c, d, l, late)
    BY <2>2, <2>4, <2>5 DEF PutBehind
  <2>7. Synced(c) => Synced(d)
    BY <2>2 DEF Synced
  <2>8. End(d) <= p.ts + PacketTime + Delay + late
    <3> DEFINE u == p.ts + Delay + late
               e == End(c)
    <3>1. e <= u /\ u \in Int /\ e \in Int
      BY <1>2
    <3>2. p.ts + PacketTime + Delay + late = u + PacketTime
      <4>1. p.ts \in Nat /\ Delay \in Nat
        BY ChannelAssumption DEF Packets
      <4>2. QED
        BY <4>1, <1>2
    <3>3. FramesToTime(l + Packet) = FramesToTime(l) + PacketTime /\ FramesToTime(l) \in Int
      <4> HIDE DEF l
      <4>1. l \in Int /\ Packet \in Int
        BY <1>1, <1>2 DEF l
      <4>2. QED
        BY <4>1, FrameTimes
    <3>4. End(d) = c.audioTs + (FramesToTime(l) + PacketTime) /\ e = c.audioTs + FramesToTime(l)
      BY <2>2, <2>4, <3>3 DEF End
    <3>5. c.audioTs \in Int
      BY LagFacts
    <3> HIDE DEF u, e, l
    <3>6. End(d) = e + PacketTime
      BY <3>3, <3>4, <3>5, <1>2
    <3>7. e + PacketTime <= u + PacketTime
      BY <3>1, <1>2
    <3>8. QED
      BY <3>2, <3>6, <3>7
  <2>9. QED
    BY <2>2, <2>6, <2>7, <2>8
<1>5. QED
  BY <1>3, <1>4

\* One that is placed at a time is late by what that is.
LEMMA PlacedBehind ==
  ASSUME NEW c \in Channel, NEW p \in Packets, NEW late \in Nat, NEW t \in Nat,
         t >= c.audioTs, t <= p.ts + Delay + late, End(c) <= p.ts + Delay + late,
         NEW d \in Channel, d = Placed(c, t, Samples(p))
  PROVE  LET n == TimeToFrames(t - c.audioTs)
         IN /\ n \in Nat /\ PutBehind(c, d, n, late)
            /\ Synced(c) => Synced(d)
            /\ d.nextTs = c.nextTs /\ d.audioTs = c.audioTs /\ d.out = c.out /\ d.pending = c.pending
            /\ End(d) <= p.ts + PacketTime + Delay + late
<1> DEFINE s == Samples(p)
           n == TimeToFrames(t - c.audioTs)
           b == Laid(c.buf, n, s)
<1>1. c.buf \in Seq(Nat) /\ s \in Seq(Nat) /\ Len(s) = Packet /\ c.audioTs \in Nat /\ DOMAIN c.buf = 1..Len(c.buf)
  BY LagFacts, SampleFacts
<1>2. n \in Nat /\ c.audioTs + FramesToTime(n) <= t
  <2> DEFINE a == t - c.audioTs
  <2>1. a \in Int /\ a >= 0 /\ t = c.audioTs + a /\ Frame \in Nat \ {0}
    BY <1>1, ChannelAssumption
  <2> HIDE DEF a
  <2>2. a \div Frame \in Int /\ (a \div Frame) * Frame <= a /\ a \div Frame >= 0
    BY <2>1, Division
  <2>3. n = a \div Frame /\ FramesToTime(n) = (a \div Frame) * Frame
    BY DEF TimeToFrames, FramesToTime, a
  <2> HIDE DEF n
  <2>4. n \in Nat
    BY <2>2, <2>3
  <2>5. FramesToTime(n) <= a /\ FramesToTime(n) \in Int
    BY <2>2, <2>3, <2>4, FrameTimes
  <2>6. QED
    BY <2>1, <2>4, <2>5, <1>1
<1> HIDE DEF n
<1>3. /\ Packet \in Nat \ {0} /\ PacketTime \in Nat \ {0} /\ End(c) \in Int
      /\ p.ts \in Nat /\ Delay \in Nat
  <2>1. p.ts \in Nat /\ Delay \in Nat
    BY ChannelAssumption DEF Packets
  <2>2. QED
    BY <2>1, PacketFacts, LagFacts
<1> DEFINE u == p.ts + Delay + late
<1>4. u \in Int /\ p.ts + PacketTime + Delay + late = u + PacketTime /\ t <= u /\ End(c) <= u
  BY <1>3
<1> HIDE DEF u
<1>5. CASE d = c
  <2>1. PutBehind(c, d, n, late)
    BY <1>5 DEF PutBehind
  <2>2. End(c) <= u + PacketTime
    BY <1>3, <1>4
  <2>3. QED
    BY <2>1, <2>2, <1>2, <1>4, <1>5 DEF n
<1>6. CASE d # c
  <2>1. d = [c EXCEPT !.lastSize = 0, !.buf = b]
    BY <1>6 DEF Placed, n
  <2> HIDE DEF b
  <2>2. /\ d.buf = b /\ d.audioTs = c.audioTs /\ d.nextTs = c.nextTs /\ d.nextSys = c.nextSys
        /\ d.adjust = c.adjust /\ d.out = c.out /\ d.pending = c.pending
    BY <2>1 DEF Channel
  <2>3. /\ Len(b) = n + Len(s) /\ DOMAIN b = 1..(n + Len(s))
        /\ \A k \in 1..(n + Len(s)) :
             b[k] = IF k > n THEN s[k - n] ELSE IF k <= Len(c.buf) THEN c.buf[k] ELSE 0
    <3> HIDE DEF s
    <3>1. LET q == Laid(c.buf, n, s)
          IN /\ q \in Seq(Nat) /\ Len(q) = n + Len(s) /\ DOMAIN q = 1..(n + Len(s))
             /\ \A k \in 1..(n + Len(s)) :
                  q[k] = IF k > n THEN s[k - n] ELSE IF k <= Len(c.buf) THEN c.buf[k] ELSE 0
      BY <1>1, <1>2, LaidIs
    <3>2. QED
      BY <3>1 DEF b
  <2> HIDE DEF s
  <2>4. Len(d.buf) = n + Packet /\ DOMAIN d.buf = 1..(n + Packet)
    BY <2>2, <2>3, <1>1
  <2>5. ASSUME NEW k \in DOMAIN d.buf, d.buf[k] # 0, ~(k <= n /\ k \in DOMAIN c.buf /\ d.buf[k] = c.buf[k])
        PROVE  Lag(d, k) <= late
    <3>1. k \in 1..(n + Packet) /\ k \in Nat
      BY <2>4
    <3>2. b[k] = IF k > n THEN s[k - n] ELSE IF k <= Len(c.buf) THEN c.buf[k] ELSE 0
      BY <2>3, <3>1, <1>1
    <3>3. k > n
      <4> SUFFICES ASSUME ~(k > n)
                   PROVE  FALSE
        OBVIOUS
      <4>1. k <= n
        BY <3>1, <1>2
      <4>2. k <= Len(c.buf) /\ b[k] = c.buf[k]
        BY <3>2, <2>2, <2>5
      <4>3. k \in DOMAIN c.buf
        BY <4>2, <3>1, <1>1
      <4>4. QED
        BY <4>1, <4>2, <4>3, <2>2, <2>5
    <3>4. k - n \in 1..Packet
      BY <3>1, <3>3, <1>2, <1>3
    <3>5. d.buf[k] = Samples(p)[k - n]
      BY <2>2, <3>2, <3>3 DEF s
    <3>6. d.audioTs + FramesToTime(n) <= p.ts + Delay + late
      <4>1. FramesToTime(n) \in Int
        BY <1>2, FrameTimes
      <4>2. c.audioTs + FramesToTime(n) <= u
        BY <4>1, <1>1, <1>2, <1>4
      <4>3. QED
        BY <4>2, <2>2 DEF u
    <3>7. QED
      BY <3>3, <3>4, <3>5, <3>6, <1>2, <2>5, NewSample
  <2>6. PutBehind(c, d, n, late)
    BY <2>2, <2>4, <2>5 DEF PutBehind
  <2>7. Synced(c) => Synced(d)
    BY <2>2 DEF Synced
  <2>8. End(d) <= u + PacketTime
    <3>1. FramesToTime(n + Packet) = FramesToTime(n) + PacketTime /\ FramesToTime(n) \in Int
      <4>1. n \in Int /\ Packet \in Int
        BY <1>2, <1>3
      <4>2. QED
        BY <4>1, FrameTimes
    <3>2. End(d) = c.audioTs + (FramesToTime(n) + PacketTime)
      BY <2>2, <2>4, <3>1 DEF End
    <3> DEFINE f == FramesToTime(n)
               a == c.audioTs
    <3>3. f \in Int /\ a \in Int /\ a + f <= t /\ t <= u /\ t \in Int /\ u \in Int
      BY <3>1, <1>1, <1>2, <1>4
    <3> HIDE DEF f, a
    <3>4. a + (f + PacketTime) <= u + PacketTime
      BY <3>3, <1>3
    <3>5. QED
      BY <3>2, <3>4 DEF f, a
  <2>9. QED
    BY <2>2, <2>6, <2>7, <2>8, <1>2, <1>4 DEF n
<1>7. QED
  BY <1>5, <1>6
-----------------------------------------------------------------------------
(* The invariant of a punctual session. *)

\* There is one session, and it does not end.
SoleInv ==
  /\ sessions = 0 => /\ ~capturing /\ cpc = "off" /\ mpc = "off"
                     /\ \A c \in Clients : channel[c].buf = <<>>
  /\ sessions # 0 => sessions = 1 /\ capturing /\ cpc # "off" /\ mpc # "off"

\* All ticks are in one line.
RowInv ==
  /\ \A k \in DOMAIN queue : queue[k].start = audioTime - (Len(queue) + 1 - k) * Tick
  /\ wait > 0 => bufferedTs = audioTime - (Len(queue) - wait) * Tick
  /\ sessions # 0 => audioTime <= now + Tick

\* Where a channel ends when the packets in it ended at t, each as late as it may be.
Reach(t) == t + Delay + scenario.late

\* A packet of time t is none of those in the channel, and can go behind them.
EndsBy(ch, t) == ch.nextTs <= t /\ End(ch) <= Reach(t)

\* A channel ends where it can be reached, from the clock or from its last packet; and
\* no packet on its way is to be placed amid what is in it.
ArriveInv ==
  /\ \A c \in Clients :
       /\ channel[c].nextTs <= IF rendered[c] = 0 THEN 0 ELSE rendered[c] + PacketTime
       /\ \/ End(channel[c]) <= Reach(now)
          \/ rendered[c] # 0 /\ End(channel[c]) <= Reach(rendered[c] + PacketTime)
  /\ \A k \in DOMAIN flight : EndsBy(channel[flight[k].client], flight[k].ts)
  /\ cpc = "output" => EndsBy(channel[packet.client], packet.ts)
  /\ cpc = "place" => /\ channel[packet.client].buf = <<>> /\ channel[packet.client].audioTs # 0
                      /\ End(channel[packet.client]) <= Reach(packet.ts)
                      /\ channel[packet.client].nextTs <= packet.ts + PacketTime

\* A channel that was put off begins where a tick does, not later than the next.
OnGrid(t) == t <= now + Tick /\ \E m \in Int : t = audioTime + m * Tick

\* No sound is late by more than its packet was, or is one that was put off.
DriftInv ==
  \A c \in Clients :
    /\ channel[c].audioTs = 0 => channel[c].buf = <<>>
    /\ \/ Timely(channel[c], scenario.late)
       \/ OnGrid(channel[c].audioTs) /\ Delayed(channel[c], scenario.late)

\* What is picked of a channel would be late by no more than NoDrift says.
SlightlyLate(ch) ==
  /\ ch.audioTs # 0
  /\ \A j \in DOMAIN ch.out : ch.out[j] # 0 =>
       ch.audioTs + FramesToTime(j - 1) - ch.out[j] <= scenario.late + Drift

PickInv == \A k \in ToMix : channel[order[k]].pending \/ SlightlyLate(channel[order[k]])

LateInv == SoleInv /\ RowInv /\ ArriveInv /\ DriftInv /\ PickInv /\ NoDrift
-----------------------------------------------------------------------------
\* Times, in a punctual session.
LEMMA PunctualFacts ==
  ASSUME IInv, Punctual(scenario)
  PROVE  /\ scenario.late \in Nat /\ scenario.late + Tick + Tick <= Delay /\ scenario.late < Smooth
         /\ scenario.sessions = 1 /\ now \in Nat /\ now >= 1
         /\ Delay \in Nat \ {0} /\ Tick \in Nat \ {0} /\ PacketTime \in Nat \ {0}
         /\ \A t \in Int : Reach(t) \in Int
         /\ \A c \in Clients : rendered[c] \in Nat /\ rendered[c] <= now
<1>1. HookInv
  BY DEF IInv
<1>2. scenario.late \in Nat /\ scenario.end \in Nat
  BY <1>1, ScenarioFacts DEF HookInv
<1>3. now \in Nat /\ now >= 1
  BY <1>1, <1>2 DEF HookInv
<1>4. Delay \in Nat \ {0} /\ Tick \in Nat \ {0} /\ PacketTime \in Nat \ {0}
  BY ChannelAssumption, TickFacts, PacketFacts
<1>5. \A t \in Int : Reach(t) \in Int
  BY <1>2, <1>4 DEF Reach
<1>6. \A c \in Clients : rendered[c] \in Nat /\ rendered[c] <= now
  BY <1>1 DEF HookInv
<1>7. QED
  BY <1>2, <1>3, <1>4, <1>5, <1>6 DEF Punctual

\* Once it is started, the session goes on.
LEMMA SoleKeeps ==
  ASSUME SoleInv, cpc # "off" \/ mpc # "off", UNCHANGED sessionVars,
         cpc' = "off" => cpc = "off", mpc' = "off" => mpc = "off"
  PROVE  SoleInv'
BY DEF SoleInv, sessionVars

\* The ticks stay in line,
LEMMA RowKeeps ==
  ASSUME RowInv, UNCHANGED <<now, sessions, audioTime, queue, wait, bufferedTs>>
  PROVE  RowInv'
BY DEF RowInv

\* the ends of the channels,
LEMMA ArriveKeeps ==
  ASSUME ArriveInv, UNCHANGED <<scenario, now, rendered, flight, cpc, packet>>, IInv,
         \A c \in Clients : SameSounds(channel[c], channel'[c])
  PROVE  ArriveInv'
<1>1. \A c \in Clients : /\ channel'[c].nextTs = channel[c].nextTs /\ End(channel'[c]) = End(channel[c])
                         /\ channel'[c].buf = channel[c].buf /\ channel'[c].audioTs = channel[c].audioTs
  BY DEF SameSounds, End
<1>2. \A t : Reach(t)' = Reach(t)
  BY DEF Reach
<1>3. \A k \in DOMAIN flight : flight[k].client \in Clients
  BY DEF IInv, TravelInv, Due, Packets
<1>4. cpc \in {"output", "place"} => packet.client \in Clients
  BY DEF IInv, TravelInv, Due, Packets
<1>5. \A c \in Clients :
        /\ channel'[c].nextTs <= IF rendered'[c] = 0 THEN 0 ELSE rendered'[c] + PacketTime
        /\ \/ End(channel'[c]) <= Reach(now)'
           \/ rendered'[c] # 0 /\ End(channel'[c]) <= Reach(rendered[c] + PacketTime)'
  BY <1>1 DEF ArriveInv, Reach
<1>6. \A k \in DOMAIN flight' : EndsBy(channel[flight[k].client], flight[k].ts)'
  BY <1>1, <1>3 DEF ArriveInv, EndsBy, Reach
<1>7. cpc' = "output" => EndsBy(channel[packet.client], packet.ts)'
  BY <1>1, <1>4 DEF ArriveInv, EndsBy, Reach
<1>8. cpc' = "place" => /\ channel'[packet'.client].buf = <<>> /\ channel'[packet'.client].audioTs # 0
                        /\ End(channel'[packet'.client]) <= Reach(packet.ts)'
                        /\ channel'[packet'.client].nextTs <= packet'.ts + PacketTime
  BY <1>1, <1>4 DEF ArriveInv, Reach
<1>9. QED
  BY <1>5, <1>6, <1>7, <1>8 DEF ArriveInv

\* and how late what is in them is,
LEMMA DriftKeeps ==
  ASSUME DriftInv, UNCHANGED <<scenario, now, audioTime>>,
         \A c \in Clients : SameSounds(channel[c], channel'[c]) /\ channel'[c].lastSize = channel[c].lastSize
  PROVE  DriftInv'
<1> SUFFICES ASSUME NEW c \in Clients
             PROVE  /\ channel'[c].audioTs = 0 => channel'[c].buf = <<>>
                    /\ \/ Timely(channel'[c], scenario.late)
                       \/ OnGrid(channel[c].audioTs)' /\ Delayed(channel'[c], scenario.late)
  BY DEF DriftInv
<1> DEFINE a == channel[c]
           b == channel'[c]
           late == scenario.late
<1>1. SameSounds(a, b) /\ b.lastSize = a.lastSize
  OBVIOUS
<1>2. /\ a.audioTs = 0 => a.buf = <<>>
      /\ Timely(a, late) \/ (OnGrid(a.audioTs) /\ Delayed(a, late))
  BY DEF DriftInv
<1>3. OnGrid(a.audioTs) => OnGrid(channel[c].audioTs)'
  BY <1>1 DEF OnGrid, SameSounds
<1> HIDE DEF a, b, late
<1>4. b.buf = a.buf /\ b.audioTs = a.audioTs /\ \A k : Lag(b, k) = Lag(a, k)
  BY <1>1 DEF SameSounds, Lag
<1>5. Timely(a, late) => Timely(b, late)
  BY <1>4 DEF Timely
<1>6. \A k, r, s : PutOff(a, k, late, r, s) => PutOff(b, k, late, r, s)
  BY <1>1, StillPutOff
<1>7. Delayed(a, late) => Delayed(b, late)
  BY <1>4, <1>6 DEF Delayed
<1>8. QED
  BY <1>2, <1>3, <1>4, <1>5, <1>7 DEF a, b, late

\* when the variables do, or the channels are changed in other ways only.
LEMMA PickKeeps ==
  ASSUME PickInv, UNCHANGED <<scenario, channel, order, mpc, i, mixing>>
  PROVE  PickInv'
BY DEF PickInv, ToMix, SlightlyLate

\* The ticks of which a sound can be put off.
LEMMA DriftFacts ==
  /\ Drift \in Nat
  /\ \A n \in Nat, k \in Nat \ {0} : k + (n - 1) * Packet < Block => n * Tick <= Drift
<1> DEFINE q == (Block + Packet - 2) \div Packet
<1>1. Block \in Nat \ {0} /\ Packet \in Nat \ {0} /\ Tick \in Nat \ {0}
  BY ChannelAssumption, PacketFacts, TickFacts
<1> DEFINE a == Block + Packet - 2
<1>2. a \in Int /\ a >= 0 /\ a = Block + Packet - 2
  BY <1>1
<1> HIDE DEF a
<1>3. a \div Packet \in Int /\ (a \div Packet) * Packet <= a /\ a < (a \div Packet) * Packet + Packet /\ a \div Packet >= 0
  BY <1>1, <1>2, Division
<1>4. q = a \div Packet
  BY DEF a
<1> HIDE DEF q
<1>5. q \in Nat /\ a < q * Packet + Packet
  BY <1>3, <1>4
<1>6. Drift = Tick * q
  BY DEF Drift, q
<1>7. Drift \in Nat
  BY <1>1, <1>5, <1>6
<1>8. ASSUME NEW n \in Nat, NEW k \in Nat \ {0}, k + (n - 1) * Packet < Block
      PROVE  n * Tick <= Drift
  <2>1. (n - 1) * Packet = n * Packet - Packet /\ n * Packet \in Int /\ q * Packet \in Int
    BY <1>1, <1>5
  <2>2. n * Packet < q * Packet + Packet
    BY <2>1, <1>1, <1>2, <1>5, <1>8
  <2>3. n <= q
    <3>1. ASSUME n >= q + 1
          PROVE  FALSE
      <4>1. (n - (q + 1)) * Packet >= 0
        BY <3>1, <1>1, <1>5
      <4>2. (n - (q + 1)) * Packet = n * Packet - (q * Packet + Packet)
        BY <1>1, <1>5
      <4>3. QED
        BY <4>1, <4>2, <2>1, <2>2, <1>1
    <3>2. QED
      BY <3>1, <1>5
  <2>4. (q - n) * Tick >= 0 /\ (q - n) * Tick = Tick * q - n * Tick
    BY <2>3, <1>1, <1>5
  <2>5. n * Tick \in Int /\ Tick * q \in Int
    BY <1>1, <1>5
  <2>6. QED
    BY <2>4, <2>5, <1>6
<1>9. QED
  BY <1>7, <1>8
-----------------------------------------------------------------------------
(* The hooked process, and time. *)

\* A channel that is empty has no sound that is late.
LEMMA EmptyTimely ==
  ASSUME NEW ch, ch.buf = <<>>, NEW late
  PROVE  Timely(ch, late)
<1>1. DOMAIN ch.buf = {}
  OBVIOUS
<1>2. QED
  BY <1>1 DEF Timely

\* At the beginning nothing is late.
LEMMA InitLate == ASSUME Punctual(scenario), Init PROVE LateInv
<1>1. /\ sessions = 0 /\ ~capturing /\ cpc = "off" /\ mpc = "off" /\ queue = <<>> /\ wait = 0
      /\ flight = <<>> /\ order = <<>> /\ now = 1 /\ scenario \in Scenarios
      /\ \A c \in Clients : channel[c] = Created /\ rendered[c] = 0 /\ heard[c] = {}
  BY DEF Init
<1>2. scenario.late \in Nat /\ Delay \in Nat /\ FramesToTime(0) = 0
  BY <1>1, ScenarioFacts, ChannelAssumption DEF FramesToTime
<1>3. \A c \in Clients : /\ channel[c].buf = <<>> /\ channel[c].audioTs = 0 /\ channel[c].nextTs = 0
                         /\ End(channel[c]) = 0
  BY <1>1, <1>2 DEF Created, End
<1>4. SoleInv
  BY <1>1, <1>3 DEF SoleInv
<1>5. RowInv
  BY <1>1 DEF RowInv
<1>6. ArriveInv
  BY <1>1, <1>2, <1>3 DEF ArriveInv, Reach
<1>7. DriftInv
  BY <1>3, EmptyTimely DEF DriftInv
<1>8. PickInv
  BY <1>1 DEF PickInv, ToMix
<1>9. NoDrift
  BY <1>1 DEF NoDrift
<1>10. QED
  BY <1>4, <1>5, <1>6, <1>7, <1>8, <1>9 DEF LateInv

\* Of two packets that a channel is behind, the later one.
LEMMA EndsByLater ==
  ASSUME NEW ch \in Channel, NEW t \in Int, NEW u \in Int, t <= u, EndsBy(ch, t),
         scenario.late \in Nat, Delay \in Nat
  PROVE  EndsBy(ch, u)
<1>1. ch.nextTs \in Nat /\ End(ch) \in Int
  BY LagFacts DEF Channel
<1>2. QED
  BY <1>1 DEF EndsBy, Reach

\* A packet that is released now goes behind all that was released before.
LEMMA ReleaseLate ==
  ASSUME Punctual(scenario), IInv, LateInv, NEW c \in Clients, Release(c) PROVE LateInv'
<1>1. /\ IInv /\ SoleInv /\ RowInv /\ ArriveInv /\ DriftInv /\ PickInv /\ NoDrift
      /\ HookInv /\ ChannelInv /\ TravelInv
  BY DEF LateInv, IInv
<1>2. /\ capturing /\ AtRest
      /\ rendered[c] = 0 \/ rendered[c] + PacketTime <= now
      /\ rendered' = [rendered EXCEPT ![c] = now]
      /\ \E silent \in {FALSE, scenario.quiet} :
           flight' = Append(flight, [client |-> c, ts |-> now, silent |-> silent])
      /\ UNCHANGED <<scenario, now, sessionVars, channelVars, captureVars, mixVars, bufferingVars, heard>>
  BY DEF Release
<1>3. /\ scenario.late \in Nat /\ now \in Nat /\ now >= 1 /\ Delay \in Nat /\ PacketTime \in Nat
      /\ rendered \in [Clients -> Nat] /\ flight \in Seq(Packets)
      /\ rendered[c] \in Nat /\ rendered[c] <= now
  BY <1>1, PunctualFacts DEF HookInv
<1>4. \A d \in Clients : /\ channel[d] \in Channel /\ End(channel[d]) \in Int /\ channel[d].nextTs \in Nat
                         /\ channel'[d] = channel[d] /\ channel[d].nextTs \in Int
  <2> SUFFICES ASSUME NEW d \in Clients
               PROVE  /\ channel[d] \in Channel /\ End(channel[d]) \in Int /\ channel[d].nextTs \in Nat
                      /\ channel'[d] = channel[d]
    OBVIOUS
  <2>1. channel[d] \in Channel /\ channel' = channel
    BY <1>1, <1>2 DEF ChannelInv, channelVars
  <2>2. QED
    BY <2>1, LagFacts DEF Channel
<1>5. EndsBy(channel[c], now)
  <2> DEFINE e == End(channel[c])
  <2>1. channel[c].nextTs <= now
    BY <1>1, <1>2, <1>3, <1>4 DEF ArriveInv
  <2>2. e <= Reach(now) \/ (rendered[c] # 0 /\ e <= Reach(rendered[c] + PacketTime))
    BY <1>1 DEF ArriveInv
  <2>3. e \in Int
    BY <1>4
  <2> HIDE DEF e
  <2>4. e <= Reach(now)
    BY <2>2, <2>3, <1>2, <1>3 DEF Reach
  <2>5. QED
    BY <2>1, <2>4 DEF EndsBy, e
<1>6. ArriveInv'
  <2>1. \A d \in Clients : rendered'[d] = IF d = c THEN now ELSE rendered[d]
    BY <1>2, <1>3
  <2>2. ASSUME NEW d \in Clients
        PROVE  /\ channel'[d].nextTs <= IF rendered'[d] = 0 THEN 0 ELSE rendered'[d] + PacketTime
               /\ \/ End(channel'[d]) <= Reach(now)'
                  \/ rendered'[d] # 0 /\ End(channel'[d]) <= Reach(rendered[d] + PacketTime)'
    <3>1. CASE d # c
      <4>1. rendered'[d] = rendered[d]
        BY <2>1, <3>1
      <4>2. QED
        BY <4>1, <1>1, <1>2, <1>4 DEF ArriveInv, Reach
    <3>2. CASE d = c
      <4>1. rendered'[d] = now /\ rendered'[d] # 0 /\ now' = now /\ scenario' = scenario
        BY <2>1, <3>2, <1>2, <1>3
      <4>2. channel[d].nextTs <= now + PacketTime /\ End(channel[d]) <= Reach(now)
        BY <1>3, <1>4, <1>5, <3>2 DEF EndsBy
      <4>3. QED
        BY <4>1, <4>2, <1>4 DEF Reach
    <3>3. QED
      BY <3>1, <3>2
  <2>3. ASSUME NEW k \in DOMAIN flight'
        PROVE  EndsBy(channel[flight[k].client], flight[k].ts)'
    <3>1. PICK silent \in {FALSE, scenario.quiet} :
            flight' = Append(flight, [client |-> c, ts |-> now, silent |-> silent])
      BY <1>2
    <3> DEFINE p == [client |-> c, ts |-> now, silent |-> silent]
    <3>2. p.client = c /\ p.ts = now /\ p \in Packets
      <4>1. silent \in BOOLEAN
        BY <1>1, ScenarioFacts DEF HookInv
      <4>2. QED
        BY <4>1, <1>3 DEF Packets
    <3> HIDE DEF p
    <3>3. /\ DOMAIN flight = 1..Len(flight) /\ DOMAIN flight' = 1..(Len(flight) + 1) /\ Len(flight) \in Nat
          /\ \A j \in 1..Len(flight) : flight'[j] = flight[j]
          /\ flight'[Len(flight) + 1] = p
      BY <1>3, <3>1, <3>2, AppendFacts DEF p
    <3>4. CASE k = Len(flight) + 1
      <4>1. flight'[k].client = c /\ flight'[k].ts = now
        BY <3>2, <3>3, <3>4
      <4>2. QED
        BY <4>1, <1>2, <1>4, <1>5 DEF EndsBy, Reach
    <3>5. CASE k # Len(flight) + 1
      <4>1. k \in DOMAIN flight /\ flight'[k] = flight[k]
        BY <3>3, <3>5
      <4>2. flight[k].client \in Clients
        BY <4>1, <1>1 DEF TravelInv, Due, Packets
      <4>3. EndsBy(channel[flight[k].client], flight[k].ts)
        BY <4>1, <1>1 DEF ArriveInv
      <4>4. QED
        BY <4>1, <4>2, <4>3, <1>2, <1>4 DEF EndsBy, Reach
    <3>6. QED
      BY <3>4, <3>5
  <2>4. cpc' \notin {"output", "place"}
    BY <1>2 DEF AtRest, captureVars
  <2>5. QED
    BY <2>2, <2>3, <2>4 DEF ArriveInv
<1>7. SoleInv'
  BY <1>1, <1>2 DEF SoleInv, sessionVars, captureVars, mixVars, channelVars
<1>8. RowInv'
  BY <1>1, <1>2, RowKeeps DEF sessionVars, mixVars, bufferingVars
<1>9. DriftInv'
  BY <1>1, <1>2, <1>4, DriftKeeps DEF mixVars, SameSounds
<1>10. PickInv'
  BY <1>1, <1>2, PickKeeps DEF mixVars, channelVars
<1>11. NoDrift'
  BY <1>1, <1>2 DEF NoDrift
<1>12. QED
  BY <1>6, <1>7, <1>8, <1>9, <1>10, <1>11 DEF LateInv

\* Time goes on.
LEMMA PassLate == ASSUME Punctual(scenario), IInv, LateInv, Pass PROVE LateInv'
<1>1. /\ SoleInv /\ RowInv /\ ArriveInv /\ DriftInv /\ PickInv /\ NoDrift
      /\ HookInv /\ ChannelInv /\ TravelInv /\ LineInv
  BY DEF LateInv, IInv
<1>2. /\ sessions > 0 /\ AtRest /\ now' = now + 1
      /\ UNCHANGED <<scenario, hookVars, sessionVars, channelVars, captureVars, mixVars, bufferingVars, heard>>
  BY DEF Pass, history
<1>3. scenario.late \in Nat /\ now \in Nat /\ Delay \in Nat /\ Tick \in Nat /\ audioTime \in Nat
  BY <1>1, PunctualFacts DEF LineInv
<1>4. \A d \in Clients : channel[d] \in Channel /\ End(channel[d]) \in Int
  <2>1. \A d \in Clients : channel[d] \in Channel
    BY <1>1 DEF ChannelInv
  <2>2. QED
    BY <2>1, LagFacts
<1>5. channel' = channel /\ rendered' = rendered /\ flight' = flight /\ cpc' = cpc /\ audioTime' = audioTime
  BY <1>2 DEF hookVars, channelVars, captureVars, mixVars
<1>6. ArriveInv'
  <2>1. ASSUME NEW d \in Clients
        PROVE  /\ channel'[d].nextTs <= IF rendered'[d] = 0 THEN 0 ELSE rendered'[d] + PacketTime
               /\ \/ End(channel'[d]) <= Reach(now)'
                  \/ rendered'[d] # 0 /\ End(channel'[d]) <= Reach(rendered[d] + PacketTime)'
    <3> DEFINE e == End(channel[d])
    <3>1. channel[d].nextTs <= IF rendered[d] = 0 THEN 0 ELSE rendered[d] + PacketTime
      BY <1>1 DEF ArriveInv
    <3>2. e <= Reach(now) \/ (rendered[d] # 0 /\ e <= Reach(rendered[d] + PacketTime))
      BY <1>1 DEF ArriveInv
    <3>3. e \in Int /\ End(channel'[d]) = e
      BY <1>4, <1>5
    <3> HIDE DEF e
    <3>4. e <= Reach(now) => e <= Reach(now)'
      BY <3>3, <1>2, <1>3 DEF Reach
    <3>5. e <= Reach(rendered[d] + PacketTime) => e <= Reach(rendered[d] + PacketTime)'
      BY <1>2, <1>5 DEF Reach
    <3>6. QED
      BY <3>1, <3>2, <3>3, <3>4, <3>5, <1>5
  <2>2. ASSUME NEW k \in DOMAIN flight'
        PROVE  EndsBy(channel[flight[k].client], flight[k].ts)'
    BY <1>1, <1>2, <1>5 DEF ArriveInv, EndsBy, Reach
  <2>3. cpc' \notin {"output", "place"}
    BY <1>2, <1>5 DEF AtRest
  <2>4. QED
    BY <2>1, <2>2, <2>3 DEF ArriveInv
<1>7. SoleInv'
  BY <1>1, <1>2 DEF SoleInv, sessionVars, captureVars, mixVars, channelVars
<1>8. RowInv'
  <2>1. audioTime' <= now' + Tick
    BY <1>1, <1>2, <1>3, <1>5 DEF RowInv
  <2>2. QED
    BY <2>1, <1>1, <1>2, <1>5 DEF RowInv, bufferingVars
<1>9. DriftInv'
  <2> SUFFICES ASSUME NEW c \in Clients
               PROVE  /\ channel'[c].audioTs = 0 => channel'[c].buf = <<>>
                      /\ \/ Timely(channel'[c], scenario'.late)
                         \/ OnGrid(channel[c].audioTs)' /\ Delayed(channel'[c], scenario'.late)
    BY DEF DriftInv
  <2>1. channel[c].audioTs \in Int
    BY <1>4, LagFacts
  <2>2. OnGrid(channel[c].audioTs) => OnGrid(channel[c].audioTs)'
    BY <2>1, <1>2, <1>3, <1>5 DEF OnGrid
  <2>3. QED
    BY <2>2, <1>1, <1>2, <1>5 DEF DriftInv
<1>10. PickInv'
  BY <1>1, <1>2, PickKeeps DEF mixVars, channelVars
<1>11. NoDrift'
  BY <1>1, <1>2 DEF NoDrift
<1>12. QED
  BY <1>6, <1>7, <1>8, <1>9, <1>10, <1>11 DEF LateInv

\* The session begins with nothing in the channels.
LEMMA StartLate == ASSUME Punctual(scenario), IInv, LateInv, Start PROVE LateInv'
<1>1. /\ SoleInv /\ RowInv /\ ArriveInv /\ DriftInv /\ PickInv /\ NoDrift
      /\ HookInv /\ ChannelInv /\ TravelInv /\ LineInv /\ AccountInv
  BY DEF LateInv, IInv
<1>2. /\ sessions < scenario.sessions /\ capturing' = TRUE /\ sessions' = sessions + 1
      /\ cpc = "off" /\ mpc = "off" /\ cpc' = "wait" /\ mpc' = "sleep" /\ audioTime' = now
      /\ UNCHANGED <<scenario, now, hookVars, channelVars, packet, bufferingVars, heard>>
  BY DEF Start, history
<1>3. now \in Nat /\ Tick \in Nat /\ scenario.sessions = 1 /\ sessions \in Nat
  BY <1>1, PunctualFacts DEF HookInv
<1>4. sessions = 0 /\ sessions' = 1
  BY <1>2, <1>3
<1>5. \A c \in Clients : channel[c].buf = <<>> /\ channel' = channel
  BY <1>1, <1>2, <1>4 DEF SoleInv, channelVars
<1>6. queue = <<>> /\ wait = 0 /\ queue' = queue /\ wait' = wait
  <2>1. queue = <<>> /\ Len(<<>>) = 0
    BY <1>1, <1>4 DEF LineInv
  <2>2. wait \in Nat /\ wait <= Len(queue)
    BY <1>1, QueueFacts
  <2>3. QED
    BY <2>1, <2>2, <1>2 DEF bufferingVars
<1>7. SoleInv'
  BY <1>2, <1>4 DEF SoleInv
<1>8. RowInv'
  BY <1>2, <1>3, <1>6 DEF RowInv
<1>9. ArriveInv'
  BY <1>1, <1>2 DEF ArriveInv, EndsBy, Reach, hookVars, channelVars
<1>10. DriftInv'
  BY <1>5, EmptyTimely DEF DriftInv
<1>11. PickInv'
  BY <1>2 DEF PickInv, ToMix
<1>12. NoDrift'
  BY <1>1, <1>2 DEF NoDrift
<1>13. QED
  BY <1>7, <1>8, <1>9, <1>10, <1>11, <1>12 DEF LateInv

\* It does not end.
LEMMA NoStop ==
  ASSUME Punctual(scenario), IInv, LateInv
  PROVE  ~Stop /\ ~CaptureLeaves /\ ~MixLeaves
<1>1. SoleInv /\ sessions \in Nat /\ scenario.sessions = 1
  BY PunctualFacts DEF LateInv, IInv, HookInv
<1>2. QED
  BY <1>1 DEF SoleInv, Stop, CaptureLeaves, MixLeaves

\* A packet is received after those before it.
LEMMA ReceiveLate == ASSUME Punctual(scenario), IInv, LateInv, Receive PROVE LateInv'
<1>1. /\ SoleInv /\ RowInv /\ ArriveInv /\ DriftInv /\ PickInv /\ NoDrift
      /\ HookInv /\ ChannelInv /\ TravelInv /\ CaptureInv
  BY DEF LateInv, IInv
<1>2. /\ cpc = "wait" /\ flight # <<>> /\ packet' = Head(flight) /\ flight' = Tail(flight)
      /\ cpc' = "output"
      /\ order' = IF Contains(order, Head(flight).client) THEN order
                  ELSE Append(order, Head(flight).client)
      /\ UNCHANGED <<scenario, now, rendered, sessionVars, channel, mixVars, bufferingVars, heard>>
  BY DEF Receive, history
<1>3. /\ packet' = flight[1] /\ 1 \in DOMAIN flight
      /\ \A k \in DOMAIN flight' : k + 1 \in DOMAIN flight /\ flight'[k] = flight[k + 1]
  <2>1. flight \in Seq(Packets)
    BY <1>1 DEF HookInv
  <2>2. /\ Len(flight) \in Nat \ {0} /\ DOMAIN flight = 1..Len(flight)
        /\ packet' = flight[1] /\ DOMAIN flight' = 1..(Len(flight) - 1)
        /\ \A k \in 1..(Len(flight) - 1) : flight'[k] = flight[k + 1] /\ k + 1 \in 1..Len(flight)
    BY <2>1, <1>2, TailFacts
  <2>3. QED
    BY <2>2
<1>4. ArriveInv'
  <2>1. ASSUME NEW k \in DOMAIN flight'
        PROVE  EndsBy(channel[flight[k].client], flight[k].ts)'
    <3>1. EndsBy(channel[flight[k + 1].client], flight[k + 1].ts) /\ flight'[k] = flight[k + 1]
      BY <1>1, <1>3 DEF ArriveInv
    <3>2. QED
      BY <3>1, <1>2 DEF EndsBy, Reach
  <2>2. EndsBy(channel[packet.client], packet.ts)'
    <3>1. EndsBy(channel[flight[1].client], flight[1].ts)
      BY <1>1, <1>3 DEF ArriveInv
    <3>2. QED
      BY <3>1, <1>2, <1>3 DEF EndsBy, Reach
  <2>3. QED
    BY <2>1, <2>2, <1>1, <1>2 DEF ArriveInv, Reach
<1>5. SoleInv'
  BY <1>1, <1>2, SoleKeeps DEF mixVars
<1>6. RowInv'
  BY <1>1, <1>2, RowKeeps DEF sessionVars, mixVars, bufferingVars
<1>7. DriftInv'
  BY <1>1, <1>2, DriftKeeps DEF mixVars, SameSounds
<1>8. PickInv'
  <2>1. ASSUME NEW k \in ToMix
        PROVE  order'[k] = order[k]
    <3>1. order \in Seq(Clients) /\ k \in 1..Len(order)
      BY <2>1, ToMixFacts
    <3>2. CASE order' = order
      BY <3>2
    <3>3. CASE order' = Append(order, Head(flight).client)
      <4>1. Head(flight).client \in Clients
        BY <1>1, <1>2, <1>3 DEF TravelInv, Due, Packets, HookInv
      <4>2. QED
        BY <4>1, <3>1, <3>3, AppendFacts
    <3>4. QED
      BY <3>2, <3>3, <1>2
  <2>2. ToMix' = ToMix
    BY <1>2 DEF ToMix, mixVars
  <2>3. ASSUME NEW k \in ToMix
        PROVE  (channel[order[k]].pending \/ SlightlyLate(channel[order[k]]))'
    <3>1. channel[order[k]].pending \/ SlightlyLate(channel[order[k]])
      BY <1>1 DEF PickInv
    <3>2. order'[k] = order[k] /\ channel' = channel /\ scenario' = scenario
      BY <2>1, <1>2
    <3>3. QED
      BY <3>1, <3>2 DEF SlightlyLate
  <2>4. QED
    BY <2>2, <2>3 DEF PickInv
<1>9. NoDrift'
  BY <1>1, <1>2 DEF NoDrift
<1>10. QED
  BY <1>4, <1>5, <1>6, <1>7, <1>8, <1>9 DEF LateInv
-----------------------------------------------------------------------------
(* The capture thread puts out a packet. *)

\* What a packet does to its channel, when it makes it ch.
LEMMA PutLate ==
  ASSUME Punctual(scenario), IInv, LateInv, cpc \in {"output", "place"},
         NEW c \in Clients, c = packet.client, NEW ch \in Channel,
         channel' = [channel EXCEPT ![c] = ch],
         UNCHANGED <<scenario, now, rendered, flight, sessionVars, order, mixVars, bufferingVars, heard>>,
         \/ cpc' = "wait"
         \/ /\ cpc' = "place" /\ packet' = packet
            /\ ch.buf = <<>> /\ ch.audioTs # 0 /\ End(ch) <= Reach(packet.ts),
         ch.nextTs <= packet.ts + PacketTime, End(ch) <= Reach(packet.ts + PacketTime),
         ch.audioTs = 0 => ch.buf = <<>>,
         \/ Timely(ch, scenario.late)
         \/ OnGrid(ch.audioTs) /\ Delayed(ch, scenario.late),
         ch.out = channel[c].out, ch.pending = channel[c].pending,
         channel[c].audioTs # 0 => ch.audioTs # 0 /\ ch.audioTs <= channel[c].audioTs
  PROVE  LateInv'
<1>1. /\ SoleInv /\ RowInv /\ ArriveInv /\ DriftInv /\ PickInv /\ NoDrift
      /\ HookInv /\ ChannelInv /\ TravelInv
  BY DEF LateInv, IInv
<1>2. /\ scenario.late \in Nat /\ now \in Nat /\ Delay \in Nat /\ PacketTime \in Nat
      /\ rendered[c] \in Nat /\ channel \in [Clients -> Channel]
  BY <1>1, PunctualFacts DEF ChannelInv
<1>3. /\ packet.ts \in Nat /\ packet.ts >= 1 /\ packet.ts <= rendered[c]
      /\ \A k \in DOMAIN flight : flight[k].client = c => packet.ts + PacketTime <= flight[k].ts
  BY <1>1 DEF TravelInv, Due, After, Packets
<1>4. \A d \in Clients : /\ channel'[d] = IF d = c THEN ch ELSE channel[d]
                         /\ channel[d] \in Channel /\ channel'[d] \in Channel
  BY <1>2
<1>5. /\ ch.nextTs \in Nat /\ ch.audioTs \in Nat /\ End(ch) \in Int
      /\ Reach(packet.ts + PacketTime) = packet.ts + PacketTime + Delay + scenario.late
  <2>1. ch.nextTs \in Nat
    BY DEF Channel
  <2>2. QED
    BY <2>1, LagFacts DEF Reach
<1>6. \A t : Reach(t)' = Reach(t)
  BY DEF Reach
<1>7. ArriveInv'
  <2>1. ASSUME NEW d \in Clients
        PROVE  /\ channel'[d].nextTs <= IF rendered'[d] = 0 THEN 0 ELSE rendered'[d] + PacketTime
               /\ \/ End(channel'[d]) <= Reach(now)'
                  \/ rendered'[d] # 0 /\ End(channel'[d]) <= Reach(rendered[d] + PacketTime)'
    <3>1. CASE d # c
      BY <3>1, <1>1, <1>4, <1>6 DEF ArriveInv, Reach
    <3>2. CASE d = c
      <4>1. rendered[c] # 0 /\ ch.nextTs <= rendered[c] + PacketTime
        BY <1>2, <1>3, <1>5
      <4>2. End(ch) <= Reach(rendered[c] + PacketTime)
        <5> DEFINE e == End(ch)
        <5> DEFINE p == packet.ts
                   q == rendered[c]
                   late == scenario.late
        <5>1. e \in Int /\ e <= p + PacketTime + Delay + late
          BY <1>5
        <5>2. p \in Nat /\ q \in Nat /\ p <= q /\ late \in Nat
          BY <1>2, <1>3
        <5> HIDE DEF e, p, q, late
        <5>3. e <= q + PacketTime + Delay + late
          BY <5>1, <5>2, <1>2
        <5>4. QED
          BY <5>3 DEF Reach, e, q, late
      <4>3. channel'[d] = ch /\ rendered'[d] = rendered[c]
        BY <1>4, <3>2
      <4>4. QED
        BY <4>1, <4>2, <4>3 DEF Reach
    <3>3. QED
      BY <3>1, <3>2
  <2>2. ASSUME NEW k \in DOMAIN flight'
        PROVE  EndsBy(channel[flight[k].client], flight[k].ts)'
    <3>1. /\ flight' = flight /\ k \in DOMAIN flight /\ flight[k].client \in Clients /\ flight[k].ts \in Nat
          /\ EndsBy(channel[flight[k].client], flight[k].ts)
      BY <1>1 DEF TravelInv, Due, Packets, ArriveInv
    <3>2. CASE flight[k].client # c
      <4>1. channel'[flight[k].client] = channel[flight[k].client]
        BY <1>4, <3>1, <3>2
      <4>2. QED
        BY <4>1, <3>1, <1>6 DEF EndsBy, Reach
    <3>3. CASE flight[k].client = c
      <4>1. packet.ts + PacketTime <= flight[k].ts /\ channel'[flight'[k].client] = ch
        BY <1>3, <1>4, <3>1, <3>3
      <4>2. EndsBy(ch, packet.ts + PacketTime)
        BY DEF EndsBy
      <4>3. packet.ts + PacketTime \in Int /\ flight[k].ts \in Int
        BY <3>1, <1>2, <1>3
      <4>4. EndsBy(ch, flight[k].ts)
        BY <4>1, <4>2, <4>3, <1>2, EndsByLater
      <4>5. QED
        BY <4>1, <4>4, <3>1 DEF EndsBy, Reach
    <3>4. QED
      BY <3>2, <3>3
  <2>3. cpc' = "place" => /\ channel'[packet'.client].buf = <<>> /\ channel'[packet'.client].audioTs # 0
                          /\ End(channel'[packet'.client]) <= Reach(packet.ts)'
                          /\ channel'[packet'.client].nextTs <= packet'.ts + PacketTime
    BY <1>4 DEF Reach
  <2>4. QED
    BY <2>1, <2>2, <2>3 DEF ArriveInv
<1>8. SoleInv'
  BY <1>1, SoleKeeps DEF mixVars
<1>9. RowInv'
  BY <1>1, RowKeeps DEF sessionVars, mixVars, bufferingVars
<1>10. DriftInv'
  <2> SUFFICES ASSUME NEW d \in Clients
               PROVE  /\ channel'[d].audioTs = 0 => channel'[d].buf = <<>>
                      /\ \/ Timely(channel'[d], scenario'.late)
                         \/ OnGrid(channel[d].audioTs)' /\ Delayed(channel'[d], scenario'.late)
    BY DEF DriftInv
  <2>1. \A t : OnGrid(t) => t <= now' + Tick /\ \E m \in Int : t = audioTime' + m * Tick
    BY DEF OnGrid, mixVars
  <2>2. CASE d = c
    <3>1. channel'[d] = ch
      BY <2>2, <1>4
    <3>2. OnGrid(ch.audioTs) => OnGrid(channel[d].audioTs)'
      BY <2>1, <3>1 DEF OnGrid
    <3>3. QED
      BY <3>1, <3>2
  <2>3. CASE d # c
    <3>1. channel'[d] = channel[d]
      BY <2>3, <1>4
    <3>2. OnGrid(channel[d].audioTs) => OnGrid(channel[d].audioTs)'
      BY <2>1, <3>1 DEF OnGrid
    <3>3. QED
      BY <3>1, <3>2, <1>1 DEF DriftInv
  <2>4. QED
    BY <2>2, <2>3
<1>11. PickInv'
  <2>1. ToMix' = ToMix /\ order' = order
    BY DEF ToMix, mixVars
  <2>2. ASSUME NEW k \in ToMix
        PROVE  (channel[order[k]].pending \/ SlightlyLate(channel[order[k]]))'
    <3>1. order[k] \in Clients /\ (channel[order[k]].pending \/ SlightlyLate(channel[order[k]]))
      BY <1>1, ToMixFacts DEF PickInv
    <3>2. CASE order[k] # c
      <4>1. channel'[order'[k]] = channel[order[k]] /\ scenario' = scenario
        BY <2>1, <3>1, <3>2, <1>4
      <4>2. QED
        BY <4>1, <3>1 DEF SlightlyLate
    <3>3. CASE order[k] = c
      <4>1. channel'[order'[k]] = ch /\ scenario' = scenario
        BY <2>1, <3>1, <3>3, <1>4
      <4>2. ASSUME SlightlyLate(channel[c])
            PROVE  SlightlyLate(ch)
        <5>1. ch.audioTs # 0 /\ ch.audioTs <= channel[c].audioTs
          BY <4>2 DEF SlightlyLate
        <5>2. channel[c].audioTs \in Int /\ ch.audioTs \in Int
          BY <1>2, LagFacts
        <5>3. ASSUME NEW j \in DOMAIN ch.out, ch.out[j] # 0
              PROVE  ch.audioTs + FramesToTime(j - 1) - ch.out[j] <= scenario.late + Drift
          <6>1. channel[c].audioTs + FramesToTime(j - 1) - ch.out[j] <= scenario.late + Drift
            BY <4>2, <5>3 DEF SlightlyLate
          <6>2. FramesToTime(j - 1) \in Int /\ ch.out[j] \in Int
            <7>1. ch.out \in Seq(Nat)
              BY DEF Channel
            <7>2. j \in Nat /\ ch.out[j] \in Nat
              BY <7>1, <5>3
            <7>3. j - 1 \in Int
              BY <7>2
            <7>4. FramesToTime(j - 1) \in Int
              BY <7>3, FrameTimes
            <7>5. QED
              BY <7>2, <7>4
          <6>3. scenario.late + Drift \in Int
            BY <1>2, DriftFacts
          <6> DEFINE x == ch.audioTs
                     y == channel[c].audioTs
                     f == FramesToTime(j - 1)
                     v == ch.out[j]
                     z == scenario.late + Drift
          <6>4. x \in Int /\ y \in Int /\ f \in Int /\ v \in Int /\ z \in Int /\ x <= y /\ y + f - v <= z
            BY <5>1, <5>2, <6>1, <6>2, <6>3
          <6> HIDE DEF x, y, f, v, z
          <6>5. x + f - v <= z
            BY <6>4
          <6>6. QED
            BY <6>5 DEF x, f, v, z
        <5>4. QED
          BY <5>1, <5>3 DEF SlightlyLate
      <4>3. ch.pending \/ SlightlyLate(ch)
        BY <3>1, <3>3, <4>2
      <4>4. QED
        BY <4>1, <4>3 DEF SlightlyLate
    <3>4. QED
      BY <3>2, <3>3
  <2>3. QED
    BY <2>1, <2>2 DEF PickInv
<1>12. NoDrift'
  BY <1>1 DEF NoDrift
<1>13. QED
  BY <1>7, <1>8, <1>9, <1>10, <1>11, <1>12 DEF LateInv

\* After a reset the packet is all there is.
LEMMA PlaceLate == ASSUME Punctual(scenario), IInv, LateInv, IInv', Place PROVE LateInv'
<1> DEFINE c == packet.client
           old == channel[c]
           late == scenario.late
           ch == Placed(old, old.nextSys, Samples(packet))
<1>1. /\ cpc = "place" /\ Output(packet, ch)
      /\ UNCHANGED <<scenario, now, hookVars, sessionVars, order, mixVars, bufferingVars, lastOut, heard>>
  BY DEF Place
<1>2. /\ ArriveInv /\ ResetInv /\ ChannelInv /\ HookInv /\ TravelInv
  BY DEF LateInv, IInv
<1>3. packet \in Packets /\ c \in Clients /\ packet.ts \in Nat
  BY <1>1, PacketInHand
<1>4. channel' = [channel EXCEPT ![c] = ch] /\ cpc' = "wait"
  BY <1>1, OutputFacts
<1>5. old \in Channel /\ old.audioTs \in Nat /\ ch \in Channel
  <2>1. ChannelInv'
    BY DEF IInv
  <2>2. old \in Channel /\ channel'[c] = ch /\ channel'[c] \in Channel
    BY <2>1, <1>2, <1>3, <1>4 DEF ChannelInv
  <2>3. QED
    BY <2>2, LagFacts
<1>6. /\ late \in Nat /\ Delay \in Nat /\ PacketTime \in Nat \ {0} /\ now \in Nat
  BY PunctualFacts
<1>7. /\ old.buf = <<>> /\ old.audioTs # 0 /\ End(old) <= packet.ts + Delay + late
      /\ old.nextSys = old.audioTs /\ End(old) = old.audioTs
  <2>1. /\ old.buf = <<>> /\ old.audioTs # 0 /\ End(old) <= Reach(packet.ts) /\ old.nextSys = old.audioTs
    BY <1>1, <1>2 DEF ArriveInv, ResetInv
  <2>2. End(old) = old.audioTs
    <3>1. Len(<<>>) = 0 /\ FramesToTime(0) = 0
      BY FrameTimes
    <3> HIDE DEF old
    <3>2. QED
      BY <3>1, <2>1, <1>5 DEF End
  <2>3. QED
    BY <2>1, <2>2 DEF Reach
<1>8. ch = Placed(old, old.audioTs, Samples(packet))
  BY <1>7
<1> HIDE DEF ch
<1>9. LET n == TimeToFrames(old.audioTs - old.audioTs)
      IN /\ n \in Nat /\ PutBehind(old, ch, n, late)
         /\ Synced(old) => Synced(ch)
         /\ ch.nextTs = old.nextTs /\ ch.audioTs = old.audioTs /\ ch.out = old.out /\ ch.pending = old.pending
         /\ End(ch) <= packet.ts + PacketTime + Delay + late
  <2> DEFINE t == old.audioTs
             p == packet
  <2>1. /\ t \in Nat /\ t >= old.audioTs /\ t <= p.ts + Delay + late /\ End(old) <= p.ts + Delay + late
        /\ ch = Placed(old, t, Samples(p)) /\ p \in Packets
    BY <1>3, <1>5, <1>7, <1>8
  <2> HIDE DEF late, old, c
  <2>2. old \in Channel /\ ch \in Channel /\ late \in Nat
    BY <1>5, <1>6
  <2>3. QED
    BY <2>1, <2>2, PlacedBehind
<1>10. Timely(ch, late)
  <2>1. Timely(old, late)
    BY <1>7, EmptyTimely
  <2> HIDE DEF old, late, c
  <2>2. QED
    BY <2>1, <1>5, <1>6, <1>9, AfterPacket
<1>11. ch.nextTs <= packet.ts + PacketTime
  <2>1. old.nextTs <= packet.ts + PacketTime
    BY <1>1, <1>2 DEF ArriveInv
  <2>2. QED
    BY <2>1, <1>9
<1>12. End(ch) <= Reach(packet.ts + PacketTime)
  BY <1>9 DEF Reach
<1>13. ch.audioTs # 0 /\ ch.audioTs <= channel[c].audioTs
  BY <1>5, <1>7, <1>9
<1>14. ch.out = channel[c].out /\ ch.pending = channel[c].pending
  BY <1>9
<1>15. UNCHANGED <<scenario, now, rendered, flight, sessionVars, order, mixVars, bufferingVars, heard>>
  BY <1>1 DEF hookVars
<1> HIDE DEF old
<1>16. QED
  BY <1>1, <1>3, <1>4, <1>5, <1>10, <1>11, <1>12, <1>13, <1>14, <1>15, PutLate

\* A packet that is put out while its channel has sounds in it goes behind them.
LEMMA PutFar ==
  ASSUME Punctual(scenario), IInv, NEW old \in Channel, OnGrid(old.audioTs),
         NEW t \in Nat, t >= old.audioTs, NEW at \in Nat, now - at <= scenario.late, t >= at + Delay
  PROVE  TimeToFrames(t - old.audioTs) >= Block
<1> DEFINE a == old.audioTs
           late == scenario.late
           m == (t - a) \div Frame
<1>1. /\ late \in Nat /\ late + Tick + Tick <= Delay /\ now \in Nat /\ Tick \in Nat /\ Delay \in Nat
      /\ a \in Nat /\ a <= now + Tick
  BY PunctualFacts, LagFacts DEF OnGrid
<1>2. now - at <= late
  OBVIOUS
<1> HIDE DEF late, a
<1>3. t - a >= Tick /\ t - a \in Int
  BY <1>1, <1>2
<1>4. Frame \in Nat \ {0} /\ Block \in Nat /\ Tick = FramesToTime(Block)
  BY ChannelAssumption, FrameTimes
<1>5. m \in Int /\ t - a < m * Frame + Frame
  <2> DEFINE d == t - a
  <2>1. d \in Int
    BY <1>3
  <2> HIDE DEF d
  <2>2. d \div Frame \in Int /\ d < (d \div Frame) * Frame + Frame
    BY <2>1, <1>4, Division
  <2>3. QED
    BY <2>2 DEF d
<1> HIDE DEF m
<1>6. m * Frame + Frame = FramesToTime(m + 1)
  BY <1>4, <1>5 DEF FramesToTime
<1>7. ~(m < Block)
  <2> SUFFICES ASSUME m < Block
               PROVE  FALSE
    OBVIOUS
  <2>1. m + 1 = Block \/ m + 1 < Block
    BY <1>4, <1>5
  <2>2. FramesToTime(m + 1) <= Tick
    <3>1. m + 1 \in Int /\ Block \in Int
      BY <1>4, <1>5
    <3>2. FramesToTime(m + 1) \in Int /\ FramesToTime(Block) \in Int
      BY <3>1, FrameTimes
    <3>3. m + 1 < Block => FramesToTime(m + 1) < FramesToTime(Block)
      BY <3>1, FrameTimes
    <3>4. QED
      BY <2>1, <3>2, <3>3, <1>4
  <2>3. FramesToTime(m + 1) \in Int
    <3>1. m + 1 \in Int
      BY <1>5
    <3>2. QED
      BY <3>1, FrameTimes
  <2>4. QED
    BY <2>2, <2>3, <1>1, <1>3, <1>5, <1>6
<1>8. m >= Block
  BY <1>4, <1>5, <1>7
<1>9. QED
  BY <1>8 DEF m, a, TimeToFrames

\* A packet is put behind the others, or placed, or its channel is reset.
LEMMA OutputAudioLate == ASSUME Punctual(scenario), IInv, LateInv, IInv', OutputAudio PROVE LateInv'
<1> DEFINE c == packet.client
           old == channel[c]
           late == scenario.late
           s == Stamped(old, packet.ts, Packet, now)
           e == s.channel
<1>1. /\ cpc = "output"
      /\ \/ s.pushBack /\ old.audioTs # 0 /\ Output(packet, PushedBack(e, Samples(packet)))
         \/ /\ ~(s.pushBack /\ old.audioTs # 0) /\ ~NeedsReset(e, s.ts)
            /\ Output(packet, Placed(e, s.ts, Samples(packet)))
         \/ /\ NeedsReset(e, s.ts)
            /\ channel' = [channel EXCEPT ![c] = ResetData(e, s.ts)]
            /\ cpc' = "place" /\ packet' = packet
      /\ UNCHANGED <<scenario, now, rendered, flight, sessionVars, order, mixVars, bufferingVars, heard>>
  BY DEF OutputAudio, hookVars
<1>2. /\ ArriveInv /\ DriftInv /\ ChannelInv /\ HookInv /\ TravelInv
  BY DEF LateInv, IInv
<1>3. /\ packet \in Packets /\ c \in Clients /\ packet.ts \in Nat
      /\ packet.ts <= now /\ now - packet.ts <= late /\ old.adjust <= late
      /\ Ahead \in Nat /\ late - MaxVar <= Ahead
  BY <1>1, PacketInHand
<1>4. /\ late \in Nat /\ Delay \in Nat \ {0} /\ PacketTime \in Nat \ {0} /\ now \in Nat /\ late < Smooth
      /\ Packet \in Nat \ {0}
  BY PunctualFacts, PacketFacts
<1>5. old \in Channel /\ channel' \in [Clients -> Channel] /\ channel \in [Clients -> Channel] /\ old.audioTs \in Nat
  <2>1. ChannelInv'
    BY DEF IInv
  <2>2. old \in Channel
    BY <1>2, <1>3 DEF ChannelInv
  <2>3. QED
    BY <2>1, <2>2, <1>2, LagFacts DEF ChannelInv
<1>6. old.nextTs <= packet.ts /\ End(old) <= packet.ts + Delay + late
  BY <1>1, <1>2 DEF ArriveInv, EndsBy, Reach
<1>7. /\ old.audioTs = 0 => old.buf = <<>>
      /\ Timely(old, late) \/ (OnGrid(old.audioTs) /\ Delayed(old, late))
  BY <1>2, <1>3 DEF DriftInv
<1>8. LET x == Stamped(old, packet.ts, Packet, now)
      IN /\ x.channel.nextTs <= packet.ts + FramesToTime(Packet)
         /\ Synced(x.channel) /\ x.channel.lastSize = old.lastSize
         /\ x.ts >= Delay /\ x.ts <= packet.ts + late + Delay
         /\ Synced(old) => x.pushBack \/ x.ts >= packet.ts + Delay
  <2> DEFINE p == packet.ts
  <2>1. /\ p \in Nat /\ p <= now /\ now - p <= late /\ old.adjust <= late /\ old.nextTs <= p
        /\ now \in Nat /\ Packet \in Nat
    BY <1>3, <1>4, <1>6
  <2> HIDE DEF p, old, late
  <2>2. LET x == Stamped(old, p, Packet, now)
        IN /\ x.channel.nextTs <= p + FramesToTime(Packet)
           /\ Synced(x.channel) /\ x.channel.lastSize = old.lastSize
           /\ x.ts >= Delay /\ x.ts <= p + late + Delay
           /\ Synced(old) => x.pushBack \/ x.ts >= p + Delay
    BY <2>1, <1>4, <1>5, StampedTime, Zenon
  <2>3. QED
    BY <2>2 DEF p
<1>9. LET x == Stamped(old, packet.ts, Packet, now)
      IN /\ x.channel \in Channel /\ x.ts \in Nat /\ x.pushBack \in BOOLEAN
         /\ x.channel.buf = old.buf /\ x.channel.out = old.out /\ x.channel.pending = old.pending
         /\ x.channel.audioTs = old.audioTs
         /\ x.channel.adjust <= late
         /\ x.channel.nextTs + x.channel.adjust < now + Smooth + FramesToTime(Packet) + Ahead
  <2> DEFINE p == packet.ts
  <2>1. p \in Nat /\ p <= now /\ now - p <= late /\ old.adjust <= late /\ now \in Nat /\ Packet \in Nat
    BY <1>3, <1>4
  <2> HIDE DEF p, old, late
  <2>2. LET x == Stamped(old, p, Packet, now)
        IN /\ x.channel \in Channel /\ x.ts \in Nat /\ x.pushBack \in BOOLEAN
           /\ x.channel.buf = old.buf /\ x.channel.out = old.out /\ x.channel.pending = old.pending
           /\ x.channel.audioTs = old.audioTs
           /\ x.channel.adjust <= late
           /\ x.channel.nextTs + x.channel.adjust < now + Smooth + FramesToTime(Packet) + Ahead
    BY <2>1, <1>3, <1>4, <1>5, StampedFacts, Zenon
  <2>3. QED
    BY <2>2 DEF p
<1>10. /\ e \in Channel /\ s.ts \in Nat /\ s.ts >= Delay /\ s.ts <= packet.ts + Delay + late
       /\ e.buf = old.buf /\ e.out = old.out /\ e.pending = old.pending /\ e.audioTs = old.audioTs
       /\ e.lastSize = old.lastSize /\ Synced(e) /\ e.nextTs <= packet.ts + PacketTime
       /\ Synced(old) => s.pushBack \/ s.ts >= packet.ts + Delay
       /\ End(e) = End(old)
  <2>1. /\ e \in Channel /\ s.ts \in Nat /\ s.ts >= Delay /\ s.ts <= packet.ts + late + Delay
        /\ e.buf = old.buf /\ e.out = old.out /\ e.pending = old.pending /\ e.audioTs = old.audioTs
        /\ e.lastSize = old.lastSize /\ Synced(e) /\ e.nextTs <= packet.ts + FramesToTime(Packet)
        /\ Synced(old) => s.pushBack \/ s.ts >= packet.ts + Delay
    BY <1>8, <1>9
  <2> HIDE DEF s, old, late
  <2>2. End(e) = End(old)
    BY <2>1 DEF End
  <2>3. packet.ts + late + Delay = packet.ts + Delay + late
    BY <1>3, <1>4
  <2>4. PacketTime = FramesToTime(Packet)
    BY FrameTimes
  <2>5. QED
    BY <2>1, <2>2, <2>3, <2>4
<1> HIDE DEF s
\* a packet that goes behind n frames
<1>11. ASSUME NEW n \in Nat, NEW ch \in Channel, Output(packet, ch),
              PutBehind(e, ch, n, late), Synced(ch), ch.nextTs = e.nextTs,
              ch.out = e.out, ch.pending = e.pending,
              End(ch) <= packet.ts + PacketTime + Delay + late, old.audioTs # 0,
              n = Len(old.buf) \/ (Synced(old) /\ OnGrid(old.audioTs) => n >= Block)
       PROVE  LateInv'
  <2>1. channel' = [channel EXCEPT ![c] = ch] /\ cpc' = "wait"
    BY <1>1, <1>11, OutputFacts
  <2>2. PutBehind(old, ch, n, late)
    <3> HIDE DEF e, old, late
    <3>1. QED
      BY <1>10, <1>11 DEF PutBehind
  <2>3. ch.audioTs = old.audioTs
    BY <2>2 DEF PutBehind
  <2>4. Timely(ch, late) \/ (OnGrid(ch.audioTs) /\ Delayed(ch, late))
    <3> HIDE DEF old, late, e
    <3>1. Timely(old, late) => Timely(ch, late)
      BY <2>2, <1>4, <1>5, AfterPacket
    <3>2. OnGrid(old.audioTs) /\ Delayed(old, late) => Delayed(ch, late)
      BY <2>2, <1>4, <1>5, <1>11, AfterPacket
    <3>3. QED
      BY <3>1, <3>2, <2>3, <1>7
  <2>5. End(ch) <= Reach(packet.ts + PacketTime) /\ ch.nextTs <= packet.ts + PacketTime
    BY <1>10, <1>11 DEF Reach
  <2>6. ch.audioTs # 0 /\ ch.audioTs <= channel[c].audioTs
    BY <2>3, <1>5, <1>11
  <2>7. ch.out = channel[c].out /\ ch.pending = channel[c].pending
    BY <1>10, <1>11
  <2> HIDE DEF e, old
  <2>8. QED
    BY <1>1, <1>3, <2>1, <2>4, <2>5, <2>6, <2>7, PutLate
<1>12. \A ch : Output(packet, ch) => ch \in Channel
  <2> SUFFICES ASSUME NEW ch, Output(packet, ch)
               PROVE  ch \in Channel
    OBVIOUS
  <2>1. channel' = [channel EXCEPT ![c] = ch]
    BY <1>1, OutputFacts
  <2>2. channel'[c] = ch /\ channel'[c] \in Channel
    BY <2>1, <1>3, <1>5
  <2>3. QED
    BY <2>2
<1>13. CASE s.pushBack /\ old.audioTs # 0 /\ Output(packet, PushedBack(e, Samples(packet)))
  <2> DEFINE ch == PushedBack(e, Samples(packet))
             p == packet
  <2>1. ch \in Channel
    BY <1>12, <1>13
  <2>2. End(e) <= p.ts + Delay + late /\ p \in Packets
    BY <1>3, <1>6, <1>10
  <2>3. ch = PushedBack(e, Samples(p))
    OBVIOUS
  <2> HIDE DEF ch, p, e, late
  <2>4. /\ PutBehind(e, ch, Len(e.buf), late)
        /\ Synced(e) => Synced(ch)
        /\ ch.nextTs = e.nextTs /\ ch.audioTs = e.audioTs /\ ch.out = e.out /\ ch.pending = e.pending
        /\ End(ch) <= p.ts + PacketTime + Delay + late
    BY <2>1, <2>2, <2>3, <1>4, <1>10, PushedBehind
  <2>5. Len(old.buf) \in Nat /\ e.buf = old.buf
    BY <1>5, <1>10, LagFacts
  <2>6. Output(packet, ch)
    BY <1>13 DEF ch
  <2>7. End(ch) <= packet.ts + PacketTime + Delay + late
    BY <2>4 DEF p
  <2> HIDE DEF old
  <2>8. QED
    BY <2>1, <2>4, <2>5, <2>6, <2>7, <1>10, <1>11, <1>13
<1>14. CASE /\ ~(s.pushBack /\ old.audioTs # 0) /\ ~NeedsReset(e, s.ts)
            /\ Output(packet, Placed(e, s.ts, Samples(packet)))
  <2> DEFINE ch == Placed(e, s.ts, Samples(packet))
             p == packet
             t == s.ts
             n == TimeToFrames(t - e.audioTs)
  <2>1. ch \in Channel
    BY <1>12, <1>14
  <2>2. /\ End(e) <= p.ts + Delay + late /\ p \in Packets /\ t \in Nat
        /\ t >= e.audioTs /\ t <= p.ts + Delay + late
    <3>1. ~(s.ts < e.audioTs) /\ e.audioTs \in Nat
      BY <1>5, <1>10, <1>14 DEF NeedsReset
    <3>2. QED
      BY <3>1, <1>3, <1>6, <1>10
  <2>3. ch = Placed(e, t, Samples(p))
    OBVIOUS
  <2>4. old.audioTs # 0 /\ ~s.pushBack
    BY <1>10, <1>14 DEF NeedsReset
  <2> HIDE DEF ch, p, e, late, t
  <2>5. /\ n \in Nat /\ PutBehind(e, ch, n, late)
        /\ Synced(e) => Synced(ch)
        /\ ch.nextTs = e.nextTs /\ ch.audioTs = e.audioTs /\ ch.out = e.out /\ ch.pending = e.pending
        /\ End(ch) <= p.ts + PacketTime + Delay + late
    <3>1. e \in Channel /\ late \in Nat
      BY <1>4, <1>10
    <3>2. LET m == TimeToFrames(t - e.audioTs)
          IN /\ m \in Nat /\ PutBehind(e, ch, m, late)
             /\ Synced(e) => Synced(ch)
             /\ ch.nextTs = e.nextTs /\ ch.audioTs = e.audioTs /\ ch.out = e.out /\ ch.pending = e.pending
             /\ End(ch) <= p.ts + PacketTime + Delay + late
      BY <2>1, <2>2, <2>3, <3>1, PlacedBehind
    <3>3. QED
      BY <3>2
  <2>6. ASSUME Synced(old), OnGrid(old.audioTs)
        PROVE  n >= Block
    <3>1. t >= packet.ts + Delay
      BY <1>10, <2>4, <2>6 DEF t
    <3>2. t >= old.audioTs /\ t \in Nat /\ e.audioTs = old.audioTs
      BY <2>2, <1>10
    <3>3. now - packet.ts <= scenario.late
      BY <1>3 DEF late
    <3> HIDE DEF old
    <3>4. TimeToFrames(t - old.audioTs) >= Block
      BY <3>1, <3>2, <3>3, <2>6, <1>3, <1>5, PutFar
    <3>5. QED
      BY <3>2, <3>4
  <2>7. Output(packet, ch)
    BY <1>14 DEF ch, t
  <2>8. End(ch) <= packet.ts + PacketTime + Delay + late
    BY <2>5 DEF p
  <2>9. Synced(ch)
    BY <2>5, <1>10
  <2> HIDE DEF old, n
  <2>10. QED
    BY <2>1, <2>4, <2>5, <2>6, <2>7, <2>8, <2>9, <1>11
<1>15. CASE /\ NeedsReset(e, s.ts)
            /\ channel' = [channel EXCEPT ![c] = ResetData(e, s.ts)]
            /\ cpc' = "place" /\ packet' = packet
  <2> DEFINE ch == ResetData(e, s.ts)
  <2>1. /\ ch \in Channel /\ ch.buf = <<>> /\ ch.out = e.out /\ ch.pending = e.pending
        /\ ch.nextTs = e.nextTs /\ ch.audioTs = s.ts
    <3> DEFINE t == s.ts
    <3>1. t \in Nat /\ e \in Channel
      BY <1>10
    <3> HIDE DEF t, e
    <3>2. LET d == ResetData(e, t)
          IN /\ d \in Channel /\ d.buf = <<>> /\ d.out = e.out /\ d.pending = e.pending
             /\ d.adjust = e.adjust /\ d.nextTs = e.nextTs /\ d.nextSys = t /\ d.audioTs = t
      BY <3>1, ResetFacts, Zenon
    <3>3. QED
      BY <3>2 DEF t
  <2> HIDE DEF ch
  <2>2. End(ch) = s.ts /\ ch.audioTs # 0
    <3>1. Len(<<>>) = 0 /\ FramesToTime(0) = 0
      BY FrameTimes
    <3>2. QED
      BY <3>1, <2>1, <1>4, <1>10 DEF End
  <2>3. End(ch) <= Reach(packet.ts) /\ End(ch) <= Reach(packet.ts + PacketTime)
    <3> DEFINE t == s.ts
               p == packet.ts
    <3>1. t \in Nat /\ p \in Nat /\ t <= p + Delay + late /\ End(ch) = t
      BY <2>2, <1>3, <1>10
    <3> HIDE DEF t, p
    <3>2. t <= p + PacketTime + Delay + late
      BY <3>1, <1>4
    <3>3. QED
      BY <3>1, <3>2 DEF Reach, p
  <2>4. Timely(ch, late)
    BY <2>1, EmptyTimely
  <2>5. old.audioTs # 0 => ch.audioTs # 0 /\ ch.audioTs <= old.audioTs
    BY <2>1, <2>2, <1>5, <1>10, <1>15 DEF NeedsReset
  <2>6. ch.nextTs <= packet.ts + PacketTime /\ ch.out = channel[c].out /\ ch.pending = channel[c].pending
    BY <2>1, <1>10
  <2>7. channel' = [channel EXCEPT ![c] = ch]
    BY <1>15 DEF ch
  <2> HIDE DEF e
  <2>8. QED
    BY <1>1, <1>3, <1>15, <2>1, <2>2, <2>3, <2>4, <2>5, <2>6, <2>7, PutLate
<1>16. QED
  BY <1>1, <1>13, <1>14, <1>15
-----------------------------------------------------------------------------
(* The mix thread, in a punctual session. *)

\* A step of the mix thread that leaves the sounds where they are.
LEMMA MixKeeps ==
  ASSUME IInv, LateInv, mpc # "off", mpc' # "off",
         UNCHANGED <<scenario, now, rendered, flight, sessions, capturing, cpc, packet>>,
         \A c \in Clients : SameSounds(channel[c], channel'[c])
  PROVE  SoleInv' /\ ArriveInv'
<1>1. SoleInv /\ ArriveInv
  BY DEF LateInv
<1>2. ArriveInv'
  BY <1>1, ArriveKeeps
<1>3. SoleInv'
  BY <1>1, SoleKeeps DEF sessionVars
<1>4. QED
  BY <1>2, <1>3

\* The sounds of a channel that stays.
LEMMA SameChannels ==
  ASSUME channel' = channel
  PROVE  \A c \in Clients : SameSounds(channel[c], channel'[c]) /\ channel'[c].lastSize = channel[c].lastSize
BY DEF SameSounds

\* A tick begins behind the others.
LEMMA FetchAudioLate == ASSUME Punctual(scenario), IInv, LateInv, FetchAudio PROVE LateInv'
<1>1. /\ SoleInv /\ RowInv /\ DriftInv /\ NoDrift
      /\ AccountInv /\ LineInv /\ RoundInv
  BY DEF LateInv, IInv
<1>2. /\ mpc = "sleep" /\ audioTime <= now
      /\ queue' = Append(queue, Span(audioTime))
      /\ mixing' = Len(order)
      /\ audioTime' = audioTime + Tick
      /\ mpc' = IF order = <<>> THEN "find" ELSE "pick"
      /\ UNCHANGED <<scenario, now, rendered, flight, sessions, capturing, channel, order, cpc, packet>>
      /\ UNCHANGED <<i, wait, bufferedTs, heard>>
  BY DEF FetchAudio, hookVars, sessionVars, channelVars, captureVars, history
<1> DEFINE n == Len(queue)
<1>3. /\ queue \in Seq(Interval) /\ n \in Nat /\ DOMAIN queue = 1..n /\ audioTime \in Nat
      /\ wait \in Nat /\ wait <= n /\ Tick \in Nat \ {0} /\ bufferedTs \in Int /\ now \in Nat
  <2>1. queue \in Seq(Interval) /\ Len(queue) \in Nat /\ DOMAIN queue = 1..Len(queue)
    BY <1>1, QueueFacts DEF AccountInv
  <2>2. wait \in Nat /\ total \in Nat /\ wait <= total /\ Len(queue) = total /\ bufferedTs \in Int
    BY <1>1, <1>2, MixerAssumption DEF AccountInv
  <2>3. audioTime \in Nat /\ Tick \in Nat \ {0} /\ now \in Nat
    BY <1>1, PunctualFacts DEF LineInv
  <2>4. QED
    BY <2>1, <2>2, <2>3
<1>4. Span(audioTime) \in Interval /\ Span(audioTime).start = audioTime
  BY <1>3, SpanFacts
<1>5. /\ Len(queue') = n + 1 /\ DOMAIN queue' = 1..(n + 1)
      /\ \A k \in 1..n : queue'[k] = queue[k] /\ k \in DOMAIN queue
      /\ queue'[n + 1] = Span(audioTime)
  BY <1>2, <1>3, <1>4, AppendFacts
<1> HIDE DEF n
<1>6. \A a \in Int : audioTime' - (a + 1) * Tick = audioTime - a * Tick
  <2> SUFFICES ASSUME NEW a \in Int
               PROVE  audioTime' - (a + 1) * Tick = audioTime - a * Tick
    OBVIOUS
  <2>1. (a + 1) * Tick = a * Tick + 1 * Tick /\ 1 * Tick = Tick /\ a * Tick \in Int
    BY <1>3, TimesFacts
  <2>2. QED
    BY <2>1, <1>2, <1>3
<1>7. ASSUME NEW k \in 1..(n + 1)
      PROVE  queue'[k].start = audioTime' - (n + 1 + 1 - k) * Tick
  <2> DEFINE a == n + 1 - k
  <2>1. a \in Int /\ n + 1 + 1 - k = a + 1
    BY <1>3
  <2>2. queue'[k].start = audioTime - a * Tick
    <3>1. CASE k = n + 1
      <4>1. a = 0 /\ 0 * Tick = 0
        BY <3>1, <1>3
      <4>2. queue'[k].start = audioTime
        BY <3>1, <1>4, <1>5
      <4> HIDE DEF a
      <4>3. QED
        BY <4>1, <4>2, <1>3
    <3>2. CASE k # n + 1
      <4>1. k \in 1..n
        BY <3>2, <1>3
      <4>2. queue'[k] = queue[k] /\ k \in DOMAIN queue
        BY <4>1, <1>5
      <4>3. QED
        BY <4>2, <1>1 DEF RowInv, n
    <3>3. QED
      BY <3>1, <3>2
  <2> HIDE DEF a
  <2>3. QED
    BY <2>1, <2>2, <1>6
<1>8. wait' > 0 => bufferedTs' = audioTime' - (n + 1 - wait') * Tick
  <2> DEFINE a == n - wait
  <2>1. a \in Int /\ n + 1 - wait = a + 1
    BY <1>3
  <2>2. wait > 0 => bufferedTs = audioTime - a * Tick
    BY <1>1 DEF RowInv, n
  <2> HIDE DEF a
  <2>3. audioTime' - (n + 1 - wait) * Tick = audioTime - a * Tick
    BY <2>1, <1>6
  <2>4. QED
    BY <2>2, <2>3, <1>2
<1>9. audioTime' <= now' + Tick
  BY <1>2, <1>3
<1>10. RowInv'
  <2>1. \A k \in DOMAIN queue' : queue'[k].start = audioTime' - (Len(queue') + 1 - k) * Tick
    <3> SUFFICES ASSUME NEW k \in 1..(n + 1)
                 PROVE  queue'[k].start = audioTime' - (Len(queue') + 1 - k) * Tick
      BY <1>5
    <3>1. Len(queue') + 1 - k = n + 1 + 1 - k
      BY <1>5
    <3>2. QED
      BY <3>1, <1>7, Zenon
  <2>2. wait' > 0 => bufferedTs' = audioTime' - (Len(queue') - wait') * Tick
    <3>1. Len(queue') - wait' = n + 1 - wait'
      BY <1>2, <1>3, <1>5
    <3>2. QED
      BY <3>1, <1>8, Zenon
  <2>3. QED
    BY <2>1, <2>2, <1>9 DEF RowInv
<1>11. \A t : OnGrid(t) => OnGrid(t)'
  <2> SUFFICES ASSUME NEW t, OnGrid(t)
               PROVE  OnGrid(t)'
    OBVIOUS
  <2>1. PICK m \in Int : t = audioTime + m * Tick
    BY DEF OnGrid
  <2>2. m - 1 \in Int /\ (m - 1) * Tick = m * Tick - Tick /\ m * Tick \in Int
    BY <1>3
  <2>3. t = audioTime' + (m - 1) * Tick
    BY <2>1, <2>2, <1>2, <1>3
  <2>4. QED
    BY <2>2, <2>3, <1>2 DEF OnGrid
<1>12. DriftInv'
  BY <1>1, <1>2, <1>11 DEF DriftInv
<1>13. ToMix' = {}
  <2>1. CASE order = <<>>
    <3>1. mpc' = "find" /\ mixing' = 0
      BY <2>1, <1>2
    <3>2. QED
      BY <3>1 DEF ToMix
  <2>2. CASE order # <<>>
    <3>1. mpc' = "pick" /\ i' = 1
      BY <2>2, <1>1, <1>2 DEF RoundInv
    <3>2. QED
      BY <3>1 DEF ToMix
  <2>3. QED
    BY <2>1, <2>2
<1>14. PickInv'
  BY <1>13 DEF PickInv
<1>15. mpc # "off" /\ mpc' # "off"
  BY <1>2
<1>16. SoleInv' /\ ArriveInv'
  BY <1>2, <1>15, MixKeeps, SameChannels
<1>17. NoDrift'
  BY <1>1, <1>2 DEF NoDrift
<1>18. QED
  BY <1>10, <1>12, <1>14, <1>16, <1>17 DEF LateInv

\* Comparing times moves nothing.
LEMMA FindMinLate == ASSUME Punctual(scenario), IInv, LateInv, FindMin PROVE LateInv'
<1>1. /\ mpc \in {"find", "refind"} /\ mpc' \in {"mark", "buffer"}
      /\ UNCHANGED <<scenario, now, rendered, flight, sessions, capturing, channel, order, cpc, packet>>
      /\ UNCHANGED <<i, audioTime, mixing, queue, wait, bufferedTs, heard>>
  BY DEF FindMin, hookVars, sessionVars, channelVars, captureVars, bufferingVars, history
<1>2. ToMix' = 1..mixing /\ ToMix = 1..mixing
  BY <1>1 DEF ToMix
<1>3. PickInv'
  BY <1>1, <1>2 DEF LateInv, PickInv, SlightlyLate
<1>4. mpc # "off" /\ mpc' # "off"
  BY <1>1
<1>5. SoleInv' /\ ArriveInv'
  BY <1>1, <1>4, MixKeeps, SameChannels
<1>6. RowInv'
  BY <1>1, RowKeeps DEF LateInv
<1>7. DriftInv'
  BY <1>1, SameChannels, DriftKeeps DEF LateInv
<1>8. NoDrift'
  BY <1>1 DEF LateInv, NoDrift
<1>9. QED
  BY <1>3, <1>5, <1>6, <1>7, <1>8 DEF LateInv

\* A channel that has not enough is not mixed.
LEMMA MarkLate == ASSUME Punctual(scenario), IInv, LateInv, Mark PROVE LateInv'
<1> DEFINE short == {c \in Listed : Insufficient(channel[c], minTs)}
<1>1. /\ mpc = "mark" /\ mpc' \in {"refind", "buffer"}
      /\ channel' = [c \in Clients |-> [channel[c] EXCEPT !.pending = channel[c].pending \/ c \in short]]
      /\ UNCHANGED <<scenario, now, rendered, flight, sessions, capturing, order, cpc, packet>>
      /\ UNCHANGED <<i, audioTime, mixing, queue, wait, bufferedTs, heard>>
  BY DEF Mark, hookVars, sessionVars, captureVars, bufferingVars, history
<1>2. ASSUME NEW c \in Clients
      PROVE  /\ SameSounds(channel[c], channel'[c]) /\ channel'[c].lastSize = channel[c].lastSize
             /\ channel'[c].out = channel[c].out /\ channel'[c].audioTs = channel[c].audioTs
             /\ channel[c].pending => channel'[c].pending
  <2> DEFINE v == channel[c].pending \/ c \in short
             d == channel[c]
  <2>1. d \in Channel
    BY DEF IInv, ChannelInv
  <2>2. channel'[c] = [d EXCEPT !.pending = v]
    BY <1>1
  <2> HIDE DEF v, d
  <2>3. /\ channel'[c].pending = v /\ channel'[c].out = d.out /\ channel'[c].audioTs = d.audioTs
        /\ channel'[c].lastSize = d.lastSize /\ SameSounds(d, channel'[c])
    BY <2>1, <2>2 DEF Channel, SameSounds
  <2>4. QED
    BY <2>3 DEF v, d
<1> HIDE DEF short
<1>3. ToMix' = 1..mixing /\ ToMix = 1..mixing
  BY <1>1 DEF ToMix
<1>4. PickInv'
  <2> SUFFICES ASSUME NEW k \in ToMix', ~channel'[order[k]].pending
               PROVE  SlightlyLate(channel[order[k]])'
    BY <1>1 DEF PickInv
  <2>1. PICK c \in Clients : c = order[k]
    BY <1>3, ToMixFacts
  <2>2. SlightlyLate(channel[c])
    BY <2>1, <1>2, <1>3 DEF LateInv, PickInv
  <2>3. SlightlyLate(channel[c])'
    BY <2>2, <1>1, <1>2 DEF SlightlyLate
  <2>4. QED
    BY <2>1, <2>3, <1>1
<1>5. mpc # "off" /\ mpc' # "off"
  BY <1>1
<1>6. SoleInv' /\ ArriveInv'
  BY <1>1, <1>2, <1>5, MixKeeps
<1>7. RowInv'
  BY <1>1, RowKeeps DEF LateInv
<1>8. DriftInv'
  BY <1>1, <1>2, DriftKeeps DEF LateInv
<1>9. NoDrift'
  BY <1>1 DEF LateInv, NoDrift
<1>10. QED
  BY <1>4, <1>6, <1>7, <1>8, <1>9 DEF LateInv

\* The ticks that are put before the others are in line with them.
LEMMA BufferLate == ASSUME Punctual(scenario), IInv, LateInv, Buffer PROVE LateInv'
<1>1. /\ SoleInv /\ RowInv /\ DriftInv /\ NoDrift /\ PickInv
      /\ AccountInv /\ LineInv /\ RoundInv
  BY DEF LateInv, IInv
<1>2. /\ mpc = "buffer"
      /\ mpc' = IF wait' = 0 /\ mixing > 0 THEN "mix" ELSE "discard"
      /\ UNCHANGED <<scenario, now, rendered, flight, sessions, capturing, channel, order, cpc, packet>>
      /\ UNCHANGED <<i, audioTime, mixing, heard>>
  BY DEF Buffer, hookVars, sessionVars, channelVars, captureVars, history
<1>3. PICK n \in Nat :
           /\ total' = total + n /\ total' \in 0..MaxTicks /\ wait' = wait + n
           /\ bufferedTs' \in Int
           /\ queue' \in Seq(Interval) /\ Len(queue') = Len(queue) + n
           /\ \A k \in DOMAIN queue' : k > n => queue'[k] = queue[k - n]
           /\ \A k \in 1..wait' : queue'[k].start = bufferedTs' - (wait' + 1 - k) * Tick
           /\ ts' \in Interval /\ ts'.start = queue'[1].start
           /\ minTs > ts'.start - Frame \/ total' = MaxTicks
  BY <1>1, BufferFacts
<1> DEFINE l == Len(queue)
           b == audioTime - (l - wait) * Tick
<1>4. /\ l \in Nat /\ DOMAIN queue = 1..l /\ DOMAIN queue' = 1..(l + n)
      /\ wait \in Nat /\ wait < l /\ audioTime \in Nat /\ Tick \in Nat \ {0}
      /\ ts.start \in Int /\ ts.start = queue[1].start
  <2>1. /\ queue \in Seq(Interval) /\ Len(queue) \in Nat /\ DOMAIN queue = 1..Len(queue)
        /\ ts \in Interval /\ ts.start = queue[1].start
    BY <1>1, <1>2, QueueFacts DEF AccountInv
  <2>2. wait \in Nat /\ total \in Nat /\ wait <= total /\ Len(queue) = total + 1
    BY <1>1, <1>2, MixerAssumption DEF AccountInv
  <2>3. audioTime \in Nat /\ Tick \in Nat \ {0}
    BY <1>1, PunctualFacts DEF LineInv
  <2>4. DOMAIN queue' = 1..Len(queue') /\ ts.start \in Int
    <3>1. ts.start \in Int
      BY <2>1 DEF Interval
    <3>2. \A q \in Seq(Interval) : DOMAIN q = 1..Len(q)
      OBVIOUS
    <3>3. QED
      BY <3>1, <3>2, <1>3
  <2>5. QED
    BY <2>1, <2>2, <2>3, <2>4, <1>3
<1>5. \A a \in Int : (l - wait) * Tick \in Int /\ a * Tick \in Int /\ (l - wait + a) * Tick = (l - wait) * Tick + a * Tick
  BY <1>4, TimesFacts
<1>6. /\ wait > 0 => bufferedTs = b
      /\ wait = 0 => ts.start = b
  <2>1. wait > 0 => bufferedTs = b
    BY <1>1 DEF RowInv
  <2>2. 1 \in DOMAIN queue /\ queue[1].start = audioTime - (l + 1 - 1) * Tick
    BY <1>1, <1>4 DEF RowInv
  <2>3. wait = 0 => (l + 1 - 1) * Tick = (l - wait) * Tick
    BY <1>4
  <2>4. QED
    BY <2>1, <2>2, <2>3, <1>4
<1>7. wait' > 0 => bufferedTs' = b
  <2>1. CASE minTs < ts.start /\ AddBuffering
    <3>1. bufferedTs' = IF wait = 0 THEN ts.start ELSE bufferedTs
      BY <2>1 DEF AddBuffering
    <3>2. QED
      BY <3>1, <1>4, <1>6
  <2>2. CASE UNCHANGED <<bufferingVars, ts>>
    BY <2>2, <1>6 DEF bufferingVars
  <2>3. QED
    BY <2>1, <2>2 DEF Buffer
<1>8. b \in Int
  BY <1>4, <1>5
<1>9. ASSUME NEW k \in 1..(l + n)
      PROVE  queue'[k].start = audioTime - (l + n + 1 - k) * Tick
  <2>1. CASE k > n
    <3>1. k - n \in DOMAIN queue /\ queue'[k] = queue[k - n] /\ l + 1 - (k - n) = l + n + 1 - k
      <4>1. k - n \in DOMAIN queue /\ l + 1 - (k - n) = l + n + 1 - k
        BY <2>1, <1>4
      <4>2. k \in DOMAIN queue'
        BY <1>4
      <4>3. QED
        BY <4>1, <4>2, <2>1, <1>3
    <3>2. queue[k - n].start = audioTime - (l + 1 - (k - n)) * Tick
      BY <3>1, <1>1 DEF RowInv
    <3>3. QED
      BY <3>1, <3>2
  <2>2. CASE ~(k > n)
    <3> DEFINE a == wait + n + 1 - k
    <3>1. k \in 1..wait' /\ wait' > 0 /\ wait' + 1 - k = a /\ a \in Int /\ l + n + 1 - k = l - wait + a
      BY <2>2, <1>3, <1>4
    <3> HIDE DEF a
    <3>2. queue'[k].start = b - a * Tick
      BY <3>1, <1>3, <1>7
    <3>3. (l - wait + a) * Tick = (l - wait) * Tick + a * Tick /\ (l - wait) * Tick \in Int /\ a * Tick \in Int
      BY <3>1, <1>5
    <3>4. b - a * Tick = audioTime - (l - wait + a) * Tick
      <4> DEFINE x == (l - wait) * Tick
                 y == a * Tick
                 z == (l - wait + a) * Tick
      <4>1. z = x + y /\ x \in Int /\ y \in Int /\ b = audioTime - x
        BY <3>3
      <4> HIDE DEF x, y, z, b
      <4>2. b - y = audioTime - z
        BY <4>1, <1>4
      <4>3. QED
        BY <4>2 DEF y, z
    <3>5. QED
      BY <3>1, <3>2, <3>4
  <2>3. QED
    BY <2>1, <2>2
<1>10. wait' > 0 => bufferedTs' = audioTime - (l + n - wait') * Tick
  <2>1. l + n - wait' = l - wait
    BY <1>3, <1>4
  <2>2. QED
    BY <2>1, <1>7
<1>11. RowInv'
  <2>1. \A k \in DOMAIN queue' : queue'[k].start = audioTime' - (Len(queue') + 1 - k) * Tick
    <3> SUFFICES ASSUME NEW k \in 1..(l + n)
                 PROVE  queue'[k].start = audioTime' - (Len(queue') + 1 - k) * Tick
      BY <1>4
    <3>1. Len(queue') + 1 - k = l + n + 1 - k /\ audioTime' = audioTime
      BY <1>2, <1>3
    <3>2. QED
      BY <3>1, <1>9, Zenon
  <2>2. wait' > 0 => bufferedTs' = audioTime' - (Len(queue') - wait') * Tick
    <3>1. Len(queue') - wait' = l + n - wait' /\ audioTime' = audioTime
      BY <1>2, <1>3
    <3>2. QED
      BY <3>1, <1>10, Zenon
  <2>3. sessions' # 0 => audioTime' <= now' + Tick
    BY <1>1, <1>2 DEF RowInv
  <2>4. QED
    BY <2>1, <2>2, <2>3 DEF RowInv
<1>12. ToMix' \subseteq ToMix
  <2>1. ToMix = 1..mixing
    BY <1>2 DEF ToMix
  <2>2. CASE mpc' = "mix"
    <3>1. ToMix' = i..mixing /\ i = 1
      BY <2>2, <1>1, <1>2 DEF ToMix, RoundInv
    <3>2. QED
      BY <2>1, <3>1
  <2>3. CASE mpc' = "discard"
    <3>1. ToMix' = {}
      BY <2>3 DEF ToMix
    <3>2. QED
      BY <3>1
  <2>4. QED
    BY <2>2, <2>3, <1>2
<1>13. PickInv'
  BY <1>1, <1>2, <1>12 DEF PickInv, SlightlyLate
<1>14. mpc # "off" /\ mpc' # "off"
  BY <1>2
<1>15. SoleInv' /\ ArriveInv'
  BY <1>2, <1>14, MixKeeps, SameChannels
<1>16. DriftInv'
  BY <1>1, <1>2, SameChannels, DriftKeeps
<1>17. NoDrift'
  BY <1>1, <1>2 DEF NoDrift
<1>18. QED
  BY <1>11, <1>13, <1>15, <1>16, <1>17 DEF LateInv

\* What is picked of a channel is the front of its buffer, and was put off by no more
\* than a tick for each packet that would have filled the block.
LEMMA PickedSlightly ==
  ASSUME NEW c \in Channel, NEW d, NEW late \in Nat, Block \in Nat \ {0}, Block <= Len(c.buf),
         c.audioTs = 0 => c.buf = <<>>, Timely(c, late) \/ Delayed(c, late),
         d.audioTs = c.audioTs, \A j \in DOMAIN d.out : j \in DOMAIN c.buf /\ d.out[j] = c.buf[j]
  PROVE  /\ d.audioTs # 0
         /\ \A j \in DOMAIN d.out : d.out[j] # 0 =>
              d.audioTs + FramesToTime(j - 1) - d.out[j] <= late + Drift
<1>1. d.audioTs # 0
  <2>1. c.buf = <<>> => Len(c.buf) = 0
    OBVIOUS
  <2>2. QED
    BY <2>1
<1>2. ASSUME NEW j \in DOMAIN d.out, d.out[j] # 0
      PROVE  d.audioTs + FramesToTime(j - 1) - d.out[j] <= late + Drift
  <2>1. j \in DOMAIN c.buf /\ c.buf[j] # 0 /\ j \in Nat \ {0} /\ Lag(c, j) \in Int
    BY <1>2, LagFacts
  <2>2. d.audioTs + FramesToTime(j - 1) - d.out[j] = Lag(c, j)
    BY DEF Lag
  <2>3. Drift \in Nat
    BY DriftFacts
  <2>4. Lag(c, j) <= late + Drift
    <3>1. CASE Lag(c, j) <= late
      BY <3>1, <2>1, <2>3
    <3>2. CASE ~(Lag(c, j) <= late)
      <4>1. PICK r \in Nat, s \in {0, 1} : PutOff(c, j, late, r, s)
        BY <3>2, <2>1 DEF Timely, Delayed
      <4> DEFINE n == r + s
      <4>2. n \in Nat /\ Lag(c, j) <= late + n * Tick /\ j + (n - 1) * Packet < Block
        BY <4>1 DEF PutOff
      <4> HIDE DEF n
      <4>3. n * Tick <= Drift /\ n * Tick \in Int
        BY <4>2, <2>1, DriftFacts, TickFacts
      <4>4. QED
        BY <4>2, <4>3, <2>1, <2>3
    <3>3. QED
      BY <3>1, <3>2
  <2>5. QED
    BY <2>2, <2>4
<1>3. QED
  BY <1>1, <1>2

\* What is picked is not heard too late.
LEMMA PickLate == ASSUME Punctual(scenario), IInv, LateInv, Pick PROVE LateInv'
<1>1. /\ CaptureInv /\ RoundInv /\ ChannelInv /\ SoundInv /\ RowInv /\ DriftInv /\ PickInv /\ NoDrift
  BY DEF IInv, LateInv
<1>2. /\ UNCHANGED <<scenario, now, rendered, flight, sessions, capturing, order, cpc, packet>>
      /\ UNCHANGED <<audioTime, mixing, queue, wait, bufferedTs, heard>>
      /\ mpc = "pick"
      /\ channel' = [channel EXCEPT ![order[i]] = Picked(channel[order[i]])]
      /\ IF i < mixing THEN i' = i + 1 /\ mpc' = mpc ELSE i' = 1 /\ mpc' = "find"
  BY DEF Pick, Round, hookVars, sessionVars, captureVars, bufferingVars, history
<1>3. /\ Len(order) \in Nat /\ mixing \in 0..Len(order) /\ i \in 1..mixing
      /\ DOMAIN order = 1..Len(order) /\ IsInjective(order)
      /\ \A k \in 1..Len(order) : order[k] \in Clients
  BY <1>1, <1>2, ListedFacts DEF RoundInv, CaptureInv
<1>4. PICK c \in Clients : c = order[i]
  BY <1>3
<1> DEFINE old == channel[c]
           d == Picked(old)
<1>5. /\ Bounded(old) /\ Ordered(old.buf) /\ Ordered(old.out) /\ old \in Channel
      /\ channel \in [Clients -> Channel]
  BY <1>1 DEF ChannelInv, SoundInv, Bounded
<1>6. /\ d.audioTs = old.audioTs
      /\ ~d.pending => /\ Block <= Len(old.buf)
                       /\ \A j \in DOMAIN d.out : j \in DOMAIN old.buf /\ d.out[j] = old.buf[j]
  BY <1>5, PickedAbove
<1>7. SameSounds(old, d) /\ d.lastSize = old.lastSize
  <2> HIDE DEF old
  <2>1. CASE Len(old.buf) < Block
    BY <2>1, <1>5 DEF Picked, SameSounds, Channel
  <2>2. CASE ~(Len(old.buf) < Block)
    <3> DEFINE o == SubSeq(old.buf, 1, Block)
    <3>1. d = [old EXCEPT !.pending = FALSE, !.out = o]
      BY <2>2 DEF Picked
    <3> HIDE DEF o
    <3>2. QED
      BY <3>1, <1>5 DEF SameSounds, Channel
  <2>3. QED
    BY <2>1, <2>2
<1>8. channel' = [channel EXCEPT ![c] = d]
  BY <1>2, <1>4
<1> HIDE DEF d
<1>9. channel'[c] = d /\ \A e \in Clients : e # c => channel'[e] = channel[e]
  BY <1>5, <1>8
<1> HIDE DEF old
<1>10. \A e \in Clients : SameSounds(channel[e], channel'[e]) /\ channel'[e].lastSize = channel[e].lastSize
  <2> SUFFICES ASSUME NEW e \in Clients
               PROVE  SameSounds(channel[e], channel'[e]) /\ channel'[e].lastSize = channel[e].lastSize
    OBVIOUS
  <2>1. CASE e = c
    BY <2>1, <1>7, <1>9 DEF old
  <2>2. CASE e # c
    BY <2>2, <1>9 DEF SameSounds
  <2>3. QED
    BY <2>1, <2>2
<1>11. \A k \in ToMix' : k \in ToMix \/ k = i
  <2>1. CASE i < mixing
    <3>1. mpc' = "pick" /\ i' = i + 1
      BY <2>1, <1>2
    <3>2. ToMix' = 1..(i' - 1)
      BY <3>1 DEF ToMix
    <3>3. ToMix = 1..(i - 1)
      BY <1>2 DEF ToMix
    <3>4. QED
      BY <3>1, <3>2, <3>3, <1>3
  <2>2. CASE ~(i < mixing)
    <3>1. mpc' = "find" /\ mixing' = mixing
      BY <2>2, <1>2
    <3>2. ToMix' = 1..mixing
      BY <3>1 DEF ToMix
    <3>3. ToMix = 1..(i - 1)
      BY <1>2 DEF ToMix
    <3>4. QED
      BY <3>2, <3>3, <2>2, <1>3
  <2>3. QED
    BY <2>1, <2>2
<1>12. ~d.pending => SlightlyLate(d)
  <2>1. scenario.late \in Nat /\ Block \in Nat \ {0}
    BY PunctualFacts, ChannelAssumption
  <2>2. /\ old.audioTs = 0 => old.buf = <<>>
        /\ Timely(old, scenario.late) \/ Delayed(old, scenario.late)
    BY <1>1 DEF DriftInv, old
  <2>3. QED
    BY <2>1, <2>2, <1>5, <1>6, PickedSlightly DEF SlightlyLate
<1>13. PickInv'
  <2> SUFFICES ASSUME NEW k \in ToMix', ~channel'[order[k]].pending
               PROVE  SlightlyLate(channel[order[k]])'
    BY <1>2 DEF PickInv
  <2>1. CASE k # i /\ k \in ToMix
    <3>1. order[k] \in Clients /\ order[k] # c
      <4>1. k \in 1..Len(order) /\ i \in 1..Len(order)
        BY <2>1, <1>3, ToMixFacts
      <4>2. QED
        BY <4>1, <2>1, <1>3, <1>4 DEF IsInjective
    <3>2. channel'[order[k]] = channel[order[k]]
      BY <3>1, <1>9
    <3>3. SlightlyLate(channel[order[k]])
      BY <3>2, <2>1, <1>1 DEF PickInv
    <3>4. QED
      BY <3>2, <3>3, <1>2 DEF SlightlyLate
  <2>2. CASE k = i
    <3>1. channel'[order'[k]] = d /\ channel'[order[k]] = d
      BY <2>2, <1>2, <1>4, <1>9
    <3>2. SlightlyLate(d)
      BY <3>1, <1>12
    <3>3. QED
      BY <3>1, <3>2, <1>2 DEF SlightlyLate
  <2>3. QED
    BY <2>1, <2>2, <1>11
<1>14. mpc # "off" /\ mpc' # "off"
  BY <1>2
<1>15. SoleInv' /\ ArriveInv'
  BY <1>2, <1>10, <1>14, MixKeeps
<1>16. RowInv'
  BY <1>1, <1>2, RowKeeps
<1>17. DriftInv'
  BY <1>1, <1>2, <1>10, DriftKeeps
<1>18. NoDrift'
  BY <1>1, <1>2 DEF NoDrift
<1>19. QED
  BY <1>13, <1>15, <1>16, <1>17, <1>18 DEF LateInv

\* Of two times, what is heard from where a channel begins in a tick.
LEMMA HeardFrom ==
  ASSUME NEW c \in Channel, NEW x, x.start \in Int, x.start <= c.audioTs, NEW k \in Nat \ {0}
  PROVE  LET t == x.start + FramesToTime(StartPoint(c, x) + k - 1)
         IN t \in Int /\ t <= c.audioTs + FramesToTime(k - 1)
<1> DEFINE a == c.audioTs - x.start
           m == a \div Frame
<1>1. c.audioTs \in Nat /\ a \in Nat /\ Frame \in Nat \ {0}
  BY LagFacts, ChannelAssumption
<1>2. m \in Nat /\ m * Frame <= a /\ StartPoint(c, x) = m
  <2> HIDE DEF a
  <2>1. m \in Nat /\ m * Frame <= a
    BY <1>1, Division
  <2>2. QED
    BY <2>1 DEF StartPoint, TimeToFrames, a
<1> HIDE DEF m
<1>3. FramesToTime(m + (k - 1)) = FramesToTime(m) + FramesToTime(k - 1)
  BY <1>2, FrameTimes
<1>4. m + k - 1 = m + (k - 1)
  BY <1>2
<1>5. FramesToTime(m) \in Int /\ FramesToTime(k - 1) \in Int /\ FramesToTime(m) <= a
  BY <1>2, FrameTimes DEF FramesToTime
<1> DEFINE f == FramesToTime(m)
           g == FramesToTime(k - 1)
           t == x.start + FramesToTime(StartPoint(c, x) + k - 1)
<1>6. t = x.start + (f + g)
  BY <1>2, <1>3, <1>4
<1>7. f \in Int /\ g \in Int /\ f <= c.audioTs - x.start
  BY <1>5
<1> HIDE DEF f, g, t
<1>8. t \in Int /\ t <= c.audioTs + g
  BY <1>1, <1>6, <1>7
<1>9. QED
  BY <1>8, Zenon DEF t, g

\* Nothing that is mixed is heard too late.
LEMMA MixLate == ASSUME Punctual(scenario), IInv, LateInv, Mix PROVE LateInv'
<1>1. /\ RoundInv /\ CaptureInv /\ AccountInv /\ ChannelInv /\ HeardInv
      /\ RowInv /\ DriftInv /\ PickInv /\ NoDrift
  BY DEF IInv, LateInv
<1>2. /\ UNCHANGED <<scenario, now, rendered, flight, sessions, capturing, channel, order, cpc, packet>>
      /\ UNCHANGED <<audioTime, mixing, queue, wait, bufferedTs>>
      /\ mpc = "mix"
      /\ IF i < mixing THEN i' = i + 1 /\ mpc' = mpc ELSE i' = 1 /\ mpc' = "discard"
  BY DEF Mix, Round, hookVars, sessionVars, channelVars, captureVars, bufferingVars
<1>3. i \in 1..mixing /\ mixing \in Nat /\ i \in ToMix
  <2>1. i \in 1..mixing /\ mixing \in Nat
    BY <1>1, <1>2, ToMixFacts DEF RoundInv
  <2>2. ToMix = i..mixing
    BY <1>2 DEF ToMix
  <2>3. QED
    BY <2>1, <2>2
<1>4. PICK c \in Clients : c = order[i]
  BY <1>3, ToMixFacts
<1> DEFINE ch == channel[c]
           mix == MixedOf(ch)
<1>5. heard' = IF mix = {} THEN heard ELSE [heard EXCEPT ![c] = mix]
  BY <1>4 DEF Mix
<1>6. ch \in Channel /\ ts.start \in Int /\ scenario.late \in Nat /\ Drift \in Nat
  <2>1. ch \in Channel /\ ts \in Interval
    BY <1>1 DEF ChannelInv, AccountInv
  <2>2. QED
    BY <2>1, PunctualFacts, DriftFacts DEF Interval
<1>7. ch.pending \/ (SlightlyLate(ch) /\ Len(ch.out) = Block)
  BY <1>1, <1>3, <1>4, ToMixFacts DEF PickInv
<1>8. ASSUME NEW h \in mix
      PROVE  h[2] - h[1] <= scenario.late + Drift
  <2>1. ~ch.pending /\ h \in Mixed(ch, ts) /\ h[1] # 0
    BY <1>8 DEF MixedOf
  <2> HIDE DEF ch, mix
  <2>2. /\ ~(ch.audioTs < ts.start)
        /\ \E k \in 1..(Block - StartPoint(ch, ts)) :
             h = <<ch.out[k], ts.start + FramesToTime(StartPoint(ch, ts) + k - 1)>>
    BY <2>1 DEF Mixed
  <2>3. PICK k \in 1..(Block - StartPoint(ch, ts)) :
             h = <<ch.out[k], ts.start + FramesToTime(StartPoint(ch, ts) + k - 1)>>
    BY <2>2
  <2>4. StartPoint(ch, ts) \in Nat /\ Block \in Nat /\ ch.audioTs \in Nat /\ ts.start <= ch.audioTs
    <3> DEFINE a == ch.audioTs - ts.start
    <3>1. ch.audioTs \in Nat /\ Block \in Nat /\ Frame \in Nat \ {0}
      BY <1>6, LagFacts, ChannelAssumption
    <3>2. a \in Nat /\ ts.start <= ch.audioTs
      BY <3>1, <2>2, <1>6
    <3> HIDE DEF a
    <3>3. a \div Frame \in Nat
      BY <3>1, <3>2, Division
    <3>4. QED
      BY <3>1, <3>2, <3>3 DEF StartPoint, TimeToFrames, a
  <2>5. k \in Nat \ {0} /\ k <= Block
    BY <2>4
  <2> DEFINE t == ts.start + FramesToTime(StartPoint(ch, ts) + k - 1)
  <2>6. t \in Int /\ t <= ch.audioTs + FramesToTime(k - 1)
    BY <2>4, <2>5, <1>6, HeardFrom
  <2>7. h[1] = ch.out[k] /\ h[2] = t
    BY <2>3
  <2> HIDE DEF t
  <2>8. ch.out \in Seq(Nat) /\ k \in DOMAIN ch.out /\ ch.out[k] \in Nat
    <3>1. Len(ch.out) = Block
      BY <2>1, <1>7
    <3>2. ch.out \in Seq(Nat)
      BY <1>6 DEF Channel
    <3>3. \A q \in Seq(Nat) : \A j \in 1..Len(q) : j \in DOMAIN q /\ q[j] \in Nat
      OBVIOUS
    <3>4. QED
      BY <3>1, <3>2, <3>3, <2>5
  <2>9. ch.audioTs + FramesToTime(k - 1) - ch.out[k] <= scenario.late + Drift
    BY <2>1, <2>7, <2>8, <1>7 DEF SlightlyLate
  <2>10. FramesToTime(k - 1) \in Int
    BY <2>5, FrameTimes
  <2> DEFINE g == FramesToTime(k - 1)
             o == ch.out[k]
  <2>11. g \in Int /\ o \in Int /\ t <= ch.audioTs + g /\ ch.audioTs + g - o <= scenario.late + Drift
    BY <2>6, <2>8, <2>9, <2>10
  <2> HIDE DEF g, o
  <2>12. t - o <= scenario.late + Drift
    BY <2>4, <2>6, <2>11, <1>6
  <2>13. QED
    BY <2>7, <2>12 DEF o
<1> HIDE DEF mix, ch
<1>9. NoDrift'
  <2> SUFFICES ASSUME NEW d \in Clients, NEW h \in heard'[d]
               PROVE  h[2] - h[1] <= scenario.late + Drift
    BY <1>2 DEF NoDrift
  <2>1. heard \in [Clients -> SUBSET (Nat \X Int)]
    BY <1>1 DEF HeardInv
  <2>2. heard'[d] = heard[d] \/ heard'[d] = mix
    BY <2>1, <1>5
  <2>3. QED
    BY <2>2, <1>1, <1>8 DEF NoDrift
<1>10. ToMix' \subseteq ToMix
  <2>1. ToMix = i..mixing
    BY <1>2 DEF ToMix
  <2>2. CASE i < mixing
    <3>1. i' = i + 1 /\ mpc' = "mix" /\ mixing' = mixing
      BY <2>2, <1>2
    <3>2. ToMix' = (i + 1)..mixing
      BY <3>1 DEF ToMix
    <3>3. QED
      BY <2>1, <3>2, <1>3
  <2>3. CASE ~(i < mixing)
    <3>1. mpc' = "discard"
      BY <2>3, <1>2
    <3>2. QED
      BY <3>1 DEF ToMix
  <2>4. QED
    BY <2>2, <2>3
<1>11. PickInv'
  BY <1>1, <1>2, <1>10 DEF PickInv, SlightlyLate
<1>12. mpc # "off" /\ mpc' # "off"
  BY <1>2
<1>13. SoleInv' /\ ArriveInv'
  BY <1>2, <1>12, MixKeeps, SameChannels
<1>14. RowInv'
  BY <1>1, <1>2, RowKeeps
<1>15. DriftInv'
  BY <1>1, <1>2, SameChannels, DriftKeeps
<1>16. QED
  BY <1>9, <1>11, <1>13, <1>14, <1>15 DEF LateInv

\* The tick at work is in line with the one that is next, and has begun.
LEMMA WorkFacts ==
  ASSUME Punctual(scenario), IInv, LateInv, mpc \notin {"off", "sleep"}
  PROVE  /\ Len(queue) \in Nat \ {0} /\ DOMAIN queue = 1..Len(queue) /\ audioTime \in Nat
         /\ ts \in Interval /\ ts.start \in Int
         /\ ts.start = audioTime - Len(queue) * Tick
         /\ ts.start <= now /\ OnGrid(ts.start + Tick)
         /\ \A t \in Nat : OnGrid(t) /\ ts.start <= t /\ t < ts.start + Tick => t = ts.start
<1> DEFINE l == Len(queue)
<1>1. /\ SoleInv /\ RowInv /\ AccountInv /\ LineInv
  BY DEF IInv, LateInv
<1>2. /\ l \in Nat \ {0} /\ DOMAIN queue = 1..l /\ audioTime \in Nat /\ Tick \in Nat \ {0} /\ now \in Nat
      /\ ts \in Interval /\ ts.start \in Int /\ ts.start = queue[1].start
  <2>1. ts \in Interval /\ ts.start \in Int
    BY <1>1 DEF AccountInv, Interval
  <2>2. Len(queue) \in Nat /\ DOMAIN queue = 1..Len(queue)
    BY <1>1, QueueFacts DEF AccountInv
  <2>3. total \in Nat /\ Len(queue) = total + 1 /\ ts.start = queue[1].start
    BY <1>1, MixerAssumption DEF AccountInv
  <2>4. audioTime \in Nat /\ Tick \in Nat \ {0} /\ now \in Nat
    BY <1>1, PunctualFacts DEF LineInv
  <2>5. QED
    BY <2>1, <2>2, <2>3, <2>4
<1>3. audioTime <= now + Tick
  BY <1>1 DEF SoleInv, RowInv
<1>4. ts.start = audioTime - l * Tick
  <2>1. 1 \in DOMAIN queue
    BY <1>2
  <2>2. queue[1].start = audioTime - (l + 1 - 1) * Tick
    BY <2>1, <1>1 DEF RowInv
  <2>3. l + 1 - 1 = l
    BY <1>2
  <2>4. QED
    BY <2>2, <2>3, <1>2
<1> HIDE DEF l
<1>5. /\ l * Tick \in Int /\ l * Tick >= Tick /\ (1 - l) * Tick = Tick - l * Tick
      /\ \A m \in Int : m * Tick \in Int /\ (m + l) * Tick = m * Tick + l * Tick
  <2>1. l * Tick \in Int /\ l * Tick >= Tick
    BY <1>2, TimesFacts
  <2>2. (1 - l) * Tick = 1 * Tick - l * Tick /\ 1 * Tick = Tick
    BY <1>2, TimesFacts
  <2>3. QED
    BY <2>1, <2>2, <1>2, TimesFacts
<1>6. ts.start <= now
  BY <1>2, <1>3, <1>4, <1>5
<1>7. OnGrid(ts.start + Tick)
  <2>1. ts.start + Tick = audioTime + (1 - l) * Tick
    BY <1>2, <1>4, <1>5
  <2>2. 1 - l \in Int /\ ts.start + Tick <= now + Tick
    BY <1>2, <1>6
  <2>3. QED
    BY <2>1, <2>2 DEF OnGrid
<1>8. ASSUME NEW t \in Nat, OnGrid(t), ts.start <= t, t < ts.start + Tick
      PROVE  t = ts.start
  <2>1. PICK m \in Int : t = audioTime + m * Tick
    BY <1>8 DEF OnGrid
  <2> DEFINE a == m + l
  <2>2. a \in Int /\ a * Tick = m * Tick + l * Tick /\ m * Tick \in Int
    BY <1>2, <1>5
  <2> HIDE DEF a
  <2>3. a * Tick = t - ts.start
    BY <2>1, <2>2, <1>2, <1>4, <1>5
  <2>4. a * Tick >= 0 /\ a * Tick < Tick
    BY <2>3, <1>2, <1>8
  <2>5. a = 0
    <3>1. a >= 1 => a * Tick >= Tick
      BY <2>2, <1>2, TimesFacts
    <3>2. a <= -1 => a * Tick <= (-1) * Tick
      BY <2>2, <1>2, TimesFacts
    <3>3. (-1) * Tick = -Tick
      BY <1>2
    <3>4. a * Tick \in Int
      BY <2>2, <1>2
    <3> DEFINE y == a * Tick
    <3>5. y \in Int /\ y >= 0 /\ y < Tick /\ (a >= 1 => y >= Tick) /\ (a <= -1 => y <= -Tick)
      BY <3>1, <3>2, <3>3, <3>4, <2>4
    <3> HIDE DEF y
    <3>6. QED
      BY <3>5, <2>2, <1>2
  <2>6. a * Tick = 0
    BY <2>5, <1>2
  <2>7. QED
    BY <2>3, <2>6, <1>2
<1>9. QED
  BY <1>2, <1>4, <1>6, <1>7, <1>8 DEF l

\* What is left of a channel when a tick is discarded.
LEMMA LeftLate ==
  ASSUME Punctual(scenario), IInv, LateInv, mpc = "discard", ts.end = ts.start + Tick,
         NEW c \in Clients, NEW full \in BOOLEAN, NEW d,
         d \in {channel[c], Discarded(channel[c], ts, full)}
  PROVE  /\ d \in Channel /\ d.nextTs = channel[c].nextTs
         /\ d.audioTs = 0 => d.buf = <<>>
         /\ End(d) <= End(channel[c]) \/ End(d) <= now + Delay - scenario.late
         /\ \/ Timely(d, scenario.late)
            \/ OnGrid(d.audioTs) /\ Delayed(d, scenario.late)
<1> DEFINE ch == channel[c]
           late == scenario.late
<1>1. /\ ChannelInv /\ SoundInv /\ AccountInv /\ DriftInv
  BY DEF IInv, LateInv
<1>2. /\ late \in Nat /\ late + Tick + Tick <= Delay /\ now \in Nat /\ Tick \in Nat \ {0} /\ Delay \in Nat \ {0}
  BY PunctualFacts
<1>3. /\ ts \in [start : Int, end : Nat] /\ ts.start \in Int /\ ts.start <= now /\ OnGrid(ts.end)
      /\ \A t \in Nat : OnGrid(t) /\ ts.start <= t /\ t < ts.end => t = ts.start
  BY WorkFacts DEF Interval
<1>4. /\ Bounded(ch) /\ Ordered(ch.buf) /\ ch \in Channel
      /\ ch.audioTs = 0 => ch.buf = <<>>
      /\ Timely(ch, late) \/ (OnGrid(ch.audioTs) /\ Delayed(ch, late))
  BY <1>1 DEF ChannelInv, SoundInv, Bounded, DriftInv
<1>5. ch.audioTs \in Nat /\ End(ch) \in Int
  BY <1>4, LagFacts
<1> HIDE DEF ch, late
<1>6. d \in Channel /\ d.nextTs = ch.nextTs
  <2>1. LET e == Discarded(ch, ts, full)
        IN /\ Bounded(e) /\ e.out = ch.out /\ e.adjust = ch.adjust /\ e.nextTs = ch.nextTs
           /\ Ordered(e.buf) /\ \A t \in Int : Below(ch.buf, t) => Below(e.buf, t)
    BY <1>3, <1>4, DiscardedFacts, Zenon
  <2>2. CASE d = ch
    BY <2>2, <1>4
  <2>3. CASE d = Discarded(ch, ts, full)
    BY <2>1, <2>3 DEF Bounded
  <2>4. QED
    BY <2>2, <2>3 DEF ch
<1>7. DiscardKeeps(ch, d, ts, late)
  <2>1. CASE d = ch
    <3>1. SameSounds(ch, d) /\ d.lastSize = ch.lastSize
      BY <2>1 DEF SameSounds
    <3>2. QED
      BY <3>1, <1>4, KeepsSame
  <2>2. CASE d = Discarded(ch, ts, full)
    BY <2>2, <1>2, <1>3, <1>4, DiscardedKeeps
  <2>3. QED
    BY <2>1, <2>2 DEF ch
<1>8. d.audioTs = 0 => d.buf = <<>>
  BY <1>4, <1>7 DEF DiscardKeeps
<1>9. d.audioTs \in Nat /\ End(d) \in Int
  BY <1>6, LagFacts
<1>10. End(d) <= End(ch) \/ End(d) <= now + Delay - late
  <2>1. CASE d.audioTs = 0
    <3>1. d.buf = <<>>
      BY <2>1, <1>8
    <3>2. Len(<<>>) = 0 /\ FramesToTime(0) = 0
      BY FrameTimes
    <3>3. End(d) = 0
      BY <2>1, <3>1, <3>2 DEF End
    <3>4. QED
      BY <3>3, <1>2
  <2>2. CASE d.audioTs # 0
    <3>1. End(d) <= End(ch) \/ (d.audioTs = ts.end /\ End(d) < ts.end + Tick)
      BY <2>2, <1>7 DEF DiscardKeeps
    <3>2. QED
      BY <3>1, <1>2, <1>3, <1>5, <1>9
  <2>3. QED
    BY <2>1, <2>2
<1>11. Timely(d, late) \/ (OnGrid(d.audioTs) /\ Delayed(d, late))
  <2>1. CASE d.buf = <<>>
    BY <2>1, EmptyTimely
  <2>2. CASE Timely(ch, late) /\ d.audioTs = ch.audioTs
    BY <2>2, <1>7 DEF DiscardKeeps
  <2>3. CASE Timely(ch, late) /\ d.audioTs = ts.end
    BY <2>3, <1>3, <1>7 DEF DiscardKeeps
  <2>4. CASE OnGrid(ch.audioTs) /\ Delayed(ch, late) /\ d.audioTs \in {ch.audioTs, ts.end}
    <3>1. ts.start <= ch.audioTs /\ ch.audioTs < ts.end => ch.audioTs = ts.start
      BY <2>4, <1>3, <1>5
    <3>2. Delayed(d, late)
      BY <2>4, <3>1, <1>7 DEF DiscardKeeps
    <3>3. OnGrid(d.audioTs)
      BY <2>4, <1>3
    <3>4. QED
      BY <3>2, <3>3
  <2>5. QED
    BY <2>1, <2>2, <2>3, <2>4, <1>4, <1>7 DEF DiscardKeeps
<1>12. QED
  BY <1>6, <1>8, <1>10, <1>11 DEF ch, late

\* A tick is discarded: what does not fill it is put off.
LEMMA DiscardLate ==
  ASSUME Punctual(scenario), IInv, LateInv, EndsWritten, Discard
  PROVE  LateInv'
<1> DEFINE full == (total = MaxTicks)
           after == [c \in Clients |->
                       IF c \in Listed THEN Discarded(channel[c], ts, full) ELSE channel[c]]
           late == scenario.late
<1>1. /\ ChannelInv /\ SoundInv /\ AccountInv /\ LineInv /\ TravelInv
      /\ SoleInv /\ RowInv /\ ArriveInv /\ DriftInv /\ NoDrift
  BY DEF IInv, LateInv
<1>2. /\ UNCHANGED <<scenario, now, rendered, flight, sessions, capturing, cpc, packet>>
      /\ UNCHANGED <<audioTime, bufferedTs, heard>>
      /\ mpc = "discard" /\ mpc' = "sleep" /\ \A c \in Listed : ~AudioBufHeld(c)
      /\ channel' = [c \in Clients |-> [after[c] EXCEPT !.out = <<>>]]
  BY DEF Discard, hookVars, sessionVars, captureVars
<1>3. ts.end = ts.start + Tick
  BY <1>2 DEF EndsWritten
<1>4. /\ late \in Nat /\ late + Tick + Tick <= Delay /\ now \in Nat /\ Tick \in Nat \ {0} /\ Delay \in Nat \ {0}
      /\ PacketTime \in Nat \ {0}
  BY PunctualFacts
<1>5. ASSUME NEW c \in Clients
      PROVE  LET e == channel'[c]
             IN /\ e \in Channel /\ e.nextTs = channel[c].nextTs
                /\ c \notin Listed => e.buf = channel[c].buf /\ e.audioTs = channel[c].audioTs
                /\ e.audioTs = 0 => e.buf = <<>>
                /\ End(e) <= End(channel[c]) \/ End(e) <= now + Delay - late
                /\ \/ Timely(e, late)
                   \/ OnGrid(e.audioTs) /\ Delayed(e, late)
  <2> DEFINE d == after[c]
             e == channel'[c]
  <2>1. /\ d \in Channel /\ d.nextTs = channel[c].nextTs
        /\ d.audioTs = 0 => d.buf = <<>>
        /\ End(d) <= End(channel[c]) \/ End(d) <= now + Delay - late
        /\ Timely(d, late) \/ (OnGrid(d.audioTs) /\ Delayed(d, late))
    <3>1. d \in {channel[c], Discarded(channel[c], ts, full)} /\ full \in BOOLEAN
      OBVIOUS
    <3> HIDE DEF d, full
    <3>2. QED
      BY <3>1, <1>2, <1>3, LeftLate
  <2>2. c \notin Listed => d = channel[c]
    OBVIOUS
  <2>3. e = [d EXCEPT !.out = <<>>]
    BY <1>2
  <2> HIDE DEF d, e
  <2>4. e \in Channel /\ SameSounds(d, e) /\ e.lastSize = d.lastSize
    <3>1. <<>> \in Seq(Nat)
      OBVIOUS
    <3>2. QED
      BY <3>1, <2>1, <2>3 DEF Channel, SameSounds
  <2>5. e.buf = d.buf /\ e.audioTs = d.audioTs /\ e.nextTs = d.nextTs /\ End(e) = End(d) /\ \A k : Lag(e, k) = Lag(d, k)
    BY <2>4 DEF SameSounds, End, Lag
  <2>6. Timely(d, late) => Timely(e, late)
    BY <2>5 DEF Timely
  <2>7. \A k, r, s : PutOff(d, k, late, r, s) => PutOff(e, k, late, r, s)
    BY <2>4, StillPutOff
  <2>8. Delayed(d, late) => Delayed(e, late)
    BY <2>5, <2>7 DEF Delayed
  <2>9. QED
    BY <2>1, <2>2, <2>4, <2>5, <2>6, <2>8 DEF e
<1> HIDE DEF full, after, late
<1>6. SoleInv'
  BY <1>1, <1>2, SoleKeeps DEF sessionVars
<1>7. RowInv'
  <2> DEFINE l == Len(queue)
  <2>1. /\ l \in Nat \ {0} /\ Len(queue') = l - 1 /\ DOMAIN queue' = 1..(l - 1) /\ DOMAIN queue = 1..l
        /\ \A k \in 1..(l - 1) : queue'[k] = queue[k + 1] /\ k + 1 \in 1..l
        /\ wait \in Nat /\ wait' \in Nat /\ (wait = 0 => wait' = 0) /\ (wait # 0 => wait' = wait - 1)
    BY <1>1, DiscardFacts
  <2>2. \A k \in DOMAIN queue' : queue'[k].start = audioTime' - (Len(queue') + 1 - k) * Tick
    <3> SUFFICES ASSUME NEW k \in 1..(l - 1)
                 PROVE  queue'[k].start = audioTime' - (Len(queue') + 1 - k) * Tick
      BY <2>1
    <3>1. queue'[k] = queue[k + 1] /\ k + 1 \in DOMAIN queue
      BY <2>1
    <3>2. queue[k + 1].start = audioTime - (l + 1 - (k + 1)) * Tick
      BY <3>1, <1>1 DEF RowInv
    <3>3. Len(queue') + 1 - k = l + 1 - (k + 1) /\ audioTime' = audioTime
      BY <2>1, <1>2
    <3>4. QED
      BY <3>1, <3>2, <3>3, Zenon
  <2>3. wait' > 0 => bufferedTs' = audioTime' - (Len(queue') - wait') * Tick
    <3> SUFFICES ASSUME wait' > 0
                 PROVE  bufferedTs' = audioTime' - (Len(queue') - wait') * Tick
      OBVIOUS
    <3>1. wait > 0 /\ Len(queue') - wait' = l - wait
      BY <2>1
    <3>2. bufferedTs = audioTime - (l - wait) * Tick
      BY <3>1, <1>1 DEF RowInv
    <3>3. bufferedTs' = bufferedTs /\ audioTime' = audioTime
      BY <1>2
    <3>4. QED
      BY <3>1, <3>2, <3>3, Zenon
  <2>4. sessions' # 0 => audioTime' <= now' + Tick
    BY <1>1, <1>2 DEF RowInv
  <2>5. QED
    BY <2>2, <2>3, <2>4 DEF RowInv
<1>8. ASSUME NEW c \in Clients
      PROVE  End(channel[c]) \in Int /\ End(channel'[c]) \in Int
  <2>1. channel[c] \in Channel /\ channel'[c] \in Channel
    BY <1>1, <1>5 DEF ChannelInv
  <2>2. QED
    BY <2>1, LagFacts
<1>9. ASSUME NEW c \in Clients, NEW t \in Nat, now <= t + late, EndsBy(channel[c], t)
      PROVE  EndsBy(channel'[c], t)
  <2>1. channel[c].nextTs <= t /\ End(channel[c]) <= t + Delay + late
    BY <1>9 DEF EndsBy, Reach, late
  <2>2. channel'[c].nextTs <= t
    BY <2>1, <1>5
  <2>3. End(channel'[c]) <= End(channel[c]) \/ End(channel'[c]) <= now + Delay - late
    BY <1>5
  <2> DEFINE x == End(channel'[c])
             y == End(channel[c])
  <2>4. x \in Int /\ y \in Int /\ y <= t + Delay + late /\ (x <= y \/ x <= now + Delay - late)
    BY <2>1, <2>3, <1>8
  <2> HIDE DEF x, y
  <2>5. x <= t + Delay + late
    BY <2>4, <1>4, <1>9
  <2>6. QED
    BY <2>2, <2>5 DEF EndsBy, Reach, late, x
<1>10. \A p \in Packets : Due(p) => p.ts \in Nat /\ p.client \in Clients /\ now <= p.ts + late
  BY DEF Due, Packets, late
<1>11. \A c \in Clients :
         /\ channel'[c].nextTs <= IF rendered[c] = 0 THEN 0 ELSE rendered[c] + PacketTime
         /\ \/ End(channel'[c]) <= Reach(now)
            \/ rendered[c] # 0 /\ End(channel'[c]) <= Reach(rendered[c] + PacketTime)
  <2> SUFFICES ASSUME NEW c \in Clients
               PROVE  /\ channel'[c].nextTs <= IF rendered[c] = 0 THEN 0 ELSE rendered[c] + PacketTime
                      /\ \/ End(channel'[c]) <= Reach(now)
                         \/ rendered[c] # 0 /\ End(channel'[c]) <= Reach(rendered[c] + PacketTime)
    OBVIOUS
  <2>1. /\ channel[c].nextTs <= IF rendered[c] = 0 THEN 0 ELSE rendered[c] + PacketTime
        /\ \/ End(channel[c]) <= Reach(now)
           \/ rendered[c] # 0 /\ End(channel[c]) <= Reach(rendered[c] + PacketTime)
    BY <1>1 DEF ArriveInv
  <2>2. channel'[c].nextTs = channel[c].nextTs
    BY <1>5
  <2>3. Reach(now) = now + Delay + late /\ Reach(rendered[c] + PacketTime) \in Int
    <3>1. rendered[c] + PacketTime \in Int
      BY <1>4, PunctualFacts
    <3>2. QED
      BY <3>1, PunctualFacts DEF Reach, late
  <2>4. End(channel'[c]) <= End(channel[c]) \/ End(channel'[c]) <= now + Delay - late
    BY <1>5
  <2> DEFINE x == End(channel'[c])
             y == End(channel[c])
             z == Reach(rendered[c] + PacketTime)
  <2>5. /\ x \in Int /\ y \in Int /\ z \in Int /\ (x <= y \/ x <= now + Delay - late)
        /\ y <= now + Delay + late \/ (rendered[c] # 0 /\ y <= z)
    BY <2>1, <2>3, <2>4, <1>8
  <2> HIDE DEF x, y, z
  <2>6. x <= now + Delay + late \/ (rendered[c] # 0 /\ x <= z)
    BY <2>5, <1>4
  <2>7. QED
    BY <2>1, <2>2, <2>3, <2>6 DEF x, z
<1>12. \A k \in DOMAIN flight : EndsBy(channel'[flight[k].client], flight[k].ts)
  <2> SUFFICES ASSUME NEW k \in DOMAIN flight
               PROVE  EndsBy(channel'[flight[k].client], flight[k].ts)
    OBVIOUS
  <2>1. Due(flight[k]) /\ EndsBy(channel[flight[k].client], flight[k].ts)
    BY <1>1 DEF TravelInv, ArriveInv
  <2>2. flight[k].ts \in Nat /\ flight[k].client \in Clients /\ now <= flight[k].ts + late
    BY <2>1, <1>10 DEF Due
  <2>3. QED
    BY <2>1, <2>2, <1>9
<1>13. cpc = "output" => EndsBy(channel'[packet.client], packet.ts)
  <2> SUFFICES ASSUME cpc = "output"
               PROVE  EndsBy(channel'[packet.client], packet.ts)
    OBVIOUS
  <2>1. Due(packet) /\ EndsBy(channel[packet.client], packet.ts)
    BY <1>1 DEF TravelInv, ArriveInv
  <2>2. packet.ts \in Nat /\ packet.client \in Clients /\ now <= packet.ts + late
    BY <2>1, <1>10 DEF Due
  <2>3. QED
    BY <2>1, <2>2, <1>9
<1>14. cpc = "place" => LET e == channel'[packet.client]
                        IN /\ e.buf = <<>> /\ e.audioTs # 0
                           /\ End(e) <= Reach(packet.ts) /\ e.nextTs <= packet.ts + PacketTime
  <2> SUFFICES ASSUME cpc = "place"
               PROVE  LET e == channel'[packet.client]
                      IN /\ e.buf = <<>> /\ e.audioTs # 0
                         /\ End(e) <= Reach(packet.ts) /\ e.nextTs <= packet.ts + PacketTime
    OBVIOUS
  <2>1. packet.client \in Clients /\ packet.client \notin Listed
    BY <1>2, PacketInHand DEF AudioBufHeld
  <2> DEFINE e == channel'[packet.client]
             ch == channel[packet.client]
  <2>2. e.buf = ch.buf /\ e.audioTs = ch.audioTs /\ e.nextTs = ch.nextTs
    BY <2>1, <1>5
  <2>3. End(e) = End(ch)
    BY <2>2 DEF End
  <2>4. ch.buf = <<>> /\ ch.audioTs # 0 /\ End(ch) <= Reach(packet.ts) /\ ch.nextTs <= packet.ts + PacketTime
    BY <1>1 DEF ArriveInv
  <2>5. QED
    BY <2>2, <2>3, <2>4
<1>15. ArriveInv'
  <2>2. \A c \in Clients :
         /\ channel'[c].nextTs <= IF rendered'[c] = 0 THEN 0 ELSE rendered'[c] + PacketTime
         /\ \/ End(channel'[c]) <= Reach(now)'
            \/ rendered'[c] # 0 /\ End(channel'[c]) <= Reach(rendered[c] + PacketTime)'
    BY <1>2, <1>11 DEF Reach
  <2>3. \A k \in DOMAIN flight' : EndsBy(channel[flight[k].client], flight[k].ts)'
    BY <1>2, <1>12 DEF EndsBy, Reach
  <2>4. cpc' = "output" => EndsBy(channel[packet.client], packet.ts)'
    BY <1>2, <1>13 DEF EndsBy, Reach
  <2>5. cpc' = "place" => /\ channel'[packet'.client].buf = <<>> /\ channel'[packet'.client].audioTs # 0
                          /\ End(channel'[packet'.client]) <= Reach(packet.ts)'
                          /\ channel'[packet'.client].nextTs <= packet'.ts + PacketTime
    BY <1>2, <1>14 DEF Reach
  <2>6. QED
    BY <2>2, <2>3, <2>4, <2>5 DEF ArriveInv
<1>16. DriftInv'
  <2>2. \A c \in Clients :
          /\ channel'[c].audioTs = 0 => channel'[c].buf = <<>>
          /\ \/ Timely(channel'[c], late)
             \/ OnGrid(channel'[c].audioTs) /\ Delayed(channel'[c], late)
    BY <1>5
  <2>3. scenario'.late = late
    BY <1>2 DEF late
  <2>4. \A c \in Clients : OnGrid(channel'[c].audioTs) => OnGrid(channel[c].audioTs)'
    BY <1>2 DEF OnGrid
  <2>5. QED
    BY <2>2, <2>3, <2>4 DEF DriftInv
<1>17. PickInv'
  <2>1. ToMix' = {}
    BY <1>2 DEF ToMix
  <2>2. QED
    BY <2>1 DEF PickInv
<1>18. NoDrift'
  BY <1>1, <1>2 DEF NoDrift
<1>19. QED
  BY <1>6, <1>7, <1>15, <1>16, <1>17, <1>18 DEF LateInv
-----------------------------------------------------------------------------
\* Every step, of whichever thread, keeps a punctual session so.
LEMMA LateStep ==
  ASSUME Punctual(scenario), IInv, LateInv, EndsWritten, IInv', [Next]_vars
  PROVE  LateInv'
<1>1. CASE UNCHANGED vars
  BY <1>1 DEF vars, hookVars, sessionVars, channelVars, captureVars, mixVars, bufferingVars, history,
     LateInv, SoleInv, RowInv, ArriveInv, DriftInv, PickInv, NoDrift, EndsBy, Reach, OnGrid, SlightlyLate, ToMix
<1>2. CASE \E c \in Clients : Release(c)
  BY <1>2, ReleaseLate
<1>3. CASE Pass \/ Start \/ Stop
  BY <1>3, PassLate, StartLate, NoStop
<1>4. CASE CaptureThread
  BY <1>4, ReceiveLate, OutputAudioLate, PlaceLate, NoStop DEF CaptureThread
<1>5. CASE MixThread
  BY <1>5, FetchAudioLate, PickLate, FindMinLate, MarkLate, BufferLate, MixLate, DiscardLate, NoStop
     DEF MixThread
<1>6. CASE TheEnd
  BY <1>1, <1>6 DEF TheEnd
<1>7. QED
  BY <1>1, <1>2, <1>3, <1>4, <1>5, <1>6 DEF Next

\* However often a channel runs short, and in whatever order its packets come in between,
\* a sample is not heard later than its packet was late by more than a tick for each
\* packet that a block may lack: in a session whose packets are not later than the Delay
\* allows with two ticks, nor than what is smoothed, and whose ticks end where they
\* should.
THEOREM SmallDrift == Spec /\ []EndsWritten /\ Punctual(scenario) => []NoDrift
<1>1. Punctual(scenario) /\ Init => LateInv
  BY InitLate
<1>2. Punctual(scenario) /\ [Next]_vars => Punctual(scenario)'
  BY ScenarioStays DEF Punctual
<1>3. Punctual(scenario) /\ IInv /\ LateInv /\ EndsWritten /\ IInv' /\ [Next]_vars => LateInv'
  BY LateStep
<1>4. LateInv => NoDrift
  BY DEF LateInv
<1>5. QED
  BY <1>1, <1>2, <1>3, <1>4, Invariance, PTL DEF Spec
-----------------------------------------------------------------------------
(* Where a frame is a unit of time, ticks end where they should. *)

\* All that wait do, and the one at work is the first of them.
WholeInv ==
  /\ \A k \in DOMAIN queue : queue[k].end = queue[k].start + Tick
  /\ AtWork => ts = queue[1]

\* Ticks are put before the one at work when a channel is a frame or more behind it: then
\* there is one at least, and the first of them comes to be at work.
LEMMA AddWhole ==
  ASSUME Frame = 1, AccountInv, WholeInv, mpc = "buffer", minTs < ts.start, AddBuffering
  PROVE  /\ \A k \in DOMAIN queue' : queue'[k].end = queue'[k].start + Tick
         /\ ts' = queue'[1]
<1> DEFINE t == ts.start - minTs
           behind == TicksBehind(t)
           n == IF total + behind > MaxTicks THEN MaxTicks - total ELSE behind
           base == IF wait = 0 THEN ts.start ELSE bufferedTs
           start(k) == base - k * Tick
           added == [k \in 1..n |-> Span(start(wait + n + 1 - k))]
<1>1. /\ total < MaxTicks /\ queue' = added \o queue
      /\ ts' \in IF n > 0 THEN {Head(queue')} ELSE [start : {start(wait)}, end : Junk]
  BY DEF AddBuffering
<1>2. /\ queue \in Seq(Interval) /\ Len(queue) \in Nat /\ DOMAIN queue = 1..Len(queue) /\ total \in Nat
      /\ MaxTicks \in Nat /\ Tick \in Nat \ {0}
  BY QueueFacts, TickFacts, MixerAssumption
<1>3. t \in Nat /\ t > 0
  <2>1. ts \in Interval /\ minTs \in Nat
    BY DEF AccountInv
  <2>2. QED
    BY <2>1 DEF Interval
<1> HIDE DEF t
<1>4. behind \in Nat \ {0}
  <2>1. behind \in Nat /\ behind * Tick \in Nat /\ t - Frame < behind * Tick
    BY <1>3, BehindFacts
  <2> HIDE DEF behind
  <2>2. behind * Tick > 0
    BY <2>1, <1>3
  <2>3. QED
    BY <2>1, <2>2, <1>2
<1> HIDE DEF behind
<1>5. n \in Nat \ {0}
  BY <1>1, <1>2, <1>4
<1> HIDE DEF n, start
<1> DEFINE S == {Span(start(wait + n + 1 - k)) : k \in 1..n} \cup Interval
<1>6. /\ added \in Seq(S) /\ Len(added) = n
      /\ \A k \in 1..n : added[k] = Span(start(wait + n + 1 - k))
  <2>1. added \in [1..n -> S]
    OBVIOUS
  <2> HIDE DEF S
  <2>2. added \in Seq(S) /\ Len(added) = n
    BY <2>1, <1>5
  <2>3. QED
    BY <2>2
<1>7. \A k \in 1..n : added[k].end = added[k].start + Tick
  BY <1>6 DEF Span
<1> HIDE DEF added
<1>8. added \in Seq(S) /\ queue \in Seq(S)
  BY <1>2, <1>6
<1> HIDE DEF S
<1>9. /\ queue' \in Seq(S) /\ Len(queue') = n + Len(queue) /\ DOMAIN queue' = 1..(n + Len(queue))
      /\ \A k \in 1..n : queue'[k] = added[k]
      /\ \A k \in DOMAIN queue' : k > n => queue'[k] = queue[k - n]
  <2>1. LET q == added \o queue
        IN /\ q \in Seq(S) /\ Len(q) = Len(added) + Len(queue)
           /\ DOMAIN q = 1..(Len(added) + Len(queue))
           /\ \A k \in 1..Len(added) : q[k] = added[k]
           /\ \A k \in DOMAIN q : k > Len(added) => q[k] = queue[k - Len(added)]
    BY <1>8, ConcatFacts, Zenon
  <2>2. QED
    BY <2>1, <1>1, <1>6, Zenon
<1>10. ASSUME NEW k \in DOMAIN queue'
       PROVE  queue'[k].end = queue'[k].start + Tick
  <2>1. CASE k \in 1..n
    BY <2>1, <1>7, <1>9
  <2>2. CASE k \notin 1..n
    <3>1. k > n /\ k - n \in DOMAIN queue
      BY <2>2, <1>2, <1>5, <1>9
    <3>2. queue'[k] = queue[k - n]
      BY <3>1, <1>9
    <3>3. QED
      BY <3>1, <3>2 DEF WholeInv
  <2>3. QED
    BY <2>1, <2>2
<1>11. ts' = queue'[1]
  <2>1. queue' # <<>> /\ n > 0
    BY <1>2, <1>5, <1>9
  <2>2. QED
    BY <2>1, <1>1, <1>9
<1>12. QED
  BY <1>10, <1>11

\* A step that neither begins a tick nor ends one leaves it whole.
LEMMA WholeStays ==
  ASSUME WholeInv, UNCHANGED <<queue, ts>>, AtWork' => AtWork
  PROVE  WholeInv'
BY DEF WholeInv

\* Every step leaves the ticks whole.
LEMMA WholeStep ==
  ASSUME Frame = 1, IInv, WholeInv, [Next]_vars
  PROVE  WholeInv'
<1>1. AccountInv
  BY DEF IInv
<1>2. CASE UNCHANGED vars \/ TheEnd \/ Pass \/ Stop \/ CaptureThread \/ \E c \in Clients : Release(c)
  <2>1. UNCHANGED <<queue, ts, mpc>>
    BY <1>2 DEF vars, mixVars, bufferingVars, TheEnd, Pass, Stop, CaptureThread, Release,
       Receive, OutputAudio, Place, CaptureLeaves
  <2>2. QED
    BY <2>1, WholeStays DEF AtWork
<1>3. CASE Start \/ MixLeaves
  BY <1>3, WholeStays DEF Start, MixLeaves, AtWork, bufferingVars
<1>4. CASE Pick \/ FindMin \/ Mark \/ Mix
  <2>1. UNCHANGED <<queue, ts>> /\ AtWork
    BY <1>4 DEF Pick, FindMin, Mark, Mix, AtWork, bufferingVars
  <2>2. QED
    BY <2>1, WholeStays
<1>5. CASE FetchAudio
  <2>1. queue' = Append(queue, Span(audioTime)) /\ ts' = Head(queue')
    BY <1>5 DEF FetchAudio
  <2>2. queue \in Seq(Interval) /\ Len(queue) \in Nat
    BY <1>1, QueueFacts
  <2> DEFINE e == Span(audioTime)
             S == Interval \cup {e}
  <2>3. e.end = e.start + Tick
    BY DEF Span
  <2>4. queue \in Seq(S) /\ e \in S
    BY <2>2
  <2> HIDE DEF e, S
  <2>5. /\ queue' \in Seq(S) /\ Len(queue') = Len(queue) + 1
        /\ DOMAIN queue = 1..Len(queue) /\ DOMAIN queue' = 1..(Len(queue) + 1)
        /\ \A k \in 1..Len(queue) : queue'[k] = queue[k]
        /\ queue'[Len(queue) + 1] = e
    <3>1. LET q == Append(queue, e)
          IN /\ q \in Seq(S) /\ Len(queue) \in Nat /\ Len(q) = Len(queue) + 1
             /\ DOMAIN queue = 1..Len(queue) /\ DOMAIN q = 1..(Len(queue) + 1)
             /\ \A k \in 1..Len(queue) : q[k] = queue[k]
             /\ q[Len(queue) + 1] = e
      BY <2>4, AppendFacts
    <3>2. QED
      BY <3>1, <2>1, Zenon DEF e
  <2>6. \A k \in DOMAIN queue' : queue'[k].end = queue'[k].start + Tick
    BY <2>2, <2>3, <2>5 DEF WholeInv
  <2>7. ts' = queue'[1]
    BY <2>1, <2>2, <2>5
  <2>8. QED
    BY <2>6, <2>7 DEF WholeInv
<1>6. CASE Buffer
  <2>1. mpc = "buffer" /\ AtWork
    BY <1>6 DEF Buffer, AtWork
  <2>2. CASE minTs < ts.start /\ AddBuffering
    BY <2>1, <2>2, <1>1, AddWhole DEF WholeInv
  <2>3. CASE UNCHANGED <<bufferingVars, ts>>
    BY <2>1, <2>3, WholeStays DEF bufferingVars
  <2>4. QED
    BY <2>2, <2>3, <1>6 DEF Buffer
<1>7. CASE Discard
  <2>1. /\ DOMAIN queue = 1..Len(queue) /\ DOMAIN queue' = 1..(Len(queue) - 1)
        /\ \A k \in 1..(Len(queue) - 1) : queue'[k] = queue[k + 1] /\ k + 1 \in 1..Len(queue)
    BY <1>1, <1>7, DiscardFacts
  <2>2. ~AtWork'
    BY <1>7 DEF Discard, AtWork
  <2>3. QED
    BY <2>1, <2>2 DEF WholeInv
<1>8. QED
  BY <1>2, <1>3, <1>4, <1>5, <1>6, <1>7 DEF Next, MixThread

\* In time counted in frames every tick that is mixed and discarded ends a block after it
\* begins, those that were put before others included: add_audio_buffering writes the end
\* of the one at work each time.
THEOREM EndsWhole == ASSUME Frame = 1 PROVE Spec => []EndsWritten
<1>1. Init => WholeInv
  BY DEF Init, WholeInv, AtWork
<1>2. IInv /\ WholeInv /\ [Next]_vars => WholeInv'
  BY WholeStep
<1>3. IInv /\ WholeInv => EndsWritten
  <2> SUFFICES ASSUME IInv, WholeInv, mpc \in {"mix", "discard"}
               PROVE  ts.end = ts.start + Tick
    BY DEF EndsWritten
  <2>1. ts = queue[1] /\ mpc \notin {"off", "sleep"}
    BY DEF WholeInv, AtWork
  <2>2. 1 \in DOMAIN queue
    BY <2>1, QueueFacts DEF IInv
  <2>3. QED
    BY <2>1, <2>2 DEF WholeInv
<1>4. QED
  BY <1>1, <1>2, <1>3, Invariance, PTL DEF Spec

\* So nothing more is asked of the ticks there.
THEOREM SmallDriftOfFrames == ASSUME Frame = 1 PROVE Spec /\ Punctual(scenario) => []NoDrift
BY EndsWhole, SmallDrift, PTL
=============================================================================
