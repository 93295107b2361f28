-------------------------- MODULE AudioChannelProofs --------------------------
(***************************************************************************)
(* What the operators of AudioChannel return, for any sizes of buffers and *)
(* blocks and any thresholds: whether a buffer stays in order and within   *)
(* its limit, and where the times of a channel are.  MixerProofs needs     *)
(* these facts at each step that changes a channel.                        *)
(***************************************************************************)
EXTENDS AudioChannel, SequenceTheorems, TLAPS

\* The sounds of a buffer are in the order in which they were played.
Ordered(buf) ==
  \A j, k \in DOMAIN buf : j < k /\ buf[j] # 0 /\ buf[k] # 0 => buf[j] < buf[k]

\* They were all played before t.
Below(buf, t) == \A k \in DOMAIN buf : buf[k] # 0 => buf[k] < t

\* A channel with a buffer within its limit.
Bounded(c) == c \in Channel /\ Len(c.buf) <= MaxBuf
-----------------------------------------------------------------------------

(* Fields of a channel that are assigned together. *)

Stamp(c, adjust, next, sys) == [c EXCEPT !.adjust = adjust, !.nextTs = next, !.nextSys = sys]
Refill(c, buf) == [c EXCEPT !.buf = buf, !.lastSize = 0]

\* A channel keeps its type and its contents when its times are assigned.
LEMMA WithStamp ==
  ASSUME NEW c \in Channel, NEW f, NEW n, NEW x, f \in Nat, n \in Nat, x \in Nat
  PROVE  LET d == Stamp(c, f, n, x)
         IN /\ d \in Channel /\ d.buf = c.buf /\ d.out = c.out /\ d.pending = c.pending
            /\ d.audioTs = c.audioTs /\ d.adjust = f /\ d.nextTs = n
BY DEF Channel, Stamp

\* A channel keeps its type and its times when its buffer is assigned.
LEMMA WithBuf ==
  ASSUME NEW c \in Channel, NEW b \in Seq(Nat)
  PROVE  LET d == Refill(c, b)
         IN /\ d \in Channel /\ d.buf = b /\ d.out = c.out /\ d.pending = c.pending
            /\ d.audioTs = c.audioTs /\ d.adjust = c.adjust /\ d.nextTs = c.nextTs
<1>1. 0 \in 0..MaxBuf
  BY ChannelAssumption
<1>2. QED
  BY <1>1 DEF Channel, Refill

-----------------------------------------------------------------------------
\* What the quotient of two integers is, rounded down.
LEMMA Division ==
  ASSUME NEW a \in Int, NEW b \in Nat \ {0}
  PROVE  /\ a \div b \in Int
         /\ (a \div b) * b <= a /\ a < (a \div b) * b + b
         /\ a >= 0 => a \div b >= 0
<1>1. a \div b \in Int
  OBVIOUS
<1>2. a = b * (a \div b) + (a % b) /\ 0 <= a % b /\ a % b < b
  OBVIOUS
<1>3. a >= 0 => a \div b >= 0
  BY <1>1, <1>2
<1>4. QED
  BY <1>1, <1>2, <1>3

\* A tick lasts as long as a block.
LEMMA TickFacts == Tick \in Nat \ {0} /\ Tick = Block * Frame
BY ChannelAssumption DEF Tick, FramesToTime

\* audio_channel_output_audio_internal, as long as a packet is at most late behind the
\* clock: the correction is at most as large, and the corrected end of the packet
\* is not further ahead of the clock than the thresholds account for.
LEMMA StampedFacts ==
  ASSUME NEW c \in Channel, NEW ts \in Nat, NEW n \in Nat, NEW os \in Nat, ts <= os,
         NEW late \in Nat, os - ts <= late, c.adjust <= late,
         NEW ahead \in Nat, late - MaxVar <= ahead
  PROVE  LET s == Stamped(c, ts, n, os)
         IN /\ s.channel \in Channel /\ s.ts \in Nat /\ s.pushBack \in BOOLEAN
            /\ s.channel.buf = c.buf /\ s.channel.out = c.out /\ s.channel.pending = c.pending
            /\ s.channel.audioTs = c.audioTs
            /\ s.channel.adjust <= late
            /\ s.channel.nextTs + s.channel.adjust < os + Smooth + FramesToTime(n) + ahead
<1> DEFINE direct == Diff(ts, os) < MaxVar
           jumped == c.nextTs # 0 /\ Diff(c.nextTs, ts) > MaxVar /\ ~direct
           smooth == c.nextTs # 0 /\ Diff(c.nextTs, ts) < Smooth
           start  == IF smooth THEN c.nextTs ELSE ts
           adjust == IF direct THEN 0 ELSE IF jumped THEN os - ts ELSE c.adjust
           diff   == Diff(c.nextSys, start + adjust)
           resync == c.nextSys # 0 /\ diff > MaxVar
           final  == IF resync THEN os - ts ELSE adjust
           next   == start + FramesToTime(n)
           d == [c EXCEPT !.adjust = final, !.nextTs = next, !.nextSys = next + final]
           t == (IF resync THEN os ELSE start + adjust) + Delay
           pb == c.nextSys # 0 /\ diff < Smooth
           s == Stamped(c, ts, n, os)
<1>1. s = [channel |-> d, ts |-> t, pushBack |-> pb]
  BY DEF Stamped
<1>2. /\ c.nextTs \in Nat /\ c.nextSys \in Nat /\ c.adjust \in Nat
      /\ {Smooth, Delay, MaxVar} \subseteq Nat \ {0} /\ Smooth < MaxVar
      /\ FramesToTime(n) \in Nat
  <2>1. c.nextTs \in Nat /\ c.nextSys \in Nat /\ c.adjust \in Nat
    BY DEF Channel
  <2>2. {Smooth, Delay, MaxVar} \subseteq Nat \ {0} /\ Smooth < MaxVar
    BY ChannelAssumption
  <2>3. FramesToTime(n) \in Nat
    BY ChannelAssumption DEF FramesToTime
  <2>4. QED
    BY <2>1, <2>2, <2>3
<1>3. start \in Nat /\ start < ts + Smooth
  BY <1>2 DEF Diff
<1>4. adjust \in Nat /\ adjust <= late
  BY <1>2
<1>5. final \in Nat /\ final <= late
  BY <1>4
<1>6. next \in Nat /\ next = start + FramesToTime(n)
  BY <1>2, <1>3
<1>7. start + adjust < os + Smooth + ahead
  <2>1. CASE direct
    BY <2>1, <1>3, <1>2
  <2>2. CASE jumped
    <3>1. ~smooth
      BY <2>2, <1>2 DEF Diff
    <3>2. adjust = os - ts /\ start = ts
      BY <2>2, <3>1
    <3>3. QED
      BY <3>2, <1>2
  <2>3. CASE ~direct /\ ~jumped
    <3>1. adjust = c.adjust /\ ts + MaxVar <= os
      BY <2>3, <1>2 DEF Diff
    <3>2. QED
      BY <3>1, <1>2, <1>3
  <2>4. QED
    BY <2>1, <2>2, <2>3
<1>8. start + final < os + Smooth + ahead
  <2>1. CASE resync
    BY <2>1, <1>3, <1>2
  <2>2. CASE ~resync
    BY <2>2, <1>7
  <2>3. QED
    BY <2>1, <2>2
<1>9. t \in Nat
  BY <1>2, <1>3, <1>4
<1>10. pb \in BOOLEAN
  OBVIOUS
<1> HIDE DEF direct, jumped, smooth, start, adjust, diff, resync, final, next, t, pb
<1>11. /\ d \in Channel /\ d.buf = c.buf /\ d.out = c.out /\ d.pending = c.pending
       /\ d.audioTs = c.audioTs /\ d.adjust = final /\ d.nextTs = next
  <2> DEFINE sys == next + final
  <2>1. final \in Nat /\ next \in Nat /\ sys \in Nat
    BY <1>5, <1>6
  <2>2. d = Stamp(c, final, next, sys)
    BY DEF Stamp
  <2> HIDE DEF d, sys
  <2>3. QED
    BY <2>1, <2>2, WithStamp
<1>12. next + final < os + Smooth + FramesToTime(n) + ahead
  BY <1>2, <1>3, <1>5, <1>6, <1>8
<1> HIDE DEF d
<1>13. s.channel = d /\ s.ts = t /\ s.pushBack = pb
  BY <1>1
<1>14. QED
  BY <1>13, <1>11, <1>12, <1>9, <1>10, <1>5

\* reset_audio_data empties the buffer, and the channel begins where the packet does.
LEMMA ResetFacts ==
  ASSUME NEW c \in Channel, NEW ts, ts \in Nat
  PROVE  LET d == ResetData(c, ts)
         IN /\ d \in Channel /\ d.buf = <<>> /\ d.out = c.out /\ d.pending = c.pending
            /\ d.adjust = c.adjust /\ d.nextTs = c.nextTs /\ d.nextSys = ts /\ d.audioTs = ts
<1>1. 0 \in 0..MaxBuf /\ <<>> \in Seq(Nat)
  BY ChannelAssumption
<1>2. QED
  BY <1>1 DEF Channel, ResetData

\* Silence and what was cut off aside, the sounds of b are some of those of a, in order.
LEMMA EmptyFacts == Ordered(<<>>) /\ \A t : Below(<<>>, t)
BY DEF Ordered, Below

\* What was played before t was played before what comes after t.
LEMMA BelowLater ==
  ASSUME NEW buf \in Seq(Nat), NEW t \in Int, NEW u \in Int, t <= u, Below(buf, t)
  PROVE  Below(buf, u)
<1>1. \A k \in DOMAIN buf : buf[k] \in Nat
  OBVIOUS
<1>2. QED
  BY <1>1 DEF Below

\* A part of an ordered buffer is ordered, and no sound in it is later.
LEMMA PartFacts ==
  ASSUME NEW buf \in Seq(Nat), Ordered(buf), NEW m \in 1..(Len(buf) + 1), NEW n \in 0..Len(buf)
  PROVE  LET part == SubSeq(buf, m, n)
         IN /\ part \in Seq(Nat) /\ Len(part) = (IF m <= n THEN n - m + 1 ELSE 0)
            /\ Ordered(part) /\ \A t \in Int : Below(buf, t) => Below(part, t)
<1> DEFINE part == SubSeq(buf, m, n)
<1>1. DOMAIN buf = 1..Len(buf) /\ Len(buf) \in Nat /\ \A k \in 1..Len(buf) : buf[k] \in Nat
  OBVIOUS
<1>2. /\ part \in Seq(Nat) /\ Len(part) = (IF m <= n THEN n - m + 1 ELSE 0)
      /\ \A k \in 1 .. n - m + 1 : part[k] = buf[m + k - 1]
  BY SubSeqProperties
<1>3. DOMAIN part = 1..Len(part)
  BY <1>2
<1> HIDE DEF part
<1>4. ASSUME NEW k \in DOMAIN part
      PROVE  m + k - 1 \in DOMAIN buf /\ part[k] = buf[m + k - 1]
  <2>1. k \in 1..Len(part) /\ m <= n /\ Len(part) = n - m + 1
    BY <1>1, <1>2, <1>3
  <2>2. k \in 1 .. n - m + 1
    BY <2>1
  <2>3. m + k - 1 \in 1..Len(buf)
    <3>1. k \in Int /\ 1 <= k /\ k <= n - m + 1 /\ m \in Int /\ 1 <= m /\ n \in Int /\ n <= Len(buf)
      BY <2>2, <1>1
    <3>2. QED
      BY <3>1, <1>1
  <2>4. part[k] = buf[m + k - 1]
    BY <2>2, <1>2
  <2>5. QED
    BY <2>3, <2>4, <1>1
<1>5. Ordered(part)
  <2> SUFFICES ASSUME NEW j \in DOMAIN part, NEW k \in DOMAIN part,
                      j < k, part[j] # 0, part[k] # 0
               PROVE  part[j] < part[k]
    BY DEF Ordered
  <2>1. j \in Int /\ k \in Int
    BY <1>3, <1>2
  <2>2. m + j - 1 < m + k - 1
    BY <2>1
  <2>3. QED
    BY <2>2, <1>4 DEF Ordered
<1>6. \A t \in Int : Below(buf, t) => Below(part, t)
  BY <1>4 DEF Below
<1>7. QED
  BY <1>2, <1>5, <1>6 DEF part

\* audio_channel_output_audio_push_back: samples that were played after those of the
\* buffer are put behind them, or, when there is no room, stay out.
LEMMA PushedBackFacts ==
  ASSUME NEW c, Bounded(c), NEW s \in Seq(Nat), NEW t \in Int,
         Ordered(c.buf), Ordered(s), Below(c.buf, t), \A k \in DOMAIN s : s[k] # 0 => s[k] >= t
  PROVE  LET d == PushedBack(c, s)
         IN /\ Bounded(d) /\ d.out = c.out /\ d.pending = c.pending
            /\ d.adjust = c.adjust /\ d.nextTs = c.nextTs
            /\ Ordered(d.buf)
            /\ \A u \in Int : u >= t /\ Below(s, u) => Below(d.buf, u)
<1> DEFINE b == c.buf \o s
           d == PushedBack(c, s)
<1>1. /\ c \in Channel /\ c.buf \in Seq(Nat) /\ Len(c.buf) \in Nat /\ Len(s) \in Nat
      /\ DOMAIN c.buf = 1..Len(c.buf) /\ DOMAIN s = 1..Len(s) /\ MaxBuf \in Nat
  <2>1. c \in Channel /\ c.buf \in Seq(Nat) /\ MaxBuf \in Nat
    BY ChannelAssumption DEF Bounded, Channel
  <2>2. \A q \in Seq(Nat) : Len(q) \in Nat /\ DOMAIN q = 1..Len(q)
    OBVIOUS
  <2> HIDE DEF b, d
  <2>3. QED
    BY <2>1, <2>2
<1>2. \A u \in Int : u >= t => Below(c.buf, u)
  BY <1>1, BelowLater
<1>3. CASE Len(c.buf) + Len(s) > MaxBuf
  BY <1>3, <1>2 DEF PushedBack
<1>4. CASE ~(Len(c.buf) + Len(s) > MaxBuf)
  <2>1. /\ b \in Seq(Nat) /\ Len(b) = Len(c.buf) + Len(s)
        /\ \A k \in 1 .. Len(c.buf) + Len(s) :
             b[k] = IF k <= Len(c.buf) THEN c.buf[k] ELSE s[k - Len(c.buf)]
    BY <1>1, ConcatProperties
  <2>2. DOMAIN b = 1 .. Len(c.buf) + Len(s)
    BY <2>1
  <2> HIDE DEF b
  <2>3. ASSUME NEW k \in DOMAIN b
        PROVE  \/ k \in DOMAIN c.buf /\ b[k] = c.buf[k] /\ k <= Len(c.buf)
               \/ k - Len(c.buf) \in DOMAIN s /\ b[k] = s[k - Len(c.buf)] /\ k > Len(c.buf)
    <3>1. k \in 1 .. Len(c.buf) + Len(s)
      BY <2>2
    <3>2. b[k] = IF k <= Len(c.buf) THEN c.buf[k] ELSE s[k - Len(c.buf)]
      BY <3>1, <2>1
    <3>3. QED
      BY <3>1, <3>2, <1>1
  <2>4. \A k \in DOMAIN b : b[k] \in Nat /\ k \in Int
    BY <2>1, <2>2, <1>1
  <2>5. Ordered(b)
    <3> SUFFICES ASSUME NEW j \in DOMAIN b, NEW k \in DOMAIN b, j < k, b[j] # 0, b[k] # 0
                 PROVE  b[j] < b[k]
      BY DEF Ordered
    <3>1. CASE k \in DOMAIN c.buf /\ b[k] = c.buf[k]
      <4>1. j \in DOMAIN c.buf /\ b[j] = c.buf[j]
        BY <3>1, <2>3, <2>4, <1>1
      <4>2. QED
        BY <4>1, <3>1 DEF Ordered
    <3>2. CASE k - Len(c.buf) \in DOMAIN s /\ b[k] = s[k - Len(c.buf)]
      <4>1. CASE j \in DOMAIN c.buf /\ b[j] = c.buf[j]
        <5>1. b[j] < t /\ t <= b[k]
          BY <4>1, <3>2 DEF Below
        <5>2. QED
          BY <5>1, <2>4
      <4>2. CASE j - Len(c.buf) \in DOMAIN s /\ b[j] = s[j - Len(c.buf)]
        <5>1. j - Len(c.buf) < k - Len(c.buf)
          BY <2>4, <1>1
        <5>2. QED
          BY <5>1, <4>2, <3>2 DEF Ordered
      <4>3. QED
        BY <4>1, <4>2, <2>3
    <3>3. QED
      BY <3>1, <3>2, <2>3
  <2>6. \A u \in Int : u >= t /\ Below(s, u) => Below(b, u)
    BY <1>2, <2>3 DEF Below
  <2>7. d = Refill(c, b)
    BY <1>4 DEF PushedBack, Refill, b
  <2>8. /\ d \in Channel /\ d.buf = b /\ d.out = c.out /\ d.pending = c.pending
        /\ d.adjust = c.adjust /\ d.nextTs = c.nextTs
    <3> HIDE DEF d
    <3>1. QED
      BY <2>7, <2>1, <1>1, WithBuf
  <2> HIDE DEF d
  <2>9. Len(d.buf) <= MaxBuf
    BY <2>8, <2>1, <1>4, <1>1
  <2>10. QED
    BY <2>5, <2>6, <2>8, <2>9 DEF Bounded, d
<1>5. QED
  BY <1>3, <1>4

\* audio_channel_output_audio_place lays the samples where they belong, on what is there
\* or behind a gap of silence, and cuts the buffer behind them: what is left of an
\* ordered buffer comes before them.
LEMMA LaidFacts ==
  ASSUME NEW buf \in Seq(Nat), NEW at \in Nat, NEW s \in Seq(Nat), NEW t \in Int,
         Ordered(buf), Ordered(s), Below(buf, t), \A k \in DOMAIN s : s[k] # 0 => s[k] >= t
  PROVE  LET b == Laid(buf, at, s)
         IN /\ b \in Seq(Nat) /\ Len(b) = at + Len(s)
            /\ Ordered(b)
            /\ \A u \in Int : u >= t /\ Below(s, u) => Below(b, u)
<1> DEFINE b == Laid(buf, at, s)
           e(k) == IF k > at THEN s[k - at] ELSE IF k <= Len(buf) THEN buf[k] ELSE 0
<1>1. /\ Len(buf) \in Nat /\ Len(s) \in Nat /\ DOMAIN buf = 1..Len(buf) /\ DOMAIN s = 1..Len(s)
      /\ \A k \in 1..Len(buf) : buf[k] \in Nat
      /\ \A k \in 1..Len(s) : s[k] \in Nat
  OBVIOUS
<1>2. b = [k \in 1..(at + Len(s)) |-> e(k)]
  BY DEF Laid
<1>3. \A k \in 1..(at + Len(s)) :
         \/ k - at \in DOMAIN s /\ e(k) = s[k - at] /\ k > at
         \/ k \in DOMAIN buf /\ e(k) = buf[k] /\ k <= at
         \/ e(k) = 0
  BY <1>1
<1>4. \A k \in 1..(at + Len(s)) : e(k) \in Nat
  BY <1>1, <1>3
<1> HIDE DEF e
<1>5. b \in [1..(at + Len(s)) -> Nat] /\ at + Len(s) \in Nat
  BY <1>1, <1>2, <1>4
<1>6. b \in Seq(Nat) /\ Len(b) = at + Len(s) /\ DOMAIN b = 1..(at + Len(s))
  <2>1. \A g, m : m \in Nat /\ g \in [1..m -> Nat] => g \in Seq(Nat) /\ Len(g) = m /\ DOMAIN g = 1..m
    OBVIOUS
  <2> HIDE DEF b
  <2>2. QED
    BY <1>5, <2>1
<1>7. \A k \in DOMAIN b : b[k] = e(k) /\ k \in Int /\ b[k] \in Nat
  BY <1>1, <1>2, <1>4
<1> HIDE DEF b
<1>8. \A k \in DOMAIN b :
         \/ k - at \in DOMAIN s /\ b[k] = s[k - at] /\ k > at
         \/ k \in DOMAIN buf /\ b[k] = buf[k] /\ k <= at
         \/ b[k] = 0
  BY <1>3, <1>6, <1>7
<1>9. Ordered(b)
  <2> SUFFICES ASSUME NEW j \in DOMAIN b, NEW k \in DOMAIN b, j < k, b[j] # 0, b[k] # 0
               PROVE  b[j] < b[k]
    BY DEF Ordered
  <2>1. j \in Int /\ k \in Int /\ b[j] \in Nat /\ b[k] \in Nat
    BY <1>7
  <2>2. CASE k \in DOMAIN buf /\ b[k] = buf[k] /\ k <= at
    <3>1. j \in DOMAIN buf /\ b[j] = buf[j]
      BY <2>1, <2>2, <1>8
    <3>2. QED
      BY <3>1, <2>2 DEF Ordered
  <2>3. CASE k - at \in DOMAIN s /\ b[k] = s[k - at] /\ k > at
    <3>1. CASE j \in DOMAIN buf /\ b[j] = buf[j]
      <4>1. b[j] < t /\ t <= b[k]
        BY <3>1, <2>3 DEF Below
      <4>2. QED
        BY <4>1, <2>1
    <3>2. CASE j - at \in DOMAIN s /\ b[j] = s[j - at]
      <4>1. j - at < k - at
        BY <2>1
      <4>2. QED
        BY <4>1, <3>2, <2>3 DEF Ordered
    <3>3. QED
      BY <3>1, <3>2, <1>8
  <2>4. QED
    BY <2>2, <2>3, <1>8
<1>10. ASSUME NEW u \in Int, u >= t, Below(s, u)
       PROVE  Below(b, u)
  <2>1. Below(buf, u)
    BY <1>10, BelowLater
  <2>2. QED
    BY <2>1, <1>8, <1>10 DEF Below
<1>11. QED
  BY <1>6, <1>9, <1>10 DEF b

\* audio_channel_output_audio_place keeps a buffer ordered and within its limit.
LEMMA PlacedFacts ==
  ASSUME NEW c, Bounded(c), NEW ts \in Nat, ts >= c.audioTs, NEW s \in Seq(Nat), NEW t \in Int,
         Ordered(c.buf), Ordered(s), Below(c.buf, t), \A k \in DOMAIN s : s[k] # 0 => s[k] >= t
  PROVE  LET d == Placed(c, ts, s)
         IN /\ Bounded(d) /\ d.out = c.out /\ d.pending = c.pending
            /\ d.adjust = c.adjust /\ d.nextTs = c.nextTs
            /\ Ordered(d.buf)
            /\ \A u \in Int : u >= t /\ Below(s, u) => Below(d.buf, u)
<1> DEFINE at == TimeToFrames(ts - c.audioTs)
           b == Laid(c.buf, at, s)
           d == Placed(c, ts, s)
<1>1. /\ c \in Channel /\ c.buf \in Seq(Nat) /\ Len(c.buf) \in Nat /\ Len(s) \in Nat
      /\ c.audioTs \in Nat /\ MaxBuf \in Nat /\ Frame \in Nat \ {0}
  <2>1. c \in Channel /\ c.buf \in Seq(Nat) /\ c.audioTs \in Nat
    BY DEF Bounded, Channel
  <2>2. MaxBuf \in Nat /\ Frame \in Nat \ {0}
    BY ChannelAssumption
  <2>3. QED
    BY <2>1, <2>2
<1>2. \A u \in Int : u >= t => Below(c.buf, u)
  BY <1>1, BelowLater
<1>3. ts - c.audioTs \in Int /\ ts - c.audioTs >= 0
  BY <1>1
<1>4. at \in Nat
  BY <1>1, <1>3, Division DEF TimeToFrames
<1> HIDE DEF at
<1>5. /\ b \in Seq(Nat) /\ Len(b) = at + Len(s)
      /\ Ordered(b)
      /\ \A u \in Int : u >= t /\ Below(s, u) => Below(b, u)
  BY <1>1, <1>4, LaidFacts
<1>6. CASE at + Len(s) > MaxBuf
  BY <1>6, <1>2 DEF Placed, at
<1>7. CASE ~(at + Len(s) > MaxBuf)
  <2>1. d = Refill(c, b)
    <3>1. d = [c EXCEPT !.lastSize = 0, !.buf = b]
      BY <1>7 DEF Placed, at
    <3> HIDE DEF b, d
    <3>2. QED
      BY <3>1, <1>1 DEF Refill, Channel
  <2> HIDE DEF b
  <2>2. /\ d \in Channel /\ d.buf = b /\ d.out = c.out /\ d.pending = c.pending
        /\ d.adjust = c.adjust /\ d.nextTs = c.nextTs
    <3> HIDE DEF d
    <3>1. QED
      BY <2>1, <1>5, <1>1, WithBuf
  <2> HIDE DEF d
  <2>3. Len(d.buf) <= MaxBuf
    BY <2>2, <1>1, <1>4, <1>5, <1>7
  <2>4. QED
    BY <2>2, <2>3, <1>5 DEF Bounded, d
<1>8. QED
  BY <1>6, <1>7

\* Once a channel is picked it is pending, or a block of it is out, in order.
LEMMA PickedFacts ==
  ASSUME NEW c, Bounded(c), Ordered(c.buf), Ordered(c.out)
  PROVE  LET d == Picked(c)
         IN /\ Bounded(d) /\ d.buf = c.buf /\ d.adjust = c.adjust /\ d.nextTs = c.nextTs
            /\ d.audioTs = c.audioTs
            /\ Ordered(d.out) /\ (d.pending \/ Len(d.out) = Block)
<1> DEFINE out == SubSeq(c.buf, 1, Block)
           d == Picked(c)
<1>1. c \in Channel /\ c.buf \in Seq(Nat) /\ Len(c.buf) \in Nat /\ Block \in Nat \ {0}
  BY ChannelAssumption DEF Bounded, Channel
<1>2. CASE Len(c.buf) < Block
  <2>1. d = [c EXCEPT !.pending = TRUE]
    BY <1>2 DEF Picked
  <2>2. QED
    BY <2>1, <1>1 DEF Bounded, Channel
<1>3. CASE ~(Len(c.buf) < Block)
  <2>1. out \in Seq(Nat) /\ Len(out) = Block /\ Ordered(out)
    BY <1>1, <1>3, PartFacts
  <2>2. d = [c EXCEPT !.pending = FALSE, !.out = out]
    BY <1>3 DEF Picked
  <2> HIDE DEF out
  <2>3. QED
    BY <2>1, <2>2, <1>1 DEF Bounded, Channel
<1>4. QED
  BY <1>2, <1>3

\* discard_if_stopped keeps the buffer or drops all of it.
LEMMA StopIfStalledFacts ==
  ASSUME NEW c, Bounded(c)
  PROVE  LET d == StopIfStalled(c)
         IN /\ Bounded(d) /\ d.out = c.out /\ d.adjust = c.adjust /\ d.nextTs = c.nextTs
            /\ d.buf \in {c.buf, <<>>}
<1> DEFINE d == StopIfStalled(c)
<1>1. c \in Channel /\ Len(c.buf) <= MaxBuf /\ MaxBuf \in Nat
  BY ChannelAssumption DEF Bounded
<1>2. CASE ~Stalled(c) /\ c.buf = <<>>
  BY <1>1, <1>2 DEF StopIfStalled, Bounded
<1>3. CASE ~Stalled(c) /\ c.buf # <<>>
  <2>1. d = [c EXCEPT !.lastSize = Len(c.buf)]
    BY <1>3 DEF StopIfStalled
  <2>2. Len(c.buf) \in 0..MaxBuf
    BY <1>1 DEF Channel
  <2>3. QED
    BY <2>1, <2>2, <1>1 DEF Bounded, Channel
<1>4. CASE Stalled(c) /\ ~c.pendingStop
  <2>1. d = [c EXCEPT !.pendingStop = TRUE]
    BY <1>4 DEF StopIfStalled
  <2>2. QED
    BY <2>1, <1>1 DEF Bounded, Channel
<1>5. CASE Stalled(c) /\ c.pendingStop
  <2>1. d = [c EXCEPT !.buf = <<>>, !.pendingStop = FALSE, !.audioTs = 0, !.lastSize = 0]
    BY <1>5 DEF StopIfStalled
  <2>2. 0 \in 0..MaxBuf /\ <<>> \in Seq(Nat) /\ Len(<<>>) = 0
    BY <1>1
  <2> HIDE DEF d
  <2>3. d \in Channel /\ d.out = c.out /\ d.adjust = c.adjust /\ d.nextTs = c.nextTs /\ d.buf = <<>>
    BY <2>1, <2>2, <1>1 DEF Channel
  <2>4. QED
    BY <2>2, <2>3, <1>1 DEF Bounded, d
<1>6. QED
  BY <1>2, <1>3, <1>4, <1>5

\* ignore_audio keeps the buffer or drops all of it.
LEMMA IgnoredFacts ==
  ASSUME NEW c, Bounded(c)
  PROVE  LET d == Ignored(c)
         IN /\ Bounded(d) /\ d.out = c.out /\ d.adjust = c.adjust /\ d.nextTs = c.nextTs
            /\ d.buf \in {c.buf, <<>>}
<1> DEFINE d == Ignored(c)
           at == c.audioTs + FramesToTime(Len(c.buf))
<1>1. c \in Channel /\ Len(c.buf) \in Nat /\ Len(c.buf) <= MaxBuf /\ c.audioTs \in Nat
  BY DEF Bounded, Channel
<1>2. at \in Nat /\ 0 \in 0..MaxBuf /\ <<>> \in Seq(Nat) /\ Len(<<>>) = 0
  <2>1. FramesToTime(Len(c.buf)) \in Nat
    BY <1>1, ChannelAssumption DEF FramesToTime
  <2>2. MaxBuf \in Nat
    BY ChannelAssumption
  <2>3. QED
    BY <2>1, <2>2, <1>1
<1>3. CASE c.buf = <<>>
  BY <1>1, <1>3 DEF Ignored, Bounded
<1>4. CASE c.buf # <<>>
  <2>1. d = [c EXCEPT !.buf = <<>>, !.lastSize = 0, !.audioTs = at]
    BY <1>4 DEF Ignored
  <2> HIDE DEF at, d
  <2>2. d \in Channel /\ d.out = c.out /\ d.adjust = c.adjust /\ d.nextTs = c.nextTs /\ d.buf = <<>>
    BY <2>1, <1>2, <1>1 DEF Channel
  <2>3. QED
    BY <2>2, <1>2, <1>1, ChannelAssumption DEF Bounded, d
<1>5. QED
  BY <1>3, <1>4

\* discard_audio drops the front of the buffer, or all of it: what is left is in order.
LEMMA DiscardedFacts ==
  ASSUME NEW c, Bounded(c), Ordered(c.buf), NEW ts \in [start : Int, end : Nat],
         NEW full \in BOOLEAN
  PROVE  LET d == Discarded(c, ts, full)
         IN /\ Bounded(d) /\ d.out = c.out /\ d.adjust = c.adjust /\ d.nextTs = c.nextTs
            /\ Ordered(d.buf) /\ \A t \in Int : Below(c.buf, t) => Below(d.buf, t)
<1> DEFINE n == Block - StartPoint(c, ts)
           halt == StopIfStalled(c)
           d == Discarded(c, ts, full)
           Same(e) == /\ Bounded(e) /\ e.out = c.out /\ e.adjust = c.adjust /\ e.nextTs = c.nextTs
                      /\ e.buf \in {c.buf, <<>>}
           Good(e) == /\ Bounded(e) /\ e.out = c.out /\ e.adjust = c.adjust /\ e.nextTs = c.nextTs
                      /\ Ordered(e.buf) /\ \A t \in Int : Below(c.buf, t) => Below(e.buf, t)
<1>1. ASSUME NEW e, Same(e)
      PROVE  Good(e)
  BY <1>1, EmptyFacts
<1>2. Same(c)
  OBVIOUS
<1>3. Same(halt)
  BY StopIfStalledFacts
<1>4. ASSUME NEW e, Same(e)
      PROVE  Same(IF full THEN Ignored(e) ELSE e)
  <2>1. /\ Bounded(Ignored(e)) /\ Ignored(e).out = e.out /\ Ignored(e).adjust = e.adjust
        /\ Ignored(e).nextTs = e.nextTs /\ Ignored(e).buf \in {e.buf, <<>>}
    BY <1>4, IgnoredFacts
  <2>2. QED
    BY <2>1, <1>4
<1>5. CASE ts.end <= c.audioTs
  <2>1. d = c
    BY <1>5 DEF Discarded
  <2>2. QED
    BY <2>1, <1>1, <1>2
<1>6. CASE ~(ts.end <= c.audioTs) /\ c.audioTs < ts.start
  <2>1. \/ d = IF full THEN Ignored(c) ELSE c
        \/ d = halt
        \/ d = IF full THEN Ignored(halt) ELSE halt
    BY <1>6 DEF Discarded
  <2> HIDE DEF d, halt, Same, Good
  <2>2. Same(d)
    BY <2>1, <1>2, <1>3, <1>4
  <2>3. Good(d)
    BY <2>2, <1>1
  <2>4. QED
    BY <2>3 DEF Good, d
<1>7. CASE ~(ts.end <= c.audioTs) /\ ~(c.audioTs < ts.start)
  <2>1. /\ c \in Channel /\ c.buf \in Seq(Nat) /\ Len(c.buf) \in Nat /\ Len(c.buf) <= MaxBuf
        /\ c.audioTs \in Nat /\ ts.start \in Int /\ ts.end \in Nat /\ MaxBuf \in Nat
        /\ Block \in Nat /\ Frame \in Nat \ {0}
    BY ChannelAssumption DEF Bounded, Channel
  <2>2. c.audioTs - ts.start \in Int /\ c.audioTs - ts.start >= 0
    BY <2>1, <1>7
  <2>3. n \in Int
    BY <2>1, <2>2, Division DEF StartPoint, TimeToFrames
  <2>4. CASE n = 0
    <3>1. d = c
      BY <1>7, <2>4 DEF Discarded
    <3>2. QED
      BY <3>1, <1>1, <1>2
  <2>5. CASE n # 0 /\ (n < 0 \/ Len(c.buf) < n)
    <3>1. d = IF Stalled(c) THEN halt ELSE [halt EXCEPT !.audioTs = ts.end]
      BY <1>7, <2>5 DEF Discarded
    <3> HIDE DEF d, halt
    <3>2. Same([halt EXCEPT !.audioTs = ts.end])
      BY <1>3, <2>1 DEF Bounded, Channel
    <3> HIDE DEF Same, Good
    <3>3. Good(d)
      BY <3>1, <3>2, <1>1, <1>3
    <3>4. QED
      BY <3>3 DEF Good, d
  <2>6. CASE n > 0 /\ ~(Len(c.buf) < n)
    <3> DEFINE b == SubSeq(c.buf, n + 1, Len(c.buf))
    <3>1. d = [c EXCEPT !.buf = b, !.lastSize = 0, !.pendingStop = FALSE, !.audioTs = ts.end]
      BY <1>7, <2>6, <2>3 DEF Discarded
    <3>2. n + 1 \in 1..(Len(c.buf) + 1) /\ Len(c.buf) \in 0..Len(c.buf)
      BY <2>1, <2>3, <2>6
    <3>3. /\ b \in Seq(Nat) /\ Len(b) = (IF n + 1 <= Len(c.buf) THEN Len(c.buf) - (n + 1) + 1 ELSE 0)
          /\ Ordered(b) /\ \A t \in Int : Below(c.buf, t) => Below(b, t)
      BY <3>2, <2>1, PartFacts
    <3>4. Len(b) <= MaxBuf /\ 0 \in 0..MaxBuf
      BY <3>3, <2>1, <2>3, <2>6
    <3> HIDE DEF b, d, n
    <3>5. d \in Channel /\ d.buf = b /\ d.out = c.out /\ d.adjust = c.adjust /\ d.nextTs = c.nextTs
      BY <3>1, <3>3, <3>4, <2>1 DEF Channel
    <3>6. QED
      BY <3>5, <3>3, <3>4 DEF Bounded, d
  <2>7. QED
    BY <2>3, <2>4, <2>5, <2>6
<1>8. QED
  BY <1>5, <1>6, <1>7

\* Of two sounds mixed in a tick, the one played first is heard first.
LEMMA MixedFacts ==
  ASSUME NEW c \in Channel, NEW ts \in [start : Int, end : Nat],
         Len(c.out) = Block, Ordered(c.out), NEW g \in Mixed(c, ts), NEW h \in Mixed(c, ts)
  PROVE  /\ g \in Nat \X Int
         /\ g[1] # 0 /\ h[1] # 0 /\ g[1] < h[1] => g[2] < h[2]
<1> DEFINE at == StartPoint(c, ts)
           time(k) == ts.start + FramesToTime(at + k - 1)
<1>1. /\ c.audioTs \in Nat /\ ts.start \in Int /\ Block \in Nat /\ Frame \in Nat \ {0}
      /\ c.out \in Seq(Nat) /\ DOMAIN c.out = 1..Block
  BY ChannelAssumption DEF Channel
<1>2. ~(c.audioTs < ts.start \/ ts.end <= c.audioTs)
  BY DEF Mixed
<1>3. c.audioTs - ts.start \in Int /\ c.audioTs - ts.start >= 0
  BY <1>1, <1>2
<1>4. at \in Nat
  <2> DEFINE x == c.audioTs - ts.start
  <2> HIDE DEF x
  <2>1. x \in Int /\ x >= 0
    BY <1>3 DEF x
  <2>2. x \div Frame \in Int /\ x \div Frame >= 0
    BY <2>1, <1>1, Division
  <2>3. QED
    BY <2>2 DEF StartPoint, TimeToFrames, x
<1>5. Mixed(c, ts) = {<<c.out[k], time(k)>> : k \in 1..(Block - at)}
  BY <1>2 DEF Mixed
<1> HIDE DEF at
<1>6. \A k \in 1..(Block - at) : k \in 1..Block
  BY <1>1, <1>4
<1>7. \A k \in 1..(Block - at) : c.out[k] \in Nat
  BY <1>1, <1>6
<1>8. \A k \in Int : at + k - 1 \in Int /\ time(k) = ts.start + (at + k - 1) * Frame /\ time(k) \in Int
  BY <1>1, <1>4 DEF FramesToTime
<1>9. \A j, k \in Int : j < k => time(j) < time(k)
  <2> SUFFICES ASSUME NEW j \in Int, NEW k \in Int, j < k
               PROVE  time(j) < time(k)
    OBVIOUS
  <2>1. (at + k - 1) * Frame = (at + j - 1) * Frame + (k - j) * Frame
    BY <1>1, <1>4
  <2>2. (k - j) * Frame > 0
    BY <1>1
  <2>3. (at + j - 1) * Frame \in Int /\ (k - j) * Frame \in Int
    BY <1>1, <1>4
  <2>4. /\ time(j) = ts.start + (at + j - 1) * Frame
        /\ time(k) = ts.start + (at + k - 1) * Frame
    BY <1>8
  <2>5. ts.start \in Int
    BY <1>1
  <2> HIDE DEF time
  <2>6. QED
    BY <2>1, <2>2, <2>3, <2>4, <2>5
<1> HIDE DEF time
<1>10. PICK j \in 1..(Block - at) : g = <<c.out[j], time(j)>>
  BY <1>5
<1>11. PICK k \in 1..(Block - at) : h = <<c.out[k], time(k)>>
  BY <1>5
<1>12. j \in Int /\ k \in Int
  BY <1>10, <1>11
<1>13. g[1] = c.out[j] /\ g[2] = time(j) /\ h[1] = c.out[k] /\ h[2] = time(k)
  BY <1>10, <1>11
<1>14. c.out[j] # 0 /\ c.out[k] # 0 /\ c.out[j] < c.out[k] => j < k
  <2> SUFFICES ASSUME c.out[j] # 0, c.out[k] # 0, c.out[j] < c.out[k], ~(j < k)
               PROVE  FALSE
    BY <1>12
  <2>1. c.out[j] \in Nat /\ c.out[k] \in Nat /\ j \in DOMAIN c.out /\ k \in DOMAIN c.out
    BY <1>1, <1>6, <1>7
  <2>2. j = k \/ k < j
    BY <1>12
  <2>3. CASE k < j
    <3>1. c.out[k] < c.out[j]
      BY <2>1, <2>3 DEF Ordered
    <3>2. QED
      BY <3>1, <2>1
  <2>4. CASE j = k
    BY <2>1, <2>4
  <2>5. QED
    BY <2>2, <2>3, <2>4
<1>15. g \in Nat \X Int
  BY <1>7, <1>8, <1>10, <1>12
<1>16. QED
  BY <1>9, <1>12, <1>13, <1>14, <1>15

\* The samples are laid behind the first at frames.
LEMMA LaidIs ==
  ASSUME NEW buf \in Seq(Nat), NEW at \in Nat, NEW s \in Seq(Nat)
  PROVE  LET b == Laid(buf, at, s)
         IN /\ b \in Seq(Nat) /\ Len(b) = at + Len(s) /\ DOMAIN b = 1..(at + Len(s))
            /\ \A k \in 1..(at + Len(s)) :
                 b[k] = IF k > at THEN s[k - at] ELSE IF k <= Len(buf) THEN buf[k] ELSE 0
<1> DEFINE b == Laid(buf, at, s)
           e(k) == IF k > at THEN s[k - at] ELSE IF k <= Len(buf) THEN buf[k] ELSE 0
<1>1. /\ Len(buf) \in Nat /\ Len(s) \in Nat /\ DOMAIN buf = 1..Len(buf) /\ DOMAIN s = 1..Len(s)
      /\ \A k \in 1..Len(buf) : buf[k] \in Nat
      /\ \A k \in 1..Len(s) : s[k] \in Nat
  OBVIOUS
<1>2. b = [k \in 1..(at + Len(s)) |-> e(k)]
  BY DEF Laid
<1>3. \A k \in 1..(at + Len(s)) : e(k) \in Nat
  BY <1>1
<1>4. \A k \in 1..(at + Len(s)) : b[k] = e(k)
  BY <1>2
<1> HIDE DEF e
<1>5. b \in [1..(at + Len(s)) -> Nat] /\ at + Len(s) \in Nat
  BY <1>1, <1>2, <1>3
<1>6. b \in Seq(Nat) /\ Len(b) = at + Len(s) /\ DOMAIN b = 1..(at + Len(s))
  <2>1. \A g, m : m \in Nat /\ g \in [1..m -> Nat] => g \in Seq(Nat) /\ Len(g) = m /\ DOMAIN g = 1..m
    OBVIOUS
  <2> HIDE DEF b
  <2>2. QED
    BY <1>5, <2>1
<1> HIDE DEF b
<1>7. QED
  BY <1>4, <1>6 DEF b, e
-----------------------------------------------------------------------------
(* What is behind the first frames of a buffer. *)

\* The sounds behind the first n were played after x.
Above(buf, n, x) == \A k \in DOMAIN buf : k > n /\ buf[k] # 0 => x < buf[k]

\* Of a buffer without its first n, they are all sounds.
LEMMA RestAbove ==
  ASSUME NEW buf \in Seq(Nat), NEW n \in 0..Len(buf)
  PROVE  LET rest == SubSeq(buf, n + 1, Len(buf))
         IN \A x \in Int : /\ Above(buf, n, x) => Above(rest, 0, x)
                           /\ Above(buf, 0, x) => Above(rest, 0, x)
<1> DEFINE l == Len(buf)
           rest == SubSeq(buf, n + 1, l)
<1>1. l \in Nat /\ n \in Nat /\ n <= l /\ n + 1 \in 1..(l + 1) /\ DOMAIN buf = 1..l
  OBVIOUS
<1>2. \A k \in DOMAIN rest : k \in Nat /\ n + k \in 1..l /\ k >= 1 /\ rest[k] = buf[n + k]
  <2> SUFFICES ASSUME NEW k \in DOMAIN rest
               PROVE  k \in Nat /\ n + k \in 1..l /\ k >= 1 /\ rest[k] = buf[n + k]
    OBVIOUS
  <2>1. /\ rest \in Seq(Nat)
        /\ Len(rest) = (IF n + 1 <= l THEN l - (n + 1) + 1 ELSE 0)
        /\ \A j \in 1..(l - (n + 1) + 1) : rest[j] = buf[(n + 1) + j - 1]
    <3>1. l \in 0..l
      BY <1>1
    <3> HIDE DEF l
    <3>2. QED
      BY <1>1, <3>1, SubSeqProperties DEF l
  <2>2. k \in 1..Len(rest)
    BY <2>1
  <2> HIDE DEF rest, l
  <2> DEFINE m == Len(rest)
  <2>3. m = l - n /\ k \in 1..m
    BY <1>1, <2>1, <2>2
  <2> HIDE DEF m
  <2>4. /\ k \in 1..(l - (n + 1) + 1) /\ (n + 1) + k - 1 = n + k
        /\ k \in Nat /\ n + k \in 1..l /\ k >= 1
    BY <1>1, <2>3
  <2>5. QED
    BY <2>1, <2>4
<1> HIDE DEF rest
<1>3. \A k \in DOMAIN rest : n + k \in DOMAIN buf /\ n + k > n /\ n + k > 0 /\ k > 0 /\ rest[k] = buf[n + k]
  BY <1>1, <1>2
<1>4. QED
  BY <1>3 DEF Above, rest

\* audio_channel_output_audio_push_back leaves the channel's time, and takes nothing out.
LEMMA PushedBackAbove ==
  ASSUME NEW c, Bounded(c), NEW s \in Seq(Nat), NEW t \in Int, \A k \in DOMAIN s : s[k] # 0 => s[k] >= t
  PROVE  LET d == PushedBack(c, s)
         IN /\ d.audioTs = c.audioTs /\ Len(d.buf) >= Len(c.buf)
            /\ \A x \in Int, n \in Nat : x < t /\ Above(c.buf, n, x) => Above(d.buf, n, x)
<1> DEFINE b == c.buf \o s
           d == PushedBack(c, s)
<1>1. /\ c \in Channel /\ c.buf \in Seq(Nat) /\ Len(c.buf) \in Nat /\ Len(s) \in Nat /\ MaxBuf \in Nat
      /\ DOMAIN c.buf = 1..Len(c.buf) /\ DOMAIN s = 1..Len(s)
  BY ChannelAssumption DEF Bounded, Channel
<1>2. CASE Len(c.buf) + Len(s) > MaxBuf
  <2>1. d = c
    BY <1>2 DEF PushedBack
  <2>2. QED
    BY <2>1, <1>1
<1>3. CASE ~(Len(c.buf) + Len(s) > MaxBuf)
  <2>1. /\ b \in Seq(Nat) /\ Len(b) = Len(c.buf) + Len(s)
        /\ \A k \in 1 .. Len(c.buf) + Len(s) :
             b[k] = IF k <= Len(c.buf) THEN c.buf[k] ELSE s[k - Len(c.buf)]
    BY <1>1, ConcatProperties
  <2> HIDE DEF b
  <2>2. \A k \in DOMAIN b : /\ k \in Nat /\ b[k] \in Nat
                            /\ \/ k \in DOMAIN c.buf /\ b[k] = c.buf[k]
                               \/ k - Len(c.buf) \in DOMAIN s /\ b[k] = s[k - Len(c.buf)]
    <3> SUFFICES ASSUME NEW k \in DOMAIN b
                 PROVE  /\ k \in Nat /\ b[k] \in Nat
                        /\ \/ k \in DOMAIN c.buf /\ b[k] = c.buf[k]
                           \/ k - Len(c.buf) \in DOMAIN s /\ b[k] = s[k - Len(c.buf)]
      OBVIOUS
    <3>1. k \in 1..(Len(c.buf) + Len(s)) /\ b[k] \in Nat
      BY <1>1, <2>1
    <3>2. b[k] = IF k <= Len(c.buf) THEN c.buf[k] ELSE s[k - Len(c.buf)]
      BY <3>1, <2>1
    <3>3. QED
      BY <3>1, <3>2, <1>1
  <2>3. \A x \in Int, n \in Nat : x < t /\ Above(c.buf, n, x) => Above(b, n, x)
    BY <2>2 DEF Above
  <2>4. d = Refill(c, b)
    BY <1>3 DEF PushedBack, Refill, b
  <2>5. d.buf = b /\ d.audioTs = c.audioTs
    <3> HIDE DEF d
    <3>1. QED
      BY <2>4, <2>1, <1>1, WithBuf
  <2> HIDE DEF d
  <2>6. Len(d.buf) >= Len(c.buf)
    BY <2>1, <2>5, <1>1
  <2>7. QED
    BY <2>3, <2>5, <2>6 DEF d
<1>4. QED
  BY <1>2, <1>3

\* audio_channel_output_audio_place leaves the channel's time; it cuts the buffer no
\* shorter than where the packet ends.
LEMMA PlacedAbove ==
  ASSUME NEW c, Bounded(c), NEW ts \in Nat, ts >= c.audioTs, NEW s \in Seq(Nat), NEW t \in Int,
         \A k \in DOMAIN s : s[k] # 0 => s[k] >= t
  PROVE  LET d == Placed(c, ts, s)
             at == TimeToFrames(ts - c.audioTs)
         IN /\ d.audioTs = c.audioTs /\ at \in Nat
            /\ Len(d.buf) >= Len(c.buf) \/ Len(d.buf) = at + Len(s)
            /\ \A x \in Int, n \in Nat : x < t /\ Above(c.buf, n, x) => Above(d.buf, n, x)
<1> DEFINE at == TimeToFrames(ts - c.audioTs)
           b == Laid(c.buf, at, s)
           d == Placed(c, ts, s)
<1>1. /\ c \in Channel /\ c.buf \in Seq(Nat) /\ Len(c.buf) \in Nat /\ Len(s) \in Nat
      /\ c.audioTs \in Nat /\ MaxBuf \in Nat /\ Frame \in Nat \ {0}
      /\ DOMAIN c.buf = 1..Len(c.buf) /\ DOMAIN s = 1..Len(s)
  <2>1. c \in Channel /\ c.buf \in Seq(Nat) /\ c.audioTs \in Nat
    BY DEF Bounded, Channel
  <2>2. MaxBuf \in Nat /\ Frame \in Nat \ {0}
    BY ChannelAssumption
  <2>3. QED
    BY <2>1, <2>2
<1>2. ts - c.audioTs \in Int /\ ts - c.audioTs >= 0
  BY <1>1
<1>3. at \in Nat
  BY <1>1, <1>2, Division DEF TimeToFrames
<1> HIDE DEF at
<1>4. CASE at + Len(s) > MaxBuf
  <2>1. d = c
    BY <1>4 DEF Placed, at
  <2>2. QED
    BY <2>1, <1>1, <1>3 DEF at
<1>5. CASE ~(at + Len(s) > MaxBuf)
  <2>2. /\ b \in Seq(Nat) /\ Len(b) = at + Len(s) /\ DOMAIN b = 1..(at + Len(s))
        /\ \A k \in 1..(at + Len(s)) :
             b[k] = IF k > at THEN s[k - at] ELSE IF k <= Len(c.buf) THEN c.buf[k] ELSE 0
    <3> DEFINE x == c.buf
    <3>1. x \in Seq(Nat)
      BY <1>1
    <3> HIDE DEF x
    <3>2. LET y == Laid(x, at, s)
          IN /\ y \in Seq(Nat) /\ Len(y) = at + Len(s) /\ DOMAIN y = 1..(at + Len(s))
             /\ \A k \in 1..(at + Len(s)) :
                  y[k] = IF k > at THEN s[k - at] ELSE IF k <= Len(x) THEN x[k] ELSE 0
      BY <3>1, <1>3, LaidIs, Zenon
    <3>3. QED
      BY <3>2 DEF x
  <2> HIDE DEF b
  <2>3. \A k \in DOMAIN b : /\ k \in Nat /\ b[k] \in Nat
                            /\ \/ k \in DOMAIN c.buf /\ b[k] = c.buf[k]
                               \/ k - at \in DOMAIN s /\ b[k] = s[k - at]
                               \/ b[k] = 0
    <3> SUFFICES ASSUME NEW k \in DOMAIN b
                 PROVE  /\ k \in Nat /\ b[k] \in Nat
                        /\ \/ k \in DOMAIN c.buf /\ b[k] = c.buf[k]
                           \/ k - at \in DOMAIN s /\ b[k] = s[k - at]
                           \/ b[k] = 0
      OBVIOUS
    <3>1. k \in 1..(at + Len(s)) /\ b[k] \in Nat
      BY <2>2
    <3>2. b[k] = IF k > at THEN s[k - at] ELSE IF k <= Len(c.buf) THEN c.buf[k] ELSE 0
      BY <3>1, <2>2
    <3>3. CASE k > at
      BY <3>1, <3>2, <3>3, <1>1, <1>3
    <3>4. CASE ~(k > at) /\ k <= Len(c.buf)
      BY <3>1, <3>2, <3>4, <1>1
    <3>5. CASE ~(k > at) /\ ~(k <= Len(c.buf))
      BY <3>1, <3>2, <3>5
    <3>6. QED
      BY <3>3, <3>4, <3>5
  <2>4. \A x \in Int, n \in Nat : x < t /\ Above(c.buf, n, x) => Above(b, n, x)
    BY <2>3 DEF Above
  <2>5. d = Refill(c, b)
    <3>1. d = [c EXCEPT !.lastSize = 0, !.buf = b]
      BY <1>5 DEF Placed, at, b
    <3> HIDE DEF d
    <3>2. QED
      BY <3>1, <1>1 DEF Refill, Channel
  <2>6. d.buf = b /\ d.audioTs = c.audioTs
    <3> HIDE DEF d
    <3>1. QED
      BY <2>5, <2>2, <1>1, WithBuf
  <2> HIDE DEF d
  <2>7. QED
    BY <2>2, <2>4, <2>6, <1>3 DEF d, at
<1>6. QED
  BY <1>4, <1>5

\* discard_audio drops the front of the buffer, or all of it: what was after x is; and
\* so is what is left when the frames of the tick are dropped, and only those behind
\* them were.
LEMMA DiscardedAbove ==
  ASSUME NEW c, Bounded(c), NEW ts \in [start : Int, end : Nat], NEW full \in BOOLEAN
  PROVE  LET d == Discarded(c, ts, full)
             n == Block - StartPoint(c, ts)
         IN \A x \in Int :
              /\ Above(c.buf, 0, x) => Above(d.buf, 0, x)
              /\ /\ ts.start <= c.audioTs /\ c.audioTs < ts.end
                 /\ n \in 1..Len(c.buf) /\ Above(c.buf, n, x)
                 => Above(d.buf, 0, x)
<1> DEFINE n == Block - StartPoint(c, ts)
           halt == StopIfStalled(c)
           rest == SubSeq(c.buf, n + 1, Len(c.buf))
           d == Discarded(c, ts, full)
<1>1. /\ c \in Channel /\ c.buf \in Seq(Nat) /\ Len(c.buf) \in Nat
      /\ c.audioTs \in Nat /\ ts.start \in Int /\ ts.end \in Nat
      /\ Block \in Nat /\ Frame \in Nat \ {0}
  BY ChannelAssumption DEF Bounded, Channel
<1>2. n \in Int
  <2>1. c.audioTs - ts.start \in Int
    BY <1>1
  <2>2. StartPoint(c, ts) \in Int
    BY <2>1, <1>1, Division DEF StartPoint, TimeToFrames
  <2>3. QED
    BY <2>2, <1>1
<1>3. \A x \in Int : Above(<<>>, 0, x)
  BY DEF Above
<1>4. halt.buf \in {c.buf, <<>>} /\ Bounded(halt)
  BY StopIfStalledFacts
<1>5. Ignored(c).buf \in {c.buf, <<>>}
  BY IgnoredFacts
<1>6. Ignored(halt).buf \in {c.buf, <<>>}
  BY <1>4, IgnoredFacts
<1>7. [halt EXCEPT !.audioTs = ts.end].buf = halt.buf
  BY <1>4 DEF Bounded, Channel
<1>8. CASE ~(ts.start <= c.audioTs /\ c.audioTs < ts.end /\ n \in 1..Len(c.buf))
  <2>1. \/ d = c \/ d = halt \/ d = Ignored(c) \/ d = Ignored(halt)
        \/ d = [halt EXCEPT !.audioTs = ts.end]
    <3>1. ts.end <= c.audioTs \/ c.audioTs < ts.start \/ n = 0 \/ n < 0 \/ Len(c.buf) < n
      BY <1>1, <1>2, <1>8
    <3> HIDE DEF halt
    <3>2. QED
      BY <3>1 DEF Discarded, halt
  <2> HIDE DEF d, halt
  <2>2. d.buf \in {c.buf, <<>>}
    BY <2>1, <1>4, <1>5, <1>6, <1>7
  <2>3. QED
    BY <2>2, <1>3, <1>8 DEF d
<1>9. CASE ts.start <= c.audioTs /\ c.audioTs < ts.end /\ n \in 1..Len(c.buf)
  <2>1. ~(ts.end <= c.audioTs) /\ ~(c.audioTs < ts.start) /\ ~(n = 0) /\ ~(n < 0 \/ Len(c.buf) < n)
    BY <1>1, <1>2, <1>9
  <2>2. d = [c EXCEPT !.buf = rest, !.lastSize = 0, !.pendingStop = FALSE, !.audioTs = ts.end]
    BY <2>1 DEF Discarded
  <2> HIDE DEF rest, d
  <2>3. d.buf = rest
    BY <2>2, <1>1 DEF Channel
  <2>4. n \in 0..Len(c.buf)
    BY <1>1, <1>9
  <2> HIDE DEF n
  <2>5. \A x \in Int : /\ Above(c.buf, n, x) => Above(rest, 0, x)
                       /\ Above(c.buf, 0, x) => Above(rest, 0, x)
    BY <2>4, <1>1, RestAbove DEF rest
  <2>6. QED
    BY <2>3, <2>5 DEF d, n
<1>10. QED
  BY <1>8, <1>9

\* What of a channel is mixed in a tick: of the frames that go into it.
LEMMA MixedRest ==
  ASSUME NEW c \in Channel, NEW ts \in [start : Int, end : Nat], NEW g \in Mixed(c, ts)
  PROVE  LET n == Block - StartPoint(c, ts)
         IN /\ ts.start <= c.audioTs /\ c.audioTs < ts.end
            /\ n \in 1..Block /\ \E k \in 1..n : g[1] = c.out[k]
<1>1. c.audioTs \in Nat /\ ts.start \in Int /\ ts.end \in Nat /\ Block \in Nat /\ Frame \in Nat \ {0}
  BY ChannelAssumption DEF Channel
<1> DEFINE at == StartPoint(c, ts)
           n == Block - at
<1>2. ~(c.audioTs < ts.start \/ ts.end <= c.audioTs)
  BY DEF Mixed
<1>3. c.audioTs - ts.start \in Int /\ c.audioTs - ts.start >= 0
  BY <1>1, <1>2
<1>4. at \in Nat
  <2> DEFINE x == c.audioTs - ts.start
  <2> HIDE DEF x
  <2>1. x \in Int /\ x >= 0
    BY <1>3 DEF x
  <2>2. x \div Frame \in Int /\ x \div Frame >= 0
    BY <2>1, <1>1, Division
  <2>3. QED
    BY <2>2 DEF StartPoint, TimeToFrames, x
<1>5. PICK k \in 1..n : g = <<c.out[k], ts.start + FramesToTime(at + k - 1)>>
  BY <1>2 DEF Mixed
<1> HIDE DEF at
<1>6. n \in 1..Block
  BY <1>1, <1>4, <1>5
<1>7. g[1] = c.out[k]
  BY <1>5
<1> HIDE DEF n
<1>8. ts.start <= c.audioTs /\ c.audioTs < ts.end
  BY <1>1, <1>2
<1>9. QED
  BY <1>5, <1>6, <1>7, <1>8 DEF n, at

\* audio_channel_pick_audio_data: what is picked is the front of the buffer, when there is
\* a block.
LEMMA PickedAbove ==
  ASSUME NEW c, Bounded(c), Ordered(c.buf)
  PROVE  LET d == Picked(c)
         IN /\ d.audioTs = c.audioTs /\ d.buf = c.buf
            /\ \A t \in Int : Below(c.buf, t) /\ Below(c.out, t) => Below(d.out, t)
            /\ ~d.pending => /\ Block <= Len(c.buf)
                             /\ \A j \in DOMAIN d.out : j \in DOMAIN c.buf /\ d.out[j] = c.buf[j]
<1> DEFINE out == SubSeq(c.buf, 1, Block)
           d == Picked(c)
<1>1. /\ c \in Channel /\ c.buf \in Seq(Nat) /\ Len(c.buf) \in Nat /\ Block \in Nat \ {0}
      /\ DOMAIN c.buf = 1..Len(c.buf)
  BY ChannelAssumption DEF Bounded, Channel
<1>2. CASE Len(c.buf) < Block
  <2>1. d = [c EXCEPT !.pending = TRUE]
    BY <1>2 DEF Picked
  <2>2. QED
    BY <2>1, <1>1 DEF Channel
<1>3. CASE ~(Len(c.buf) < Block)
  <2>1. /\ out \in Seq(Nat) /\ Len(out) = Block
        /\ \A t \in Int : Below(c.buf, t) => Below(out, t)
    <3> DEFINE b == c.buf
               part == SubSeq(b, 1, Block)
    <3>1. b \in Seq(Nat) /\ Ordered(b) /\ 1 \in 1..(Len(b) + 1) /\ Block \in 0..Len(b) /\ 1 <= Block
      BY <1>1, <1>3
    <3> HIDE DEF b
    <3>2. /\ part \in Seq(Nat) /\ Len(part) = (IF 1 <= Block THEN Block - 1 + 1 ELSE 0)
          /\ Ordered(part) /\ \A t \in Int : Below(b, t) => Below(part, t)
      BY <3>1, PartFacts
    <3> HIDE DEF part
    <3>3. QED
      BY <3>1, <3>2, <1>1 DEF part, b
  <2>2. \A j \in 1..(Block - 1 + 1) : out[j] = c.buf[1 + j - 1]
    <3>1. Block \in 0..Len(c.buf) /\ 1 \in 1..(Len(c.buf) + 1)
      BY <1>1, <1>3
    <3>2. QED
      BY <3>1, <1>1, SubSeqProperties
  <2>3. d = [c EXCEPT !.pending = FALSE, !.out = out]
    BY <1>3 DEF Picked
  <2> HIDE DEF out
  <2>4. DOMAIN out = 1..Block
    BY <2>1
  <2>5. \A j \in DOMAIN out : j \in DOMAIN c.buf /\ out[j] = c.buf[j]
    <3> SUFFICES ASSUME NEW j \in DOMAIN out
                 PROVE  j \in DOMAIN c.buf /\ out[j] = c.buf[j]
      OBVIOUS
    <3>1. j \in 1..(Block - 1 + 1) /\ 1 + j - 1 = j /\ j \in 1..Len(c.buf)
      BY <2>4, <1>1, <1>3
    <3>2. QED
      BY <3>1, <2>2, <1>1
  <2>6. d.audioTs = c.audioTs /\ d.buf = c.buf /\ d.out = out
    BY <2>3, <1>1 DEF Channel
  <2>7. Block <= Len(c.buf)
    BY <1>1, <1>3
  <2> HIDE DEF d
  <2>8. QED
    BY <2>1, <2>5, <2>6, <2>7 DEF d
<1>4. QED
  BY <1>2, <1>3
=============================================================================
