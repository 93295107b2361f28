---------------------------- MODULE AudioChannel ----------------------------
(***************************************************************************)
(* audio-channel.c: what one `struct audio_channel' does to the packets of *)
(* one audio client, as functions from a channel to a channel.  Mixer says *)
(* which thread calls them, and when.                                      *)
(*                                                                         *)
(* Times are multiples of a unit that is far longer than a nanosecond: the *)
(* `- 1' and the roundings of the code that stand for one nanosecond have  *)
(* no counterpart.  A sample is a number, 0 for silence; one circular      *)
(* buffer stands for those of all planes, which go together, and is the    *)
(* sequence that CircleBuf implements.                                     *)
(***************************************************************************)
EXTENDS Integers, Sequences

CONSTANTS
  Frame,         \* the time of one frame
  Block,         \* AUDIO_OUTPUT_FRAMES
  Smooth,        \* TS_SMOOTHING_THRESHOLD
  Delay,         \* the "extra 100ms" of audio_channel_output_audio_internal
  MaxVar,        \* MAX_TS_VAR
  MaxBuf         \* MAX_BUF_SIZE, in frames

ASSUME ChannelAssumption ==
  /\ {Frame, Block, Smooth, Delay, MaxVar, MaxBuf} \subseteq Nat \ {0}
  /\ Smooth < Delay /\ Delay < MaxVar /\ Block < MaxBuf

FramesToTime(n) == n * Frame
TimeToFrames(t) == t \div Frame
Tick == FramesToTime(Block)         \* the time of one block

Channel ==
  [pending : BOOLEAN,               \* audio_pending
   pendingStop : BOOLEAN,           \* pending_stop
   audioTs : Nat,                   \* audio_ts, the time of the first frame in buf; 0 for none
   buf : Seq(Nat),                  \* audio_input_buf
   lastSize : 0..MaxBuf,            \* last_audio_input_buf_size, in frames
   adjust : Nat,                    \* timing_adjust
   nextTs : Nat,                    \* next_audio_ts_min
   nextSys : Nat,                   \* next_audio_sys_ts_min
   out : Seq(Nat)]                  \* audio_output_buf; <<>> when nothing is in it

\* audio_channel_create
Created == [pending |-> FALSE, pendingStop |-> FALSE, audioTs |-> 0, buf |-> <<>>,
            lastSize |-> 0, adjust |-> 0, nextTs |-> 0, nextSys |-> 0, out |-> <<>>]
-----------------------------------------------------------------------------
(***************************************************************************)
(* A packet comes in: n frames stamped ts, at the time os.                 *)
(***************************************************************************)

Diff(a, b) == IF a < b THEN b - a ELSE a - b

\* Mutant: the adjustment of an earlier packet stays when a time stamp is near
\* the clock again.
StampedAdjusted(c, ts, n, os) ==
  LET direct == Diff(ts, os) < MaxVar
      jumped == c.nextTs # 0 /\ Diff(c.nextTs, ts) > MaxVar /\ ~direct
      smooth == c.nextTs # 0 /\ Diff(c.nextTs, ts) < Smooth
      start  == IF smooth THEN c.nextTs ELSE ts
      adjust == IF jumped THEN os - ts ELSE c.adjust
      diff   == Diff(c.nextSys, start + adjust)
      resync == c.nextSys # 0 /\ diff > MaxVar
      final  == IF resync THEN os - ts ELSE adjust
      next   == start + FramesToTime(n)
  IN [channel  |-> [c EXCEPT !.adjust = final, !.nextTs = next, !.nextSys = next + final],
      ts       |-> (IF resync THEN os ELSE start + adjust) + Delay,
      pushBack |-> c.nextSys # 0 /\ diff < Smooth]

\* The first half of audio_channel_output_audio_internal: the time the packet
\* is to be heard, and whether it goes behind the one before.  A time stamp
\* near the clock is taken as it is; one that nearly follows the last packet
\* is taken to follow it; one that has jumped is moved to the clock.
Stamped(c, ts, n, os) ==
  LET direct == Diff(ts, os) < MaxVar
      jumped == c.nextTs # 0 /\ Diff(c.nextTs, ts) > MaxVar /\ ~direct
      smooth == c.nextTs # 0 /\ Diff(c.nextTs, ts) < Smooth
      start  == IF smooth THEN c.nextTs ELSE ts
      adjust == IF direct THEN 0 ELSE IF jumped THEN os - ts ELSE c.adjust
      diff   == Diff(c.nextSys, start + adjust)
      resync == c.nextSys # 0 /\ diff > MaxVar
      final  == IF resync THEN os - ts ELSE adjust
      next   == start + FramesToTime(n)
  IN [channel  |-> [c EXCEPT !.adjust = final, !.nextTs = next, !.nextSys = next + final],
      ts       |-> (IF resync THEN os ELSE start + adjust) + Delay,
      pushBack |-> c.nextSys # 0 /\ diff < Smooth]

\* reset_audio_data
ResetData(c, ts) ==
  [c EXCEPT !.buf = <<>>, !.lastSize = 0, !.audioTs = ts, !.nextSys = ts]

NeedsReset(c, ts) == c.audioTs = 0 \/ ts < c.audioTs

\* audio_channel_output_audio_push_back
PushedBack(c, samples) ==
  IF Len(c.buf) + Len(samples) > MaxBuf THEN c
  ELSE [c EXCEPT !.buf = @ \o samples, !.lastSize = 0]

\* Mutant: what lay behind the packet stays.
LaidUncut(buf, at, samples) ==
  LET end == at + Len(samples)
  IN [k \in 1..(IF end > Len(buf) THEN end ELSE Len(buf)) |->
        IF k > at /\ k <= end THEN samples[k - at] ELSE IF k <= Len(buf) THEN buf[k] ELSE 0]

\* The samples are put behind the first `at' frames.  A gap is filled with
\* zeros, and what lay behind the packet is cut off.
Laid(buf, at, samples) ==
  [k \in 1..(at + Len(samples)) |-> IF k > at THEN samples[k - at]
                                   ELSE IF k <= Len(buf) THEN buf[k] ELSE 0]

\* audio_channel_output_audio_place
Placed(c, ts, samples) ==
  LET at == TimeToFrames(ts - c.audioTs)
  IN IF at + Len(samples) > MaxBuf THEN c
     ELSE [c EXCEPT !.lastSize = 0, !.buf = Laid(@, at, samples)]
-----------------------------------------------------------------------------
(***************************************************************************)
(* A block goes out.                                                       *)
(***************************************************************************)

\* audio_channel_pick_audio_data
Picked(c) ==
  IF Len(c.buf) < Block THEN [c EXCEPT !.pending = TRUE]
  ELSE [c EXCEPT !.pending = FALSE, !.out = SubSeq(c.buf, 1, Block)]

\* audio_channel_audio_buffer_insuffient.  A channel behind minTs (its time
\* stamp moved since minTs was found) has its difference wrap: it is not.
Insufficient(c, minTs) ==
  LET at == TimeToFrames(c.audioTs - minTs)
  IN /\ ~c.pending /\ c.audioTs # 0
     /\ c.audioTs >= minTs /\ at < Block
     /\ Len(c.buf) < Block - at

\* Mutant: a buffer that stays as it is is not noticed.
StalledNever(c) == c.lastSize > Len(c.buf)

\* discard_if_stopped: only a buffer that has not changed for two ticks is cleared.
Stalled(c) == c.buf # <<>> /\ c.lastSize = Len(c.buf)

StopIfStalled(c) ==
  IF ~Stalled(c) THEN IF c.buf = <<>> THEN c ELSE [c EXCEPT !.lastSize = Len(c.buf)]
  ELSE IF ~c.pendingStop THEN [c EXCEPT !.pendingStop = TRUE]
  ELSE [c EXCEPT !.buf = <<>>, !.pendingStop = FALSE, !.audioTs = 0, !.lastSize = 0]

\* ignore_audio
Ignored(c) ==
  IF c.buf = <<>> THEN c
  ELSE [c EXCEPT !.buf = <<>>, !.lastSize = 0, !.audioTs = @ + FramesToTime(Len(c.buf))]

\* The frame of a tick at which the channel begins.
StartPoint(c, ts) == TimeToFrames(c.audioTs - ts.start)

\* Mutant: a channel that begins after the tick is not spared.
DiscardedEarly(c, ts, full) ==
  LET n == Block - StartPoint(c, ts)
  IN IF c.audioTs < ts.start \/ n = 0 THEN c
     ELSE IF n < 0 \/ Len(c.buf) < n
     THEN IF Stalled(c) THEN StopIfStalled(c) ELSE [StopIfStalled(c) EXCEPT !.audioTs = ts.end]
     ELSE [c EXCEPT !.buf = SubSeq(@, n + 1, Len(@)), !.lastSize = 0,
                    !.pendingStop = FALSE, !.audioTs = ts.end]

\* Mutant: a whole block is to be discarded in the tick in which a channel begins.
DiscardedWhole(c, ts, full) ==
  IF ts.end <= c.audioTs \/ c.audioTs < ts.start THEN c
  ELSE IF Len(c.buf) < Block
  THEN IF Stalled(c) THEN StopIfStalled(c) ELSE [StopIfStalled(c) EXCEPT !.audioTs = ts.end]
  ELSE [c EXCEPT !.buf = SubSeq(@, StartPoint(c, ts) + 1, Len(@)), !.lastSize = 0,
                 !.pendingStop = FALSE, !.audioTs = ts.end]

\* wasapi_capture_discard_audio; full: the limit of buffering is reached.
Discarded(c, ts, full) ==
  LET n == Block - StartPoint(c, ts)
      halt == StopIfStalled(c)
      ignore(d) == IF full THEN Ignored(d) ELSE d
  IN IF ts.end <= c.audioTs THEN c
     ELSE IF c.audioTs < ts.start
     THEN IF ~(c.pending /\ Len(c.buf) < Block) THEN ignore(c)
          ELSE IF Stalled(c) THEN halt ELSE ignore(halt)
     ELSE IF n = 0 THEN c
     ELSE IF n < 0 \/ Len(c.buf) < n           \* n < 0 is a huge size_t
     THEN IF Stalled(c) THEN halt ELSE [halt EXCEPT !.audioTs = ts.end]
     ELSE [c EXCEPT !.buf = SubSeq(@, n + 1, Len(@)), !.lastSize = 0,
                    !.pendingStop = FALSE, !.audioTs = ts.end]

\* wasapi_capture_mix_audio: which of the picked samples is added at which time.
Mixed(c, ts) ==
  IF c.audioTs < ts.start \/ ts.end <= c.audioTs THEN {}
  ELSE LET at == StartPoint(c, ts)
       IN {<<c.out[k], ts.start + FramesToTime(at + k - 1)>> : k \in 1..(Block - at)}
=============================================================================
