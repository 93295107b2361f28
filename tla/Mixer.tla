------------------------------- MODULE Mixer -------------------------------
(***************************************************************************)
(* How the packets of the audio clients of one process become the audio of *)
(* one OBS source (wasapi-capture.c, audio-channel.c): the capture thread  *)
(* puts them into a channel per client, and the mix thread makes a block   *)
(* of each tick from what the channels hold.                               *)
(*                                                                         *)
(* Time passes (`now'); how late a packet may be, or the mix thread, is    *)
(* bounded by the scenario, which is chosen at the beginning and stays.    *)
(* The packets come in the order in which they were published: that is     *)
(* AudioStream, which AudioShmem implements.                               *)
(*                                                                         *)
(* A step is what a thread does between two accesses that the other thread *)
(* can see.  The fields of a channel are guarded by its audio_buf_mutex,   *)
(* the list of channels by channel_mutex; but find_min_ts and              *)
(* mark_invalid_sources look at the fields under channel_mutex only.       *)
(***************************************************************************)
EXTENDS AudioChannel, SequencesExt

CONSTANTS
  Clients,       \* the audio clients of the hooked process (IAudioRenderClient)
  Packet,        \* the frames of one packet
  MaxTicks,      \* MAX_BUFFERING_TICKS
  Junk,          \* what a time nobody wrote may be
  Scenarios,     \* what the hooked process and the system may be like
  Horizon        \* bound: the last time of all scenarios

Scenario ==
  [clients  : SUBSET Clients,       \* the clients that play
   steady   : SUBSET Clients,       \* those that, once they play, play without a pause
   quiet    : BOOLEAN,              \* whether a packet may be silence, all zeros
   soon     : 0..Horizon,           \* the shortest a packet is on its way
   late     : 0..Horizon,           \* the longest
   lag      : 0..Horizon,           \* the longest the mix thread begins a tick after its start
   sessions : 1..Horizon,           \* bound: times the source is started
   end      : 1..Horizon]           \* bound: the last time

ASSUME MixerAssumption ==
  /\ {Packet, MaxTicks, Horizon} \subseteq Nat \ {0}
  /\ Junk \subseteq Nat
  /\ Scenarios \subseteq Scenario

VARIABLES
  scenario,      \* the one this behaviour is of
  now,           \* os_gettime_ns
  (* the hooked process *)
  rendered,      \* rendered[c]: when client c released its last packet, 0 for never
  playing,       \* the clients that have released one in this session
  flight,        \* the packets published and not yet received
  (* the source *)
  capturing,     \* wc->capturing
  sessions,      \* times it was started
  channel,       \* wc->audio_channels, by client
  order,         \* the clients in the order of that list
  (* the capture thread *)
  cpc,           \* where it is
  packet,        \* the packet it has
  (* the mix thread *)
  mpc,           \* where it is
  i,             \* its loop variable
  audioTime,     \* audio_time: where the next tick begins
  mixing,        \* how many channels wc->mix_channels has, the first of order
  ts,            \* the tick at work
  minTs,         \* min_ts
  queue,         \* wc->buffered_timestamps
  wait,          \* wc->buffering_wait_ticks
  total,         \* wc->total_buffering_ticks
  bufferedTs,    \* wc->buffered_ts
  (* history *)
  lastOut,       \* the last tick given to OBS, 0 for none
  heard,         \* heard[c]: the samples last mixed, each with the time it went out
  lost,          \* clients of which a sample was dropped
  unheard        \* unheard[c]: samples received without a pause since c was last mixed

hookVars == <<rendered, playing, flight>>
sessionVars == <<capturing, sessions>>
channelVars == <<channel, order>>
captureVars == <<cpc, packet>>
mixVars == <<mpc, i, audioTime, mixing, ts, minTs>>
bufferingVars == <<queue, wait, total, bufferedTs>>
history == <<lastOut, heard, lost, unheard>>
vars == <<scenario, now, hookVars, sessionVars, channelVars, captureVars, mixVars, bufferingVars, history>>

\* Ticks that are put before others may begin before the time at which time begins here.
Interval == [start : Int, end : Nat]
Packets == [client : Clients, ts : Nat, silent : BOOLEAN]
NoPacket == [ts |-> 0]

NoTick == [start |-> 0, end |-> 0]
Span(s) == [start |-> s, end |-> s + Tick]
PacketTime == FramesToTime(Packet)

\* A sample is known by the time it is to be heard, so a client's are all different.
Samples(p) ==
  [k \in 1..Packet |-> IF p.silent THEN 0 ELSE p.ts + Delay + FramesToTime(k - 1)]

\* The samples of a buffer that are not silence.
Sounds(buf) == {buf[k] : k \in DOMAIN buf} \ {0}
-----------------------------------------------------------------------------
Init ==
  /\ scenario \in Scenarios
  /\ now = 1
  /\ rendered = [c \in Clients |-> 0] /\ playing = {} /\ flight = <<>>
  /\ capturing = FALSE /\ sessions = 0
  /\ channel = [c \in Clients |-> Created] /\ order = <<>>
  /\ cpc = "off" /\ packet = NoPacket
  /\ mpc = "off" /\ i = 1 /\ audioTime = 0 /\ mixing = 0
  /\ ts = NoTick /\ minTs = 0
  /\ queue = <<>> /\ wait = 0 /\ total = 0 /\ bufferedTs = 0
  /\ lastOut = 0 /\ heard = [c \in Clients |-> {}] /\ lost = {}
  /\ unheard = [c \in Clients |-> 0]
-----------------------------------------------------------------------------
(***************************************************************************)
(* The hooked process, and time.                                           *)
(***************************************************************************)

\* No thread is in the middle of anything.
AtRest == cpc \in {"off", "wait"} /\ mpc \in {"off", "sleep"}

\* A client releases a packet of what it plays from now on.  (No thread looks
\* at what this writes but Receive, so it need not come amid their steps.)
Release(c) ==
  /\ c \in scenario.clients
  /\ capturing /\ AtRest
  /\ rendered[c] = 0 \/ rendered[c] + PacketTime <= now
  /\ \E silent \in {FALSE, scenario.quiet} :
       flight' = Append(flight, [client |-> c, ts |-> now, silent |-> silent])
  /\ rendered' = [rendered EXCEPT ![c] = now]
  /\ playing' = playing \cup {c}
  /\ unheard' = IF rendered[c] + PacketTime = now THEN unheard
                ELSE [unheard EXCEPT ![c] = 0]
  /\ UNCHANGED <<scenario, now, sessionVars, channelVars, captureVars, mixVars, bufferingVars,
                 lastOut, heard, lost>>

\* A packet under way is not too late, a steady client has its packet out,
\* the mix thread is not too far behind, and what a thread began it has ended
\* (it takes less than a unit of time).  Time begins with the first session.
Pass ==
  /\ sessions > 0 /\ now < scenario.end /\ AtRest
  /\ flight # <<>> => now < Head(flight).ts + scenario.late
  /\ capturing => \A c \in scenario.steady \cap playing : now < rendered[c] + PacketTime
  /\ mpc = "sleep" => now < audioTime + scenario.lag
  /\ now' = now + 1
  /\ UNCHANGED <<scenario, hookVars, sessionVars, channelVars, captureVars, mixVars,
                 bufferingVars, history>>

\* start_capture.  The clock of the mix thread starts anew; the channels and
\* the state of the buffering are as the last session left them.
Start ==
  /\ ~capturing /\ cpc = "off" /\ mpc = "off"
  /\ sessions < scenario.sessions /\ now < scenario.end
  /\ capturing' = TRUE /\ sessions' = sessions + 1
  /\ cpc' = "wait"
  /\ mpc' = "sleep" /\ audioTime' = now
  /\ UNCHANGED <<scenario, now, hookVars, channelVars, packet, i, mixing, ts, minTs,
                 bufferingVars, history>>

\* stop_capture, which then waits for both threads.
Stop ==
  /\ capturing /\ sessions < scenario.sessions
  /\ capturing' = FALSE
  /\ playing' = {}
  /\ UNCHANGED <<scenario, now, rendered, flight, sessions, channelVars, captureVars, mixVars,
                 bufferingVars, history>>
-----------------------------------------------------------------------------
(***************************************************************************)
(* The capture thread: capture_thread_proc, output_audio_data,             *)
(* audio_channel_output_audio.                                             *)
(***************************************************************************)

ChannelMutexHeld == mpc \in {"mark", "refind"}
AudioBufHeld(c) == cpc = "place" /\ packet.client = c

\* Client c loses a sample that was not mixed when its channel changes from a to b.
Loses(c, a, b) == ~(Sounds(a.buf) \subseteq Sounds(b.buf) \cup {h[1] : h \in heard[c]})

\* The channel is looked up, or created.
Receive ==
  /\ cpc = "wait" /\ flight # <<>> /\ now >= Head(flight).ts + scenario.soon
  /\ ~ChannelMutexHeld
  /\ packet' = Head(flight) /\ flight' = Tail(flight)
  /\ cpc' = "output"
  /\ order' = IF Contains(order, Head(flight).client) THEN order
              ELSE Append(order, Head(flight).client)
  /\ UNCHANGED <<scenario, now, rendered, playing, sessionVars, channel, mixVars, bufferingVars, history>>

\* The packet p is done with, and its channel becomes ch.
Output(p, ch) ==
  LET c == p.client
      kept == Sounds(ch.buf) \cup {h[1] : h \in heard[c]}
  IN /\ channel' = [channel EXCEPT ![c] = ch]
     /\ lost' = IF Sounds(channel[c].buf) \cup Sounds(Samples(p)) \subseteq kept
                THEN lost ELSE lost \cup {c}
     /\ unheard' = [unheard EXCEPT ![c] = @ + Packet]
     /\ cpc' = "wait" /\ packet' = NoPacket

\* audio_channel_output_audio_internal: a packet that goes behind the last one
\* ends here, and so does one that is placed, unless the channel is reset.
OutputAudio ==
  LET c == packet.client
      s == Stamped(channel[c], packet.ts, Packet, now)
  IN /\ cpc = "output"
     /\ IF s.pushBack /\ channel[c].audioTs # 0
        THEN Output(packet, PushedBack(s.channel, Samples(packet)))
        ELSE IF ~NeedsReset(s.channel, s.ts)
        THEN Output(packet, Placed(s.channel, s.ts, Samples(packet)))
        ELSE /\ channel' = [channel EXCEPT ![c] = ResetData(s.channel, s.ts)]
             /\ lost' = IF Loses(c, channel[c], Created) THEN lost \cup {c} ELSE lost
             /\ cpc' = "place"
             /\ UNCHANGED <<packet, unheard>>
     /\ UNCHANGED <<scenario, now, hookVars, sessionVars, order, mixVars, bufferingVars, lastOut, heard>>

\* After the reset; audio_buf_mutex is held since before it.
Place ==
  LET c == packet.client
  IN /\ cpc = "place"
     /\ Output(packet, Placed(channel[c], channel[c].nextSys, Samples(packet)))
     /\ UNCHANGED <<scenario, now, hookVars, sessionVars, order, mixVars, bufferingVars, lastOut, heard>>

\* The thread ends; what is left in the map is never read.
CaptureLeaves ==
  /\ ~capturing /\ cpc = "wait"
  /\ cpc' = "off" /\ flight' = <<>>
  /\ UNCHANGED <<scenario, now, rendered, playing, sessionVars, channelVars, packet, mixVars,
                 bufferingVars, history>>
-----------------------------------------------------------------------------
(***************************************************************************)
(* The mix thread: mix_thread_proc, wasapi_capture_fetch_audio.            *)
(***************************************************************************)

\* Mutant: the tick that has just begun is worked at, not the one in front.
FetchNewest ==
  /\ mpc = "sleep" /\ audioTime <= now
  /\ queue' = Append(queue, Span(audioTime))
  /\ ts' = Span(audioTime) /\ minTs' = audioTime
  /\ mixing' = Len(order)
  /\ audioTime' = audioTime + Tick
  /\ mpc' = IF order = <<>> THEN "find" ELSE "pick"
  /\ UNCHANGED <<scenario, now, hookVars, sessionVars, channelVars, captureVars, i, wait, total, bufferedTs,
                 history>>

\* A tick is taken up as soon as it has begun.
FetchAudio ==
  /\ mpc = "sleep" /\ audioTime <= now
  /\ queue' = Append(queue, Span(audioTime))
  /\ ts' = Head(queue') /\ minTs' = ts'.start
  /\ mixing' = Len(order)
  /\ audioTime' = audioTime + Tick
  /\ mpc' = IF order = <<>> THEN "find" ELSE "pick"
  /\ UNCHANGED <<scenario, now, hookVars, sessionVars, channelVars, captureVars, i, wait, total, bufferedTs,
                 history>>

\* while (wc->capturing), reached when no tick is due.
MixLeaves ==
  /\ ~capturing /\ mpc = "sleep" /\ audioTime > now
  /\ mpc' = "off"
  /\ UNCHANGED <<scenario, now, hookVars, sessionVars, channelVars, captureVars, i, audioTime, mixing, ts,
                 minTs, bufferingVars, history>>

\* One round of a loop over wc->mix_channels; after the last one, phase next.
Round(next) ==
  IF i < mixing THEN i' = i + 1 /\ mpc' = mpc ELSE i' = 1 /\ mpc' = next

Pick ==
  /\ mpc = "pick" /\ ~AudioBufHeld(order[i])
  /\ channel' = [channel EXCEPT ![order[i]] = Picked(@)]
  /\ Round("find")
  /\ UNCHANGED <<scenario, now, hookVars, sessionVars, order, captureVars, audioTime, mixing, ts, minTs,
                 bufferingVars, history>>

Listed == {order[k] : k \in DOMAIN order}

\* The loops under channel_mutex are one step each: no packet can be looked up
\* meanwhile, so that at most one is put out, and into one channel.

\* find_min_ts, called once or twice
FindMin ==
  /\ mpc \in {"find", "refind"}
  /\ minTs' = Min({minTs} \cup {channel[c].audioTs : c \in
                   {d \in Listed : ~channel[d].pending /\ channel[d].audioTs # 0}})
  /\ mpc' = IF mpc = "find" THEN "mark" ELSE "buffer"
  /\ UNCHANGED <<scenario, now, hookVars, sessionVars, channelVars, captureVars, i, audioTime, mixing, ts,
                 bufferingVars, history>>

\* mark_invalid_sources
Mark ==
  LET short == {c \in Listed : Insufficient(channel[c], minTs)}
  IN /\ mpc = "mark"
     /\ channel' = [c \in Clients |-> [channel[c] EXCEPT !.pending = @ \/ c \in short]]
     /\ mpc' = IF short # {} THEN "refind" ELSE "buffer"
     /\ UNCHANGED <<scenario, now, hookVars, sessionVars, order, captureVars, i, audioTime, mixing, ts,
                    minTs, bufferingVars, history>>

\* Mutant: rounded down.
TicksBehindDown(t) == TimeToFrames(t) \div Block

TicksBehind(t) == (TimeToFrames(t) + Block - 1) \div Block

\* Mutant: the limit does not hold back the ticks.
BufferingUnlimited ==
  LET ticks == TicksBehind(ts.start - minTs)
      base  == IF wait = 0 THEN ts.start ELSE bufferedTs
      start(k) == base - k * Tick
  IN /\ total < MaxTicks
     /\ total' = total + ticks /\ wait' = wait + ticks /\ bufferedTs' = base
     /\ queue' = [k \in 1..ticks |-> Span(start(wait + ticks + 1 - k))] \o queue
     /\ ts' = Head(queue')

\* Mutant: at the limit the total is cut, but all ticks are put.
BufferingUncut ==
  LET ticks == TicksBehind(ts.start - minTs)
      base  == IF wait = 0 THEN ts.start ELSE bufferedTs
      start(k) == base - k * Tick
  IN /\ total < MaxTicks
     /\ total' = Min({total + ticks, MaxTicks}) /\ wait' = wait + ticks /\ bufferedTs' = base
     /\ queue' = [k \in 1..ticks |-> Span(start(wait + ticks + 1 - k))] \o queue
     /\ ts' = Head(queue')

\* wasapi_capture_add_audio_buffering: earlier ticks are put before the one at
\* work.  When there are none to put, the end of the tick is not written.
AddBuffering ==
  LET behind == TicksBehind(ts.start - minTs)
      ticks  == IF total + behind > MaxTicks THEN MaxTicks - total ELSE behind
      base   == IF wait = 0 THEN ts.start ELSE bufferedTs
      start(k) == base - k * Tick
  IN /\ total < MaxTicks
     /\ total' = total + ticks
     /\ wait' = wait + ticks
     /\ bufferedTs' = base
     /\ queue' = [k \in 1..ticks |-> Span(start(wait + ticks + 1 - k))] \o queue
     /\ ts' \in IF ticks > 0 THEN {Head(queue')} ELSE [start : {start(wait)}, end : Junk]

Buffer ==
  /\ mpc = "buffer"
  /\ \/ minTs < ts.start /\ AddBuffering
     \/ /\ minTs >= ts.start \/ total = MaxTicks
        /\ UNCHANGED <<bufferingVars, ts>>
  /\ mpc' = IF wait' = 0 /\ mixing > 0 THEN "mix" ELSE "discard"
  /\ UNCHANGED <<scenario, now, hookVars, sessionVars, channelVars, captureVars, i, audioTime, mixing,
                 minTs, history>>

\* What is mixed of a channel: nothing when its first sample is zero.
MixedOf(ch) ==
  IF ch.pending \/ ch.audioTs = 0 THEN {}
  ELSE IF ch.out[1] = 0 THEN {} ELSE {h \in Mixed(ch, ts) : h[1] # 0}

Mix ==
  /\ mpc = "mix"
  /\ ~channel[order[i]].pending => ~AudioBufHeld(order[i])
  /\ LET c == order[i]
         mix == MixedOf(channel[c])
     IN /\ heard' = IF mix = {} THEN heard ELSE [heard EXCEPT ![c] = mix]
        /\ unheard' = IF mix = {} THEN unheard ELSE [unheard EXCEPT ![c] = 0]
  /\ Round("discard")
  /\ UNCHANGED <<scenario, now, hookVars, sessionVars, channelVars, captureVars, audioTime, mixing, ts,
                 minTs, bufferingVars, lastOut, lost>>

\* The last loop, and the end of fetch_audio: the tick goes to OBS, or was one
\* to wait.  What the next tick writes before it reads it is forgotten.
Discard ==
  LET after == [c \in Clients |->
                  IF c \in Listed THEN Discarded(channel[c], ts, total = MaxTicks) ELSE channel[c]]
  IN /\ mpc = "discard" /\ \A c \in Listed : ~AudioBufHeld(c)
     /\ channel' = [c \in Clients |-> [after[c] EXCEPT !.out = <<>>]]
     /\ lost' = lost \cup {c \in Clients : Loses(c, channel[c], after[c])}
     /\ queue' = Tail(queue)
     /\ wait' = IF wait = 0 THEN 0 ELSE wait - 1
     /\ lastOut' = IF wait = 0 THEN ts.start ELSE lastOut
     /\ mpc' = "sleep" /\ mixing' = 0 /\ ts' = NoTick /\ minTs' = 0
     /\ UNCHANGED <<scenario, now, hookVars, sessionVars, order, captureVars, i, audioTime, total,
                    bufferedTs, heard, unheard>>
-----------------------------------------------------------------------------
CaptureThread == Receive \/ OutputAudio \/ Place \/ CaptureLeaves
MixThread == \/ FetchAudio \/ Pick \/ FindMin \/ Mark \/ Buffer \/ Mix \/ Discard
             \/ MixLeaves

\* The model's time is over.
TheEnd == now = scenario.end /\ AtRest /\ UNCHANGED vars

Next == \/ \E c \in Clients : Release(c)
        \/ Pass \/ Start \/ Stop \/ CaptureThread \/ MixThread \/ TheEnd

Spec == Init /\ [][Next]_vars
-----------------------------------------------------------------------------
(***************************************************************************)
(* Properties.                                                             *)
(***************************************************************************)

\* The types of the variables.  Among them: a buffer stays below MaxBuf, and the
\* buffering below its limit; none of the unsigned times of a channel, and not
\* timing_adjust, which is a difference of two, wraps below zero.
TypeOK ==
  /\ scenario \in Scenarios /\ now \in 1..scenario.end
  /\ rendered \in [Clients -> 0..Horizon] /\ playing \subseteq Clients
  /\ flight \in Seq(Packets)
  /\ capturing \in BOOLEAN /\ sessions \in 0..scenario.sessions
  /\ channel \in [Clients -> Channel]
  /\ \A c \in Clients : Len(channel[c].buf) <= MaxBuf
  /\ order \in Seq(Clients) /\ IsInjective(order)
  /\ cpc \in {"off", "wait", "output", "place"}
  /\ packet \in Packets \cup {NoPacket}
  /\ mpc \in {"off", "sleep", "pick", "find", "mark", "refind", "buffer", "mix", "discard"}
  /\ i \in 1..(Len(order) + 1) /\ audioTime \in Nat /\ mixing \in 0..Len(order)
  /\ ts \in Interval /\ minTs \in Int
  /\ queue \in Seq(Interval)
  /\ wait \in Nat /\ total \in 0..MaxTicks /\ bufferedTs \in Int
  /\ lastOut \in Int /\ lost \subseteq Clients
  /\ heard \in [Clients -> SUBSET (Nat \X Int)]
  /\ unheard \in [Clients -> Nat]

\* wasapi_capture_add_audio_buffering and fetch_audio keep three accounts of the
\* ticks held back: the queue, the ticks still to wait for and the total.  They
\* agree, over any number of additions and across sessions: the queue holds the
\* total, and the tick in front is as far behind bufferedTs as the wait says.
Buffering ==
  /\ Len(queue) = total + (IF mpc \in {"off", "sleep"} THEN 0 ELSE 1)
  /\ wait <= total
  /\ wait > 0 => Head(queue).start = bufferedTs - wait * Tick

\* What OBS is given is one stream: each tick begins where the one before ended,
\* however often ticks were put before those already waiting.  Only a new session
\* leaves a gap, and not even then does the stream go back, although the first
\* ticks it gives may be those that the last one kept waiting.
OutputsInOrder ==
  [][lastOut # 0 /\ lastOut' # lastOut =>
       \/ lastOut' = lastOut + Tick
       \/ sessions > 1 /\ lastOut' > lastOut]_vars

\* The ticks of the mix thread that are begun and not yet given to OBS: those of
\* the queue without the ones that were put before them to wait.
Taken == [k \in 1..(Len(queue) - wait) |-> queue[k + wait].start]

\* However ticks are put before those that wait, and whatever a session leaves
\* behind, each tick of the mix thread's clock goes to OBS once, in order.
Stream == INSTANCE TickStream WITH taken <- Taken, next <- audioTime, given <- lastOut
StreamSpec == Stream!Spec

\* No sample of a client is mixed twice, and none after a later one, although
\* the mix thread picks, mixes and discards under three different locks while
\* the capture thread resets and refills the channel.  (While packets are not
\* later than what the Delay leaves: see NeverTwice in MixerProofs, and
\* MixerTwice.cfg.)
HeardOnce ==
  [][\A c \in Clients : heard'[c] # heard[c] =>
        \A old \in heard[c], new \in heard'[c] : old[1] < new[1]]_vars

\* A client that plays without a pause, and whose packets come in time, loses
\* nothing and is heard exactly the Delay after its time stamps, whatever
\* another client does: stop, start again, or make the mixer buffer.
Undisturbed ==
  scenario.late = 0 /\ scenario.sessions = 1 =>
    \A c \in scenario.steady : c \notin lost /\ \A h \in heard[c] : h[1] = h[2]

\* When a channel is behind the tick at work, add_audio_buffering goes back as
\* far as that channel, but for less than a frame, or to the limit ("if a source
\* has gone backward in time, buffer").
BehindIsBuffered ==
  mpc \in {"mix", "discard"} => minTs > ts.start - Frame \/ total = MaxTicks

\* The ticks of which a sound can be put off: one for each packet that the block
\* in which it begins may still lack.
Drift == Tick * ((Block + Packet - 2) \div Packet)

\* Each time a channel runs short, its time stamp moves to the end of the tick
\* and what it holds is heard later.  This does not add up: a sample is heard no
\* later than its packet was late, and a tick for each packet that was missing.
\* (While packets are not later than what the Delay leaves; see SmallDrift in
\* MixerSteadyProofs.)
NoDrift ==
  \A c \in Clients : \A h \in heard[c] : h[2] - h[1] <= scenario.late + Drift

\* audio_channel_output_audio_internal corrects the time stamps when they jump,
\* and takes the correction back when they are near the clock again.  In whatever
\* order it meets packets that are late by more and by less than MAX_TS_VAR, the
\* corrected end of the last one is not ahead of the clock by more than
\* TS_SMOOTHING_THRESHOLD accounts for, and what lateness varies beyond MAX_TS_VAR.
NotAhead ==
  \A c \in Clients : channel[c].nextTs + channel[c].adjust
                       < now + Smooth + PacketTime + Max({0, scenario.late - MaxVar})

\* However the capture thread resets, fills and cuts the buffer of a channel while
\* the mix thread picks, mixes and discards what is in it, its sounds are in the
\* order in which they were played, each once; and what is mixed of them in a tick
\* is heard in that order.
InOrder ==
  \A c \in Clients :
    LET buf == channel[c].buf
    IN /\ \A j, k \in DOMAIN buf : j < k /\ buf[j] # 0 /\ buf[k] # 0 => buf[j] < buf[k]
       /\ \A g, h \in heard[c] : g[1] < h[1] => g[2] < h[2]

(* What one would expect of the mixer, or a comment says; the code does otherwise. *)

\* A source that is started again gives OBS the ticks of this session only.
NoneLeft == mpc = "off" => queue = <<>>

\* No source stays behind the tick at work, not even by less than a frame.
BehindIsBufferedExactly ==
  mpc \in {"mix", "discard"} => minTs >= ts.start \/ total = MaxTicks

\* "if a source has gone backward in time, buffer": when every packet comes
\* with its own time stamp at once, no source goes backward.
NoBuffering == total = 0

\* "add extra 100ms to avoid loss audio data when capture jitter", "audio mix":
\* while a steady client's packets are less than the Delay late, nothing of
\* what it plays is thrown away.
NotLost == lost \cap scenario.steady = {}

\* "add extra 100ms": a sample is not heard much (by TS_SMOOTHING_THRESHOLD or
\* more) before that time is over.
KeepsDelay == \A c \in Clients : \A h \in heard[c] : h[1] - h[2] < Smooth

\* "reset audio input buffer size to ensure that audio doesn't get perpetually
\* cut": a client of which more than a full buffer came in without a pause, and
\* of which nothing was mixed, is not left a full buffer behind the clock.
NotCutOff ==
  \A c \in Clients : unheard[c] > MaxBuf => channel[c].audioTs + FramesToTime(MaxBuf) >= now
=============================================================================
