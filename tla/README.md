# Verification of windows-process-audio-capture

TLA+ modules of the plugin, the TLC configurations that check them and the
TLAPS proofs about them. Source paths and line numbers are those of `src/`.

1. [The system](#the-system)
2. [What is hard in it](#what-is-hard-in-it)
3. [Modules, and what they stand for](#modules-and-what-they-stand-for)
4. [Runs](#runs)
5. [Fairness](#fairness)
6. [Where code and words disagree](#where-code-and-words-disagree)
7. [Proofs](#proofs)
8. [What is not modelled](#what-is-not-modelled)
9. [Plan](#plan)

## The system

An OBS source captures the audio that one process plays. An injector loads a
DLL (the hook) into the process; the DLL detours
`IAudioRenderClient::ReleaseBuffer` and copies each rendered buffer into shared
memory; a thread of the source copies it out, resamples it and buffers it per
audio client; a second thread mixes the clients and gives the result to OBS.

```
 hooked process                          |  OBS, one set per source
                                         |
 rendering threads                       |  tick, every frame
   ReleaseBuffer (detoured)              |    stop? helper? ready? try? target alive?
     capture_check  <---- restart, stop -+--- try_hook / init_hook / stop_capture
        |  keepalive mutex exists? <-----+--- (held while a session lasts)
        +------------- ready ------------+--> start_capture
     out_audio_data --- map, mutex, -----+--> capture thread -> audio channels
                        data event       |                          |
 thread of the DLL <---- init -----------+---                   mix thread
   hooks ReleaseBuffer once              |                     -> OBS output
                                         |
 LoadLibrary <------- injector process <-+--- inject_hook
```

The two sides share no memory but the maps, and no synchronisation but named
kernel objects whose names hold the process id (the maps' names do not).

| component | state | operations | what makes it correct |
|---|---|---|---|
| **audio transport** (`wasapi_capturer.cpp` 38-143, `wasapi-hook.c` 289-365, capture thread of `wasapi-capture.c` 495-621) | hook: `active`, `map_id`, `_mutex`, `available_audio_size` and the bytes behind it; kernel: `audio_data_mutex` with its owner, `audio_data_event`; source: `capturing`, the view, the thread's locals | `capture_check`, `out_audio_data`, `capture_init_shmem`, `capture_free`, `start_capture`, `capture_thread_proc`, `stop_capture` | one thread in the map at a time; every packet whole, once, in order; no wake-up lost; no access to an unmapped view; a stop ends; the audio thread of the other program is never kept |
| **hook session** (`wasapi-capture.c` 631-1163, `inject-helper.c`, `wasapi-hook.c` 48-230, `wasapi-hook.h`) | source: selected process, `process_id`, `next_process_id`, `wait_for_target_startup`, `error_acquiring`, `active`, ten handles, the injector; process: how far the DLL is, `hook_info.offset`, four events | `update`, `tick`, `try_hook`, `setup_process`, `init_hook` and its steps, `inject_hook`, `DllMain`, `main_capture_thread`, `capture_should_stop`, `capture_should_init` | an active source has all its handles, of the process it says it captures; no handle is overwritten; no half-loaded DLL is talked to; the hook has the offsets when it is placed; a hook nobody keeps alive lets go; a source gets to its process |
| **circular buffer** (`circlebuf.h`) | data, size, start, end, capacity | push, place, upsize, reserve, peek, pop, data | behaves as a sequence; writes within its memory |
| **mixer** (`wasapi-capture.c` 30-475) | `buffered_timestamps`, `total_buffering_ticks`, `buffering_wait_ticks`, the list of channels, the clock of the mix thread | `fetch_audio`, `find_min_ts`, `mark_invalid_sources`, `add_audio_buffering`, `mix_audio`, `discard_audio`, `mix_thread_proc` | OBS gets tick after tick; a sample is heard once, in order, in the tick of its time stamp; buffering keeps its accounts and its limit; what one client does never disturbs another |
| **audio channel** (`audio-channel.c`) | `audio_ts`, `timing_adjust`, `next_audio_sys_ts_min`, one circular buffer per plane | `audio_channel_output_audio`, `pick_audio_data`, `discard_audio`, `discard_if_stopped` | a packet ends up at the frame of its time stamp; corrections of time stamps are taken back; the buffer stays below its limit |
| **offset loading** (`plugin-main.c`) | the offsets of both architectures, the thread that measures them and its handle, `initialized` | `obs_module_load`, `init_hooks`, `load_offset`, `wait_for_hook_initialization`, `obs_module_unload` | no process is given half-written offsets; the module is not unloaded under its thread; every call returns |
| **process list and properties** (`windows-helpers.cpp`, properties of `wasapi-capture.c`) | the items of the list, the setting `exe:id` | `get_captured_process`, the property callbacks, the search of `try_hook` | the source captures the program chosen, and the process chosen while it runs |
| get-wasapi-offsets, app helpers, wave format, capture proxies | none that outlives a call | see [What is not modelled](#what-is-not-modelled) | |

## What is hard in it

`PROJECT.json` lists the hazards with the line at which each bites. They fall
into seven groups.

- **Two programs, no common lock.** Rendering threads, the tick, `update`, the
  capture thread, the DLL's thread and the injector interleave; the only
  atomic steps are kernel calls. Objects are created one by one on one side
  and opened one by one, in another order, on the other.
- **Events that outlive their occasion.** All events are auto-reset and named:
  a `ready`, `stop` or `restart` that nobody consumed in one session is found
  by the next.
- **Deaths.** Either side may die between any two steps, holding the shared
  mutex, in the middle of a packet, with the keepalive mutex open.
- **Clocks.** A packet bears the time at which it was rendered and arrives
  later, earlier than expected, or after a pause; the mix thread runs on a clock
  of its own, and both change the same channel.
- **Time-outs.** The renderer waits 0 ms and the capture thread 10 ms for the
  same mutex, and 100 ms for an event it consumes before it has the mutex; the
  hook looks at the keepalive mutex every five seconds.
- **Failure in the middle.** `init_hook` has eight steps and fails at any.
- **Edges.** Full and empty circular buffers, the last packet that fits in a
  map, unsigned differences of time stamps, 45 ticks of buffering.

## Modules, and what they stand for

| module | models | |
|---|---|---|
| `AudioStream` | the abstract specification of one map: packets 1, 2, 3, ... are published and received in that order | |
| `AudioShmem` | audio transport | implements `AudioStream` |
| `HookSession` | hook session | |
| `Deque` | the abstract specification of a circular buffer: a sequence | |
| `CircleBuf` | `circlebuf.h` | implements `Deque` |
| `AudioChannel` | audio channel: operators from a channel to a channel | |
| `TickStream` | the abstract specification of the mix thread's ticks: begun one after the other, each given to OBS once, in that order | |
| `Mixer` | mixer, the capture thread as it fills the channels, a process that renders, time | extends `AudioChannel`, implements `TickStream` |
| `PluginInit` | offset loading, and what becomes of the offsets | |
| `ProcessList` | process list and properties | |
| `AudioShmemProofs`, `HookSessionProofs`, `CircleBufProofs`, `AudioChannelProofs`, `MixerProofs`, `PluginInitProofs`, `ProcessListProofs` | theorems about the module of that name | see [Proofs](#proofs) |
| `MixerSteadyProofs` | theorems about `Mixer`: when sounds are heard | extends `MixerProofs` |
| `MCAudioShmem`, `MCHookSession`, `MCCircleBuf`, `MCMixer`, `MCPluginInit`, `MCProcessList` | constants for TLC | |

The modules meet where the code's parts do. `AudioShmem` shows that packets come
whole and in order (`AudioStream`), which `Mixer` takes for its input;
`CircleBuf` shows that a buffer is a sequence (`Deque`), which `AudioChannel` takes
for its `buf`; `ProcessList` shows which process a try finds, with which
`HookSession` goes on (`Selected`); `PluginInit` shows that the offsets given to a
process are whole, which `HookSession` takes for granted.

In each module a definition that begins with the comment "Mutant" is a
plausible bug of the definition that follows it; it is used nowhere but to see
that a property notices it (`PROJECT.json`, `mutants`). `map` in the same file
gives the source lines of every definition that models code.

### AudioShmem

A renderer is in one of the states of `pc`: outside the hook (`render`), before
`out_audio_data` (`out`), and then one state for each piece of `out_audio_data`
between two calls that others can see: the wait for the mutex (`try`), the
memcpys (`write`), the addition to `available_audio_size` (`commit`),
`ReleaseMutex` (`release`), `SetEvent` (`signal`). `lk` is
`WASCaptureData::_mutex`, which `capture_check` and `out_audio_data` take one
after the other, not together. `capture_check` as a whole is one action,
`CaptureCheck`: it runs under `_mutex`, and what it reads from the source
(`stop`, the keepalive mutex, `restart`) `HookSession` takes apart.

The capture thread is in one of the states of `cpc`: at `while (capturing)`
(`top`), in the wait for the event (`wait`), in the wait for the mutex
(`lock`), walking the packets (`read`). `ReadPacket` is one round of the inner
loop: the hook must not see a half-walked map, and the map must not change
under the walk. `LockAbandoned` is the third outcome of the wait, which the code
takes for a failure: the thread owns the mutex and does not know (`leaked`).

The tick is `Attach` (`init_hook` as far as `attempt_existing_hook`),
`AttachDone` (`init_events`, which drains `stop`), `StartCapture`, `StopBegin`,
`StopJoin` (the wait for the thread is over: `stop` is signalled, the view is
closed) and `StopClose`. `TargetDies` and `SourceDies` end a process between any
two steps; the kernel gives up its mutexes and handles.

Data: a packet is its process, its number within the map and its size; it
stands at the offset where its header begins, and writing a packet erases every
header its bytes cover. So an offset at which the capture thread would take
data for a header is one where `mem` is `Empty`. `sent`, `got` and `heard` are
history variables.

Bounds: `MaxMaps` (a hook that has created that many does not initialise again),
`MaxPackets` (a map that has held that many is as good as full), `MaxCrashes`.

### HookSession

The state of a source is where its thread is (`phase`) and the fields of
`struct wasapi_capture`; the state of a process is how many of the DLL's
objects exist (`dll`, in the order of `Created`), where the DLL's thread is
(`thread`) and where a renderer is in `capture_check` (`check`). A handle holds
the process whose object it opened: handles keep a named object in being after
its process died (`Named`).

`TickStop`, `TickHelper`, `TickReady`, `TryHook` or `TickTarget` are the tick
in its order; `OpenTarget`, `ExistingHook` or `Inject`, `OpenMutex`, `OpenInfo`,
`OpenEvents`, `SignalInit` are `init_hook` in its order, and where one of them
fails `try_hook` calls `stop_capture` (`StopSignal`, `StopClose`). OBS runs the
ticks of its sources in turn from one thread (`InTick`); `Update` comes from
another.

Left out or taken for granted:

- `update` comes between two ticks of its own source (whether libobs can
  overlap the two is not decided in this repository);
- the retry interval: a try may come in any tick, which allows more, not less;
- `wasapi_capture_destroy`, which is the `stop_capture` of an `update` to no
  process;
- OBS itself as the process to capture, and a process whose opening Windows
  refuses;
- how a try chooses between processes, beyond that it takes one of the program
  selected: `ProcessList`;
- `DllMain` failing half-way, which the model has as an injector that fails;
  `init_events` opening some of its events and failing at a later one (all it
  opened is closed by the same `stop_capture`);
- the reopening of `hook_ready` in the tick (1116), which needs an active
  source without that handle: `SessionHandles` shows there is none;
- the reuse of process ids: `ProcessList`;
- how the offsets become known: `PluginInit`.

The events of a process that died stay set while a source has them open.
`MapsFail` is a fault bound: whether a process may fail to create a map, or the
source to open it (`CheckInitFails`, `TickReadyFails`).

### CircleBuf

An operator per function of the header, from a buffer to a buffer, with the
branch structure of the C code; the actions call them with every input up to
`MaxPush` bytes. Memory is a function on `0..capacity-1`: a write outside makes
that domain larger (so `TypeOK` fails), a read outside gives `Junk`.
`Contents` is the refinement mapping. `Spec` has the calls as the plugin makes
them: to the front it pushes only after a push to the back
(`wasapi-capture.c` 313, then 144). `OpenSpec` has them as the header offers
them.

### AudioChannel and Mixer

A channel is a record with the fields of `struct audio_channel` that time stamps
depend on, and `AudioChannel` has one operator for each function of
`audio-channel.c` (`Stamped` is the first half of
`audio_channel_output_audio_internal`, up to where the packet goes). One
sequence stands for the buffers of all planes. A sample is a number, the time at
which it is to be heard, so that the samples of a client are all different and a
property can say which were mixed, when, and which never were; 0 is silence.

`Mixer` has two threads in steps and time. The capture thread is in `cpc`: waits
(`wait`), has looked up or created the channel (`output`), has reset it and
still holds its mutex (`place`). The mix thread is in `mpc`: asleep, or in one of
the loops of `wasapi_capture_fetch_audio`: `pick`, `find`, `mark`, `refind`
(`find_min_ts` and `mark_invalid_sources`), `buffer`, `mix`, `discard`. `pick` and
`mix` take a step for each channel, as the mutex of a channel is free between
two. The loops under `channel_mutex` take one step: under that mutex no packet
can be looked up, so at most one, looked up before, is put out meanwhile, and
into one channel. `find_min_ts` and `mark_invalid_sources` do not take the
mutex of a channel, and so are not held up by `place`.

A client releases packets (`Release`, only while both threads rest: nothing but
`Receive` reads what it writes, so a release in the middle of a step can be had
before or after it). `Pass` is time. What the hooked process and the system may
be like is a *scenario*, chosen in `Init` and constant: which clients play,
which of them without a pause (`steady`), whether they may be silent, how long a
packet is on its way (`soon` to `late`), how far behind the mix thread may fall
(`lag`), how often the source is started, how long the model runs. Properties
that only hold of a well-behaved client say so by the scenario's fields, not by
guards.

`TickStream` is what remains of the mixer when one looks only at its ticks. `taken`
are the ticks begun and not yet given to OBS: the queue without the first `wait` of
it, which `add_audio_buffering` put there to gain time and which go to nobody.
`FetchAudio` is `Take`, a `Discard` that waits for nothing is `Give`, `Start` is
`Begin`; that `Buffer`, and a `Discard` of a tick that was put there, change
nothing of it is what one has to show.

Units. A unit of time is half a tick, about 10.7 ms (1024 frames at 48 kHz are a
tick of 21.3 ms). The constants keep the order that the code's have: a tick (2
units), `TS_SMOOTHING_THRESHOLD` of 70 ms (3), the delay of 100 ms (4),
`MAX_BUFFERING_TICKS` ticks (4 or 6), `MAX_TS_VAR` of 2 s (5 or 8),
`MAX_BUF_SIZE` of 21 s (10). Only the order matters to the
branches; the distances are shortened so that every limit is reached. Tolerances
of one nanosecond, and the rounding that they are there for, lie below the
resolution; `MixerSubFrame.cfg` has two units to a frame, to show what happens
below one. Samples are not resampled (libobs does that), and floating-point
mixing is a set.

### PluginInit

`Archs` is 64 and 32 bit, and `Own` that of OBS. `init_hooks` is measuring an
architecture (`loader`), and writes its offsets field by field: they are `zero`,
in `part` written, or `known`. A thread in `wait_for_hook_initialization` takes
a step for each access to the two static variables: the test of `initialized`,
the test of the handle, the wait, the close, the clearing, the setting.
`hooksThread` tells a handle from a closed one, so that a wait for a closed handle
is what it is in the code, a call that returns at once. `info` and `hook` follow
the offsets into the `hook_info` of a process and to its hook, which is placed
once; the DLL outlives OBS, which the model launches `MaxLaunches` times.

### ProcessList

Processes start and end; the properties show a list, which gets old; the user
chooses from it; and a try looks for the id and then for the program. The order
in which Windows enumerates is any order: where the code takes the first of
several, the model takes any one. `Limit` is the array of 1024 ids that
`EnumProcesses` fills, `Hidden` are the programs that `get_pid_exe` has no
name for, `Reuse` whether an id is used again.

## Runs

| run | instance | properties | states |
|---|---|---|---|
| `audio_shmem` | 1 process, 2 renderers, 1 source; packets of 1 or 2 in a map of 3; 2 maps, 2 packets each, 1 crash of OBS | `TypeOK` `RegionExclusive` `NoUseAfterUnmap` `NoSecondStart` `WholePackets` `NoLostWakeup` `LeakNeedsCrash` `IInv`, and `StreamSpec`, that it implements `AudioStream` | 665 k |
| `audio_shmem_live` | the same with packets of 1 in a map of 2; 1 map | `RenderReturns` `StopEnds` `Delivery` | 19 k |
| `audio_shmem_shared` | 2 processes, a renderer and a source each | `OnlySelectedProcess`: violated | |
| `audio_shmem_rehook` | 1 process that keeps rendering, no crash | `ExistingHookStarts`: violated | |
| `hook_session` | 1 source with 2 processes of one program, and 2 sources on 1 process; 1 update | `TypeOK` `SessionHandles` `IdsAgree` `NamesComplete` `OffsetsBeforeHook` | 2.0 M |
| `hook_session_live` | 1 source, 1 process, 2 updates, 2 deaths of OBS | `HookReleases` `Attaches` | 95 k |
| `hook_session_stale` | 1 source, 2 processes of two programs, 1 update | `SelectedOnly`: violated | |
| `circle_buf` | bytes 0 and 1, 2 per call, up to 4 | `TypeOK` `Geometry`, and `IsDeque`, that it implements `Deque` | 30 k |
| `mixer` | five scenarios: a guest beside a steady client; late packets; packets so late that time stamps jump; a second session with a mix thread that is late; a second session that meets ticks the first kept waiting | `TypeOK` `Buffering` `Undisturbed` `BehindIsBuffered` `NoDrift` `NotAhead` `InOrder` `OutputsInOrder` `HeardOnce`, and `StreamSpec`, that it implements `TickStream` | 3.5 M |
| `mixer_cut_off` | 1 steady client, 2 sessions up to a full buffer apart | `NotCutOff`: violated | |
| `plugin_init` | 2 threads, 2 architectures with a process each, 2 launches of OBS | `TypeOK` `NoTornOffsets` `UnloadedIdle` `CallsReturn` | 20 k |
| `process_list` | 4 ids, 3 programs of which one has no name, an array of 3, 4 processes, 2 choices | `TypeOK` `SelectedProgram` `KeepsSelected` | 72 k |

Why the bounds are enough to meet the hard cases:

- `audio_shmem`: two renderers are what it takes to have one between its check
  and its write while the other stops and restarts the hook. Sizes 1 and 2 in a
  map of 3 give every way for a packet to fit, to just fit and not to fit, and
  for a new packet to lie across two old headers. Two maps are a stop and a
  restart; two packets are one that is read while the next arrives. A crash of
  OBS puts an abandoned mutex in front of the next session; the process may die
  at any time besides. Beyond these bounds the proofs take over.
- `audio_shmem_live`: one map, because liveness within a map does not depend on
  earlier ones; the crash stays, as it is what leaves mutexes behind.
- `hook_session`: with two processes of one program, the second try may go to
  another process than the first; an update in between is what could leave an id
  of the wrong process. Two sources on one process inject, signal and drain the
  same objects. The two cases are one run: `Narrow` keeps it to states in which
  at most one source was given something to capture, or at most one process ever
  started. Deaths of OBS start a source from the same state as at the beginning
  and are left to the live run. Symmetry is over processes and sources, which
  the constants do not tell apart; the run has no liveness property.
- `circle_buf`: with up to 4 bytes and 2 per call, the capacity takes every
  value from 0 to 4 and 6 (by reserve, by exact growth and by doubling), with
  contents that wrap around the end of each, and each call splits its bytes
  there in every way that 1 or 2 of them can be split.
- `mixer`: each scenario is there for a hazard. *Guest*: a second client comes and
  goes, which makes the mixer buffer and stall, beside one that must not notice.
  *Late*: packets up to 3 units late (a tick and a half) run the channel short
  while the tick is at work. *Later*: 4 or 5 units, about `MAX_TS_VAR`, so that
  some time stamps are taken as they are and some corrected; `soon` leaves out
  the short ones, which `Late` has. *Behind*: a second session meets the channels
  and the buffering of the first, and ticks are taken up late. *Left*: a client
  that pauses makes the first session buffer, and the second one begins with a
  queue that is not empty. The end of each (10 to 13 units, 5 or 6 ticks) leaves time for both buffered ticks, a stall of
  two and a recovery. Two ticks of buffering are one that is added at once and
  one more, up to the limit.
- `mixer_cut_off` needs the longest behaviour: a session, a pause beyond a full
  buffer, and more than a full buffer of packets after it.
- `plugin_init`: two threads are what it takes for one to close the handle that
  the other waits for; the second launch meets a process that the first gave
  offsets, or none.
- `process_list`: three ids fit and the fourth does not; a process chosen, one of
  the same program that takes its place, and one of another program.

A run with a bound on time ends: `Mixer!TheEnd` and `PluginInit!TheEnd` are steps
that change nothing, so that a deadlock before that is an error. In the
`audio_shmem` runs deadlock is not checked: the process may die and OBS
may have died as often as it does, and then nothing moves. That nobody waits on
anybody for ever is what `RenderReturns` and `StopEnds` say. In the other runs
deadlock is checked.

What the properties say, and for which hazard, is in a comment above each one
and in `PROJECT.json`.

## Fairness

`AudioShmem!Fairness`. Threads that are in the code of the plugin go on: a
renderer inside the hook, the capture thread, a `stop_capture` once begun. It is
strong for the two locks, a critical section and a kernel mutex, which are
handed to those who wait for them. And the wait of 10 ms for the shared mutex
does not time out for ever: a renderer holds it for a memcpy. Nothing is assumed
of the application (it may stop rendering) nor of the user. `Rendering` adds an
application that keeps calling `ReleaseBuffer`, a tick that goes on and a
system in which a map can be had; only `ExistingHookStarts` is checked under it,
and fails all the same.

`HookSession!Fairness`. The DLL's thread and an application that renders go on,
and the tick comes: OBS calls it with every frame. Strong fairness of
`CheckStop(p, TRUE)` says that five seconds pass again and again, strong
fairness of `TryHook` that the retry interval does. Finally, the injector does
not fail for ever: it would have to fail between a tick's look at it and the
next try, again and again, as a failure that the tick sees stops the tries
(`error_acquiring`), which `Attaches` counts as an answer. `TurnsSpec` adds that OBS
calls the ticks of its sources in turn, which only the counterexample
`HookSessionSecond.cfg` and its counterpart need.

`PluginInit!Fairness`. The threads of OBS and of the DLL go on, and
`get-wasapi-offsets` ends: `load_offset` reads its pipe without a time-out, and
nothing in the code would end it.

`Mixer` has no fairness and no liveness property: its time is bounded, and what
must happen in time is said as safety (`OutputsInOrder`, `NoDrift`, `NotCutOff`).
`ProcessList` has no operation that must happen.

## Where code and words disagree

Each of these runs ends in a counterexample, against a sentence of the code or
of the repository's README that `PROJECT.json` quotes (`findings`).

| run | what happens |
|---|---|
| `audio_shmem_shared` | The maps are named `CaptureHook_Audio<n>` by a counter of each hook (`wasapi-hook.c` 292). The n-th maps of two hooked processes are one object, each side guards it by a mutex of its own process, and a source receives packets of the other process. |
| `audio_shmem_rehook` | `stop_capture` signals `stop`; the next session's `init_events` (932) drains it before the hook has seen it. The hook is still active, so it never consumes the `restart`, never signals `ready`, and the source stays active without a capture. |
| `hook_session_stale` | A `next_process_id` left over from a try that failed in `init_hook` is used by a later try that did not find the newly selected process (1057): the source captures the process that was selected before. |
| `mixer_cut_off` | A channel outlives `stop_capture` with its old `audio_ts` (313). In a session that begins more than a full buffer later, the first packet is beyond the buffer and dropped, the next are pushed back behind the old `audio_ts`, and at the limit of the buffering each tick throws away what came: the client is not heard again. |

Further counterexamples are kept as configurations beside the regular runs, each
for `tlc -config X.cfg <module>`:

| configuration, module | violated | what happens |
|---|---|---|
| `HookSessionStartup.cfg`, `MCHookSession` | `WaitsForStartup` | By the same left-over id the try that does not find the process goes on and fails, and `stop_capture` resets the `wait_for_target_startup` just set (616): the process is injected as soon as it appears (comment at 1024). |
| `HookSessionSecond.cfg`, `MCHookSession` | `HookedSourceCaptures` | Two sources select one process. The hook starts once and signals `ready` once, for one of them; the `restart` of the other is not consumed while the hook is active, and that source waits for ever (comment at 785). `HookSessionStarts.cfg` checks the same property for one source: it holds. |
| `CircleBufFront.cfg`, `MCCircleBuf` | `IsDeque` | `circlebuf_push_front` into an empty buffer leaves `end_pos` at 0 (183); if it fills the memory, the next `circlebuf_push_back` writes over it. The plugin never makes this call. |
| `MixerPause.cfg`, `MCMixer` | `NoBuffering` | A client pauses. Its `audio_ts` stays behind for the tick or two until its channel is taken for stalled (212), so the mixer adds a tick of buffering, which is never given back. |
| `MixerRestart.cfg`, `MCMixer` | `NoBuffering` | The channels of the last session are still in the list, far in the past (568): the first ticks of the next session add buffering for them, up to all 45 ticks. |
| `MixerResume.cfg`, `MCMixer` | `KeepsDelay` | After a reset `next_audio_sys_ts_min` holds the extra delay (`audio-channel.c` 51), so the packet after a pause is compared with a time 100 ms too late, and the second one can be pushed behind the first and be heard early. |
| `MixerJitter.cfg`, `MCMixer` | `NotLost` | A packet comes between `pick_audio_data`, which found too little, and `discard_audio`, which pops what is there now (294): it is thrown away unmixed. |
| `MixerOnset.cfg`, `MCMixer` | `NotLost` | `mix_audio` tests `audio_output_buf[0][0]`, the first sample, where it means whether there is a buffer (357): a block that begins with a zero is not mixed. |
| `MixerLeft.cfg`, `MCMixer` | `NoneLeft` | `stop_capture` leaves `buffered_timestamps` as it is. The first ticks that the next session gives to OBS are those the last one kept waiting, with times from before the pause; the session's own come as much later. (The stream does not go back all the same: `OutputsInOrder`, `StreamSpec`.) |
| `MixerTwice.cfg`, `MCMixer` | `HeardOnce` | Packets are 2 units late, less than the delay of 3, but more than `InTime` allows ([Proofs](#no-sample-twice)). They run a channel short, each time its `audio_ts` moves on and its contents do not (289). The next packet after a short pause is placed by its time stamp, which is now near the front of the buffer, and cuts off what is behind (`audio-channel.c` 88) between `mix_audio` and `discard_audio`: too little is left to discard, it is kept, and a sample that was mixed is mixed again in the next tick. |
| `MixerSubFrame.cfg`, `MCMixer` | `BehindIsBufferedExactly` | A channel is less than a frame behind the tick: `add_audio_buffering` finds 0 ticks to add (147) and returns without writing the end of the tick. |
| `PluginInitUseless.cfg`, `MCPluginInit` | `HookedInTheEnd` | The offsets of one architecture are missing (`plugin-main.c` 106). The hook claims success with zeros (`wasapi_capturer.cpp` 147), so the DLL never tries again, not even when a later OBS brings the offsets (`wasapi-hook.c` 209). |
| `ProcessListReuse.cfg`, `MCProcessList` | `SelectedProgram` | The id of the selected process now belongs to another program, which is captured: an id that matches is not compared by name (`windows-helpers.cpp` 73). |
| `ProcessListLimit.cfg`, `MCProcessList` | `KeepsSelectedAlways` | With more processes than the array holds, the selected one may be beyond it and another of its program within (65). |

## Proofs

Eight modules of proofs, all for any values of the constants that the named
assumptions allow, none with fairness. Where a theorem states a property of a
run, the run shows it on a small instance and the theorem for every instance.

| module | theorems | assumptions |
|---|---|---|
| `AudioShmemProofs` | `Invariance` `TypeCorrect` `Exclusion` `Mapped` `OneCaptureThread` `Whole` `WokenUp` `NoQuietLeak` `Implements` | `ConstantsAssumption`, `SingleTarget` |
| `HookSessionProofs` | `Invariance` `TypeCorrect` `Handed` `OneId` `Complete` `OffsetsFirst` | `ConstantsAssumption` |
| `CircleBufProofs` | `Invariance` `TypeCorrect` `Shape` `Implements` | `ConstantsAssumption` |
| `MixerProofs`, with the lemmas of `AudioChannelProofs` | `Invariance` `TypeCorrect` `Accounts` `BackToBehind` `Clocked` `PlayedInOrder` `OneStream` `Implements` `NeverTwice` | `ChannelAssumption`, `MixerAssumption`; of `NeverTwice` also `InTime` |
| `MixerSteadyProofs` | `SteadyUndisturbed` `SmallDrift` `EndsWhole` `SmallDriftOfFrames` | `ChannelAssumption`, `MixerAssumption`, and `Usual`, or `Punctual`, or `Frame = 1` |
| `PluginInitProofs` | `Invariance` `TypeCorrect` `OffsetsWhole` `UnloadWaits` | `PluginAssumption` |
| `ProcessListProofs` | `Invariance` `TypeCorrect` `ProgramKept` `ProcessKept` | `ListAssumption`, `NoneAssumption`, and `~Reuse` |

The assumptions are types of the constants and are evaluated by TLC in every
run, but for the following. `SingleTarget`: at most one process is hooked; with two the
properties are false, as `audio_shmem_shared` shows. `~Reuse`, a hypothesis of the
theorems: no process id is used again; with reuse they are false, as
`ProcessListReuse.cfg` shows. `Usual`, a hypothesis of `SteadyUndisturbed`: see
[there](#a-client-in-time). `InTime` and `Punctual`, hypotheses of `NeverTwice` and
`SmallDrift`, say how late packets may be: see [there](#no-sample-twice) and
[there](#delays-do-not-add-up).

### AudioShmem

`tlapm AudioShmemProofs.tla` checks nine theorems, for any number of rendering
threads, any packet sizes, any size of the map and any bounds:

| theorem | property |
|---|---|
| `Invariance` | `IInv`, the inductive invariant |
| `TypeCorrect` | `TypeOK`: among others, `available_audio_size` never wraps |
| `Exclusion` | `RegionExclusive` |
| `Mapped` | `NoUseAfterUnmap` |
| `OneCaptureThread` | `NoSecondStart` |
| `Whole` | `WholePackets` |
| `WokenUp` | `NoLostWakeup` |
| `NoQuietLeak` | `LeakNeedsCrash` |
| `Implements` | `Spec => StreamSpec`: each map is a stream, nothing lost, doubled or reordered |

**The invariant.** None of the properties is inductive alone; `IInv` is their
common strengthening, and each of its parts is there because another needs it:

- `HookInv` and `MutexInv`, who is inside which lock. A renderer in the map owns
  `audio_data_mutex`; the capture thread reading, or having leaked it, owns it.
  From them follow `RegionExclusive` and `LeakNeedsCrash`.
- `SessionInv`, what a session knows of the hook: a capture thread runs on the
  current map of an active hook, without a `ready` or a `stop` pending. This is
  what keeps `StartCapture` from running twice and `CheckInit` from changing
  maps under a reader (`NoSecondStart`, `NoUseAfterUnmap`). It holds because
  `stop` is signalled after the join and drained by the next `init_events`.
- `MapInv`, what lies in the map: while the thread walks, `available_audio_size`
  is what it has still to walk; between the memcpys and the publication, a
  whole packet lies behind the published ones; and an abandoned mutex with a
  reader to come means an empty map.
- `WholePackets`: from the reader's offset to its size, or from 0 to
  `available_audio_size`, lie exactly the packets published and not yet
  received, without a gap (`Tiled`). With it, `ReadPacket` receives the next
  number, which is the step `Get` of `AudioStream`.
- `WakeupInv`, `NoLostWakeup` for a thread that runs or is about to be started.

**The argument.** `PacketFacts`, `TiledExtend` (a packet behind the last),
`TiledAdvance` (past the first) and `TiledKept` (a write elsewhere) are facts
about layouts, by arithmetic over offsets. `InitAlone` and `RendererAlone` say
that an initialisation, and a renderer in the map, have it to themselves;
`WriteFacts`, `CommitFacts`, `ReadFacts` and `MapKept` apply the layout facts to
the actions that touch maps. Then each of `TypeStep`, `HookStep`, `MutexStep`,
`SessionStep`, `MapStep`, `PacketStep` and `WakeupStep` shows that every step
preserves one part of `IInv`, action by action; `Inductive` collects them and
the theorems follow.

### HookSession

`IInv` says what holds between two calls of a tick, while the process creates
its objects, dies, or is worked at by other sources:

- `SessionInv`: what each `phase` has opened so far, and that all of it is of
  `process_id`; an active source has all handles (`SessionHandles`, and, with
  `IdInv`, `IdsAgree`).
- `IdInv`: `next_process_id`, when there is one, is `process_id`, the process found
  last. Neither a failed try nor a stop clears it (see `hook_session_stale`), so
  this must be known of ids left over, too.
- `ObjectInv`: a handle that is open stands for an object that the DLL has
  created in this life of the process. As it creates the audio event last and
  `init_hook` opens that event before the map and the other events, a session
  that goes on has a complete DLL (`NamesComplete`).
- `OffsetInv`: an `init` event that is signalled, by any source, was preceded by
  the offsets of that process (`OffsetsBeforeHook`).

`Inductive` takes the tick, the DLL, the renderers, `update`, the injector, and the
deaths, one lemma each. The hardest steps are those of other actors: an object
is created, or a process dies, between two openings of a source.

### CircleBuf

`IInv` is that the buffer is well formed (`WF`): `TypeOK` and `Geometry` in terms of a
buffer rather than of the variable, so that every function of the header gets a
lemma of the form: a well-formed buffer is made a well-formed one, and the byte
at index i (`At`) is this. `WriteAroundFacts`, `WriteFrontFacts` and
`ReadAroundFacts` are about memory that is written and read around its end;
`ReallocFacts` says that the move in `circlebuf_reorder_data` leaves every byte at
its index, whether the size already counts the bytes to come or not, which is
how `ensure_capacity` is called; `WindowFacts` is the arithmetic of
`circlebuf_place`. From the bytes the `...Bytes` lemmas get the contents as a
sequence, and the `...Step` lemmas the steps of `Deque`. `PushedFrontFacts` needs a
buffer that is not empty: this is where `CircleBufFront.cfg` would go wrong.

### AudioChannel and Mixer

For any number of clients and sessions, any sizes of packets, blocks and buffers,
any thresholds in the order of the code's, and any lateness:

| theorem | property |
|---|---|
| `Invariance` | `IInv`, the inductive invariant |
| `TypeCorrect` | `TypeOK`: among others, `MAX_BUF_SIZE` and the limit of buffering hold, and no unsigned time of a channel wraps |
| `Accounts` | `Buffering` |
| `BackToBehind` | `BehindIsBuffered` |
| `Clocked` | `NotAhead` |
| `PlayedInOrder` | `InOrder` |
| `OneStream` | `OutputsInOrder` |
| `Implements` | `Spec => StreamSpec`: the mixer implements `TickStream` |

**The invariant.** Each part speaks of few variables, so that a step has to be
looked at only for the parts whose variables it changes (the `...Stays` lemmas):

- `HookInv` and `TravelInv`: the packets on their way. They are in the order of
  their time stamps, those of one client do not overlap, and none is later than
  the scenario allows, the one in the hands of the capture thread included.
- `ChannelInv`: the types and limits of a channel, and `NotAhead`. This needs a
  bound on `timing_adjust`: it is at most the lateness of a packet, as it is
  only ever set to how late one was (`StampedFacts`).
- `ResetInv`: between a reset and the packet that follows it, the channel begins
  exactly at that packet. The mutex of the channel is held from one to the other
  (`AudioBufHeld`), which keeps `Pick`, `Mix` and `Discard` out; without it the
  packet would be placed before the beginning of the buffer.
- `RoundInv`: how far a loop over the channels is, and that each channel passed
  has a full block picked or is pending (`Ready`); `Mix` reads the first sample of
  the block.
- `AccountInv`: `Buffering` holds only of the tick in front, and that is not
  inductive, for the next `Discard` puts another one in front. All ticks that
  wait are in line up to `bufferedTs`. `Discard` of a tick that does not wait
  leaves `wait` at 0, and the next addition starts the line anew from the tick at
  work.
- `LineInv`: lastOut, the ticks begun and not given, and the clock of the mix
  thread follow one another, by one tick, or, after the first session, by at
  least none; and what a session leaves began before the clock at which the next
  one starts.
- `SoundInv`: the buffer of a client is in order and before the packet in hand,
  before all packets on their way and before all to be released. A packet may be
  put behind the contents, over them, or over a part of them with the rest cut
  off (`PushedBackFacts`, `LaidFacts`): in each case what is left comes before it.
  `HeardInv` says so of what was mixed in a tick (`MixedFacts`).

**The argument.** `AudioChannelProofs` has a lemma for each operator of a channel:
what becomes of the buffer, its order and its limit, and of the times. In
`MixerProofs` each action has one lemma, `...Step`. Most work are `BufferStep`,
where `AddFacts` shows that the times of the ticks put in front continue those of
the ticks already waiting, with arithmetic over products and a quotient rounded up
(`BehindFacts`), and `OutputAudioStep`. `Inductive` collects them. `StreamStep`
then takes each action to a step of `TickStream`: `TakenStays` says that ticks put
before those that wait, or taken from them, leave `Taken` alone.

Before it was proved, TLC checked `IInv` on the instance of the run.

### No sample twice

`NeverTwice`, in `MixerProofs`, states `HeardOnce` for any number of clients and
sessions, any sizes and any lateness of the mix thread, under

    InTime(s) == s.late + (Smooth - 1) + Tick + (Frame - 1) <= Delay + PacketTime

A packet may be late by what the delay leaves when a tick, the smoothing of its time
stamp and a rounding are taken from it. In the code, with packets of 10 ms, that is
about 18.6 ms. The hypothesis is there for `OutputAudioOnce`, where a packet is
placed while a tick is between `mix_audio` and `discard_audio`: it must not come before
where the tick ends. `MixerTwice.cfg` shows what happens when it does, with packets
later than that and not later than the delay. In the instance of the run the guest
scenario and both with two sessions are `InTime`; the two late ones are not, and
there TLC alone shows that no sample is heard twice.

**The invariant** is `IInv` and `OnceInv`. `HeardOnce` compares what is mixed now with
what was mixed before, so that one must know what of the buffer was mixed:

- `PastInv`: all that was heard or is picked was played before any packet on its way.
- `EmptyInv`: a buffer that was reset for the packet in hand is still empty.
- `BufInv`: nothing in a buffer was heard (`NewBehind(c, 0)`), or the tick at work has
  mixed it, and then what was heard is in front of what this tick will discard
  (`Used`).
- `OutInv`: what a channel has picked and not mixed yet has not been heard, and is
  still in front of its buffer, or the buffer was reset since and all in it is newer
  (`Kept`).

There is one lemma per action, `...Once`, and `OnceInductive` collects them.

### A client in time

This and the next are in `MixerSteadyProofs`.

`SteadyUndisturbed` states `Undisturbed`: in a session whose packets come at once,
a client that plays without a pause loses nothing, and each of its samples that
is heard is heard exactly the delay after its time stamp. Any number of other
clients may come, go, fall behind and make the mixer add ticks, and the mix
thread may be late.

The hypothesis `Usual` speaks of the constants only. The code's values satisfy
it, and so do those of `Mixer.cfg`:

- `Frame = 1`: times are counted in frames (with a finer clock the sub-frame case
  of `MixerSubFrame.cfg` comes in);
- `Block + Block <= Delay`: `DELAY` is at least two ticks (100 ms, and a tick of 1024
  frames is 23 ms at 44.1 kHz);
- `Packet + Delay + lag + MaxTicks * Tick <= MaxBuf`: a channel holds all that may
  wait when the buffering is at its limit, with a mix thread `lag` late (the code
  has room for 1000 blocks, and adds at most 45 ticks: it allows a lag of 20 s);
- `~quiet`: the first packet is not silence, for the code does not mix a block
  that begins with a zero, as `MixerOnset.cfg` shows.

**The invariant** is `IInv` and, in such a session, `CalmInv`:

- `OnlyInv`, `PacketInv`, `BeginInv`: what is special about the session: it is the only
  one, its packets are not silent and their channels are listed, and no channel
  begins before the delay has passed.
- `GridInv`: the ticks that wait and those to be mixed are in one line that ends at
  the clock of the mix thread (`audioTime`); so all that happens to a channel is
  said relative to `Floor`, where the first tick to be mixed begins. A tick that is
  put in front of others lies before `Floor`, and `Floor` moves only when a tick is
  discarded that was mixed.
- `SteadyInv`: nothing has been played of a steady client (`Fresh`), or its channel
  begins at `Floor` or later, has each sample in its place and reaches exactly to
  the delay after what it has rendered (`Sounding`). `PartInv` follows it through
  the rounds of one tick: where the client is part of the tick it is in the list
  of those to be mixed, the block picked is what is in front of its buffer
  (`PickedInv`), and before it is discarded it was mixed (`MixedInv`).

**The argument.** `EnoughFacts`: while a tick is worked on, the channel of a steady
client that has a part in it holds more than a block, as it reaches the delay past
the clock. So `Pick` never leaves it pending and `Mark` never finds it short.
`AddCalm`: the ticks that another
client's lateness adds come before all of it. `LeftFacts`: a tick before `Floor`
leaves the channel as it is when discarded, and the one at `Floor` takes the part
that `MixCalm` showed to be heard. There is one lemma per action, `...Calm`, and
`CalmStep` collects them.

TLC checked `CalmInv` before it was proved, on an instance with two clients, one or
both of them steady, packets of three frames, a tick of three, a delay of six and a
mix thread late by two.

### Delays do not add up

`SmallDrift` states `NoDrift`. When a channel runs short, `discard_audio` moves its
`audio_ts` to the end of the tick (289) and leaves its contents, which are then heard
up to a tick later. A second time moves them again. `NoDrift` says how far this can go:
a sample is heard no later than its packet was late and a tick for each packet that
the block in which it begins may lack (`Drift`). With blocks of 1024 frames and
packets of 480 that is three ticks, 64 ms, besides the lateness; in the run, where two
packets make a block, it is one.

The hypotheses:

- `Punctual`, of the scenario: one session, packets late by no more than the delay
  without two ticks (57 ms in the code) and by less than `TS_SMOOTHING_THRESHOLD` (70
  ms). Any number of clients come and go as they like, and the mix thread may be
  late by any time. In the instance of the run that is the guest scenario; the others
  are later, or have two sessions, and of them TLC alone says so.
- `[]EndsWritten`: the tick that is mixed and discarded ends a block after it begins.
  It does not when a channel is behind by less than a frame (`MixerSubFrame.cfg`). Where
  times are counted in frames it always does: `EndsWhole` proves it from `Frame = 1`, with
  `WholeInv`, that all ticks that wait are whole and the one at work is the first
  of them. `SmallDriftOfFrames` puts the two together.

**The invariant** is `IInv` and `LateInv`:

- `SoleInv`, `RowInv`: the one session, and its ticks in one line up to `audioTime`.
- `ArriveInv`: a channel ends where its last packet can have ended, and no packet on
  its way is earlier than that, so that none is placed amid what is there.
- `DriftInv`: each sample of a channel is due when its packet was (`Timely`), or the channel
  begins where a tick does and each of its samples that is late was put off, in a way
  that is paid for (`Delayed`, `PutOff`).
- `PickInv` carries this over from `Pick` to `Mix`, between which a packet may come.

**The argument** is a count. Between two moves of a time stamp a packet must have come
in, or the channel is taken for stalled and cleared; so a sample that was put off `n`
times has at least `n - 1` packets behind it (`PutOff(ch, k, late, r, s)`: `r` packets came
since, and `s` is 1 if none did after the last move). A channel with a block or more
does not run short. So `k + (n - 1) * Packet < Block`, which is the bound. What could spoil
the count is a packet that is placed in the buffer and cuts off those that paid:
`StampedTime` shows that one that follows the last is pushed behind it, and one that
does not is placed, by `BehindCounts`, behind all there is or a block or more from
where the channel begins. There is one lemma per action, `...Late`, and `LateStep`
collects them.

TLC checked `LateInv` before it was proved, on six instances with one client, blocks
of 2 and 3 frames, packets of 1 and 2, and frames of one and two units.

### PluginInit

`LoaderInv` is the fact everything rests on: while `init_hooks` runs, its handle is
open, `initialized` is not set, there are no sources, and no thread is past the
wait. It is preserved although the threads test, close and clear the handle
without a lock, because nobody can close it before all could go on. `WaitInv` and
`ModuleInv` say what a thread past the wait knows, and that an unload is alone.

### ProcessList

A try that finds a process by its id must know that no other program has had
that id. `Denotes(item)` says so of an item: its id was used, and whatever process
has it runs its program. `IInv` claims it of every item of the list
(`ItemsDenote`) and of the selection (`SelectionDenotes`); without reuse it stays
true whatever starts and ends.

### Only model-checked

Liveness (temporal reasoning under fairness is out of reach of the installed
provers); what needs two hooked processes in `AudioShmem`; and of `Mixer` what its
theorems leave to the run: `HeardOnce` and `NoDrift` of packets later than `InTime` and
`Punctual` allow, and `NoDrift` of a second session, which begins with channels that the
first one left and with its time stamps. They are not true of any lateness, and where
exactly they cease to be depends on all thresholds at once; the run checks some
points between.

The `violation` runs and the further counterexamples are about what is
false, and need no proof.

## What is not modelled

- *get-wasapi-offsets*: a sequential program that finds offsets in
  `AudioSes.dll` by calling COM; whether they are right is decided by the
  machine code of that DLL. `PluginInit` has what it prints: offsets, zeros,
  nothing.
- *Access to app containers* (`app-helpers.c`, `nt-stuff.h`): wrappers of system
  calls; the objects they open behave as those `HookSession` has.
- *Wave format*: four numbers that travel with a packet unread.
- *Capture proxies*: not in `src/wasapi-hook/CMakeLists.txt`, so not part of
  the program.
- *Update during a tick of the same source*: whether libobs can overlap the two is
  not decided in this repository, so that neither answer would be a
  translation of it.
- *Handles refused one by one, the retry interval, OBS itself as the process*: see
  [HookSession](#hooksession).
- *The resampler and its delay, the mixing of floating-point samples, planes*: of
  a packet `Mixer` keeps the time stamps and which samples are where.
- The detour itself, COM and libobs are external.

## Plan

What is left, in the order of its worth.

1. Composition of `HookSession` and `AudioShmem`: `HookSession` implements the
   sessions of `AudioShmem` (`Attach` .. `StopClose`, `CaptureCheck`) under a
   refinement mapping, so that what is proved of one carries over.
2. An abstract specification of what is heard: a stream in which every sample is
   heard once, in its tick, or dropped for one of the stated reasons, for clients
   in time.
