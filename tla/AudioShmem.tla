----------------------------- MODULE AudioShmem -----------------------------
(***************************************************************************)
(* The path of the audio packets: from the ReleaseBuffer calls of a hooked *)
(* process (wasapi-hook/wasapi_capturer.cpp), through the shared-memory    *)
(* map the hook created (wasapi-hook/wasapi-hook.c), to the capture thread *)
(* of an OBS source (wasapi-capture.c).                                    *)
(*                                                                         *)
(* Three kinds of threads take steps:                                      *)
(*  - the renderers, threads of a hooked process that play audio; they run *)
(*    the hook in each ReleaseBuffer call, under WASCaptureData::_mutex;   *)
(*  - the tick of the source attached to a process (Attach .. StopClose);  *)
(*  - the capture thread the tick creates, named like its target.          *)
(* A process and OBS may die between any two steps.                        *)
(*                                                                         *)
(* The hook is already loaded in every target; HookSession models how it   *)
(* gets there and how sessions follow one another.  Here one call of       *)
(* capture_check is one step; HookSession takes it apart.                  *)
(***************************************************************************)
EXTENDS Integers, FiniteSets

CONSTANTS
  Targets,       \* hooked processes; the source of a target and its capture thread bear its name
  Renderers,     \* the rendering threads of those processes
  ProcessOf,     \* the process of each rendering thread
  NoThread,      \* a lock nobody holds
  Sizes,         \* the packet sizes (36 bytes of header and the frames)
  BufferSize,    \* shmem_data.buffer_size
  MaxMaps,       \* bound: maps one hook creates
  MaxPackets,    \* bound: packets published in one map; later ones are dropped as if it were full
  MaxCrashes     \* bound: OBS crashes per target

ASSUME ConstantsAssumption ==
  /\ ProcessOf \in [Renderers -> Targets]
  /\ Renderers \cap Targets = {}
  /\ NoThread \notin Renderers \cup Targets
  /\ Sizes \subseteq Nat \ {0}
  /\ BufferSize \in Nat \ {0}
  /\ MaxMaps \in Nat /\ MaxPackets \in Nat /\ MaxCrashes \in Nat

VARIABLES
  (* the hooked process *)
  alive,         \* alive[t]: process t runs
  active,        \* active[t]: the hook's `active', a map is published
  mapId,         \* mapId[t]: hook_info.map_id, which numbers the maps of one hook
  lk,            \* lk[t]: the thread inside WASCaptureData::_mutex
  pc,            \* pc[r]: where renderer r is in the hooked ReleaseBuffer
  pend,          \* pend[r]: size of the packet r is writing
  (* named kernel objects, one of each per process *)
  restart,       \* event CaptureHook_Restart
  stop,          \* event CaptureHook_Stop
  ready,         \* event CaptureHook_HookReady
  keepalive,     \* the mutex CaptureHook_KeepAlive exists
  dataEvent,     \* event CaptureHook_Audio_Data_Event
  owner,         \* owner of the mutex CaptureHook_Audio_Data_Mutex
  abandoned,     \* its last owner died holding it
  (* the maps CaptureHook_Audio<id>; the name does not hold the process id *)
  avail,         \* avail[id]: shmem_data.available_audio_size
  mem,           \* mem[id]: the packet that starts at each offset, if any
  (* the source in OBS *)
  sess,          \* sess[t]: how far the tick is in attaching and stopping
  capturing,     \* wc->capturing
  cpc,           \* cpc[t]: where the capture thread is
  view,          \* view[t]: the map wc->data maps, 0 when none
  offset, size,  \* locals of the capture thread: offset and audio_size
  leaked,        \* the capture thread owns the mutex and does not know
  crashes,       \* times OBS died
  (* history *)
  sent, got,     \* per map: packets published, number of the last packet received
  heard          \* heard[t]: processes whose packets the source of t has received

hookVars == <<alive, active, mapId, lk, pc, pend>>
eventVars == <<restart, stop, ready, keepalive, dataEvent>>
mutexVars == <<owner, abandoned>>
mapVars == <<avail, mem>>
sourceVars == <<sess, capturing, cpc, view, offset, size, leaked, crashes>>
history == <<sent, got, heard>>
vars == <<hookVars, eventVars, mutexVars, mapVars, sourceVars, history>>

Maps == 1..MaxMaps
Offsets == 0..(BufferSize - 1)

\* A packet as the capture thread can tell it: whose, which of its map, how long.
Packets == [from : Targets, n : 1..MaxPackets, size : Sizes]
Empty == [n |-> 0]             \* no packet starts at this offset
NoPackets == [o \in Offsets |-> Empty]

RendererStates == {"render", "out", "try", "write", "commit", "release", "signal", "dead"}
InHook == {"try", "write", "commit", "release", "signal"}   \* inside out_audio_data, lk held
InRegion == {"write", "commit", "release"}                  \* audio_data_mutex held
SessionStates == {"idle", "attaching", "active", "joining", "closing"}
CaptureStates == {"off", "top", "wait", "lock", "read"}
-----------------------------------------------------------------------------
\* A process whose hook has just been initialised: init_hook of the DLL signalled restart.
Init ==
  /\ alive     = [t \in Targets |-> TRUE]
  /\ active    = [t \in Targets |-> FALSE]
  /\ mapId     = [t \in Targets |-> 0]
  /\ lk        = [t \in Targets |-> NoThread]
  /\ pc        = [r \in Renderers |-> "render"]
  /\ pend      = [r \in Renderers |-> 0]
  /\ restart   = [t \in Targets |-> TRUE]
  /\ stop      = [t \in Targets |-> FALSE]
  /\ ready     = [t \in Targets |-> FALSE]
  /\ keepalive = [t \in Targets |-> FALSE]
  /\ dataEvent = [t \in Targets |-> FALSE]
  /\ owner     = [t \in Targets |-> NoThread]
  /\ abandoned = [t \in Targets |-> FALSE]
  /\ avail     = [id \in Maps |-> 0]
  /\ mem       = [id \in Maps |-> NoPackets]
  /\ sess      = [t \in Targets |-> "idle"]
  /\ capturing = [t \in Targets |-> FALSE]
  /\ cpc       = [t \in Targets |-> "off"]
  /\ view      = [t \in Targets |-> 0]
  /\ offset    = [t \in Targets |-> 0]
  /\ size      = [t \in Targets |-> 0]
  /\ leaked    = [t \in Targets |-> FALSE]
  /\ crashes   = [t \in Targets |-> 0]
  /\ sent      = [id \in Maps |-> 0]
  /\ got       = [id \in Maps |-> 0]
  /\ heard     = [t \in Targets |-> {}]
-----------------------------------------------------------------------------
(***************************************************************************)
(* The hook.  hookAudioRenderClientReleaseBuffer calls capture_check, then *)
(* out_audio_data; each takes _mutex by itself.                            *)
(***************************************************************************)

\* capture_should_stop.  The stop event is consumed whenever the hook is
\* active; the keepalive mutex is looked at every five seconds only, so an
\* active hook may still not notice that it is gone (CheckActive).
ShouldStop(t) == active[t] /\ (stop[t] \/ ~keepalive[t])

\* capture_should_init, after the capture_free of a stop, if any: that one
\* signals restart, so a stop and an initialisation can share one call.
ShouldInit(t) == (ShouldStop(t) \/ (~active[t] /\ restart[t])) /\ keepalive[t]

\* An active hook that does not stop.
CheckActive(t) ==
  /\ active[t] /\ ~stop[t]
  /\ UNCHANGED <<active, mapId, restart, ready, avail>>

\* capture_free if need be, and nothing to initialise: restart is consumed.
CheckIdle(t) ==
  /\ ShouldStop(t) \/ ~active[t]
  /\ ~ShouldInit(t)
  /\ active' = [active EXCEPT ![t] = FALSE]
  /\ restart' = [restart EXCEPT ![t] = FALSE]
  /\ UNCHANGED <<mapId, ready, avail>>

\* capture_init_shmem: a new, empty map, which the source is told of.
CheckInit(t) ==
  /\ ShouldInit(t) /\ mapId[t] < MaxMaps
  /\ active' = [active EXCEPT ![t] = TRUE]
  /\ restart' = [restart EXCEPT ![t] = FALSE]
  /\ mapId' = [mapId EXCEPT ![t] = @ + 1]
  /\ avail' = [avail EXCEPT ![mapId[t] + 1] = 0]
  /\ ready' = [ready EXCEPT ![t] = TRUE]

\* capture_init_shmem fails: capture_free signals restart, for the next call.
\* (The number it took for the map is not used again; maps are numbered here
\* without those.)
CheckInitFails(t) ==
  /\ ShouldInit(t)
  /\ active' = [active EXCEPT ![t] = FALSE]
  /\ restart' = [restart EXCEPT ![t] = TRUE]
  /\ UNCHANGED <<mapId, ready, avail>>

\* capture_check.  Then out_audio_data is called, which returns at once when
\* there are no frames.
CaptureCheck(r) ==
  LET t == ProcessOf[r] IN
  /\ pc[r] = "render" /\ lk[t] = NoThread
  /\ \E next \in {"out", "render"} : pc' = [pc EXCEPT ![r] = next]
  /\ stop' = [stop EXCEPT ![t] = IF active[t] THEN FALSE ELSE @]
  /\ CheckActive(t) \/ CheckIdle(t) \/ CheckInit(t) \/ CheckInitFails(t)
  /\ UNCHANGED <<alive, lk, pend, keepalive, dataEvent, mutexVars, mem, sourceVars, history>>

\* out_audio_data takes _mutex and returns if no map is active.
OutInactive(r) ==
  LET t == ProcessOf[r] IN
  /\ pc[r] = "out" /\ lk[t] = NoThread
  /\ ~active[t]
  /\ pc' = [pc EXCEPT ![r] = "render"]
  /\ UNCHANGED <<alive, active, mapId, lk, pend, eventVars, mutexVars, mapVars, sourceVars, history>>

\* out_audio_data with a packet of k bytes, as far as the wait for audio_data_mutex.
OutAudioData(r, k) ==
  LET t == ProcessOf[r] IN
  /\ pc[r] = "out" /\ lk[t] = NoThread
  /\ active[t]
  /\ lk' = [lk EXCEPT ![t] = r]
  /\ pend' = [pend EXCEPT ![r] = k]
  /\ pc' = [pc EXCEPT ![r] = "try"]
  /\ UNCHANGED <<alive, active, mapId, eventVars, mutexVars, mapVars, sourceVars, history>>

\* WaitForSingleObject(audio_data_mutex, 0): WAIT_OBJECT_0 or WAIT_ABANDONED.
TryMutex(r) ==
  LET t == ProcessOf[r] IN
  /\ pc[r] = "try"
  /\ owner[t] = NoThread
  /\ owner' = [owner EXCEPT ![t] = r]
  /\ abandoned' = [abandoned EXCEPT ![t] = FALSE]
  /\ pc' = [pc EXCEPT ![r] = "write"]
  /\ UNCHANGED <<alive, active, mapId, lk, pend, eventVars, mapVars, sourceVars, history>>

\* Mutant of Drop: the early return does not release _mutex.
DropLocked(r) ==
  LET t == ProcessOf[r] IN
  /\ pc[r] = "try"
  /\ owner[t] # NoThread
  /\ pend' = [pend EXCEPT ![r] = 0]
  /\ pc' = [pc EXCEPT ![r] = "render"]
  /\ UNCHANGED <<alive, active, mapId, lk, eventVars, mutexVars, mapVars, sourceVars, history>>

\* The same wait, timed out: the packet is dropped.
Drop(r) ==
  LET t == ProcessOf[r] IN
  /\ pc[r] = "try"
  /\ owner[t] # NoThread
  /\ lk' = [lk EXCEPT ![t] = NoThread]
  /\ pend' = [pend EXCEPT ![r] = 0]
  /\ pc' = [pc EXCEPT ![r] = "render"]
  /\ UNCHANGED <<alive, active, mapId, eventVars, mutexVars, mapVars, sourceVars, history>>

\* Mutant of Fits: room for one byte too many.
FitsOffByOne(id, k) == avail[id] + k <= BufferSize + 1 /\ sent[id] < MaxPackets

Fits(id, k) == avail[id] + k <= BufferSize /\ sent[id] < MaxPackets

\* The memcpys of a packet that fits, over whatever was there; one that does not is dropped.
WriteData(r) ==
  LET t == ProcessOf[r]
      id == mapId[t]
      at == avail[id]
      packet == [from |-> t, n |-> sent[id] + 1, size |-> pend[r]]
  IN
  /\ pc[r] = "write"
  /\ IF Fits(id, pend[r])
     THEN /\ mem' = [mem EXCEPT ![id] =
                       [o \in Offsets |-> IF o = at THEN packet
                                          ELSE IF o > at /\ o < at + pend[r] THEN Empty
                                          ELSE @[o]]]
          /\ pc' = [pc EXCEPT ![r] = "commit"]
     ELSE /\ pc' = [pc EXCEPT ![r] = "release"]
          /\ UNCHANGED mem
  /\ UNCHANGED <<alive, active, mapId, lk, pend, eventVars, mutexVars, avail, sourceVars, history>>

\* available_audio_size += count: the packet is published.
Commit(r) ==
  LET id == mapId[ProcessOf[r]] IN
  /\ pc[r] = "commit"
  /\ avail' = [avail EXCEPT ![id] = @ + pend[r]]
  /\ sent' = [sent EXCEPT ![id] = @ + 1]
  /\ pc' = [pc EXCEPT ![r] = "release"]
  /\ UNCHANGED <<alive, active, mapId, lk, pend, eventVars, mutexVars, mem, sourceVars, got, heard>>

\* ReleaseMutex(audio_data_mutex)
Release(r) ==
  LET t == ProcessOf[r] IN
  /\ pc[r] = "release"
  /\ owner' = [owner EXCEPT ![t] = NoThread]
  /\ pc' = [pc EXCEPT ![r] = "signal"]
  /\ UNCHANGED <<alive, active, mapId, lk, pend, eventVars, abandoned, mapVars, sourceVars, history>>

\* Mutant of Signal: audio_data_event is not set.
SignalForgotten(r) ==
  LET t == ProcessOf[r] IN
  /\ pc[r] = "signal"
  /\ lk' = [lk EXCEPT ![t] = NoThread]
  /\ pend' = [pend EXCEPT ![r] = 0]
  /\ pc' = [pc EXCEPT ![r] = "render"]
  /\ UNCHANGED <<alive, active, mapId, eventVars, mutexVars, mapVars, sourceVars,
                 history>>

\* SetEvent(audio_data_event), and _mutex is released on return.
Signal(r) ==
  LET t == ProcessOf[r] IN
  /\ pc[r] = "signal"
  /\ dataEvent' = [dataEvent EXCEPT ![t] = TRUE]
  /\ lk' = [lk EXCEPT ![t] = NoThread]
  /\ pend' = [pend EXCEPT ![r] = 0]
  /\ pc' = [pc EXCEPT ![r] = "render"]
  /\ UNCHANGED <<alive, active, mapId, restart, stop, ready, keepalive,
                 mutexVars, mapVars, sourceVars, history>>
-----------------------------------------------------------------------------
(***************************************************************************)
(* The tick of the source.                                                 *)
(***************************************************************************)

\* init_hook: the keepalive mutex is created, then attempt_existing_hook
\* signals restart.  The target was found running.
Attach(t) ==
  /\ sess[t] = "idle" /\ alive[t]
  /\ keepalive' = [keepalive EXCEPT ![t] = TRUE]
  /\ restart' = [restart EXCEPT ![t] = TRUE]
  /\ sess' = [sess EXCEPT ![t] = "attaching"]
  /\ UNCHANGED <<hookVars, stop, ready, dataEvent, mutexVars, mapVars,
                 capturing, cpc, view, offset, size, leaked, crashes, history>>

\* Mutant of AttachDone: a stop left over from the last session is not drained.
AttachUndrained(t) ==
  /\ sess[t] = "attaching" /\ alive[t]
  /\ sess' = [sess EXCEPT ![t] = "active"]
  /\ UNCHANGED <<hookVars, eventVars, mutexVars, mapVars,
                 capturing, cpc, view, offset, size, leaked, crashes, history>>

\* init_events opens the stop event and drains it; the session is active.
AttachDone(t) ==
  /\ sess[t] = "attaching" /\ alive[t]
  /\ stop' = [stop EXCEPT ![t] = FALSE]
  /\ sess' = [sess EXCEPT ![t] = "active"]
  /\ UNCHANGED <<hookVars, restart, ready, keepalive, dataEvent, mutexVars, mapVars,
                 capturing, cpc, view, offset, size, leaked, crashes, history>>

\* The target died and with it the names init_hook opens: it fails.
AttachFail(t) ==
  /\ sess[t] = "attaching" /\ ~alive[t]
  /\ keepalive' = [keepalive EXCEPT ![t] = FALSE]
  /\ sess' = [sess EXCEPT ![t] = "idle"]
  /\ UNCHANGED <<hookVars, restart, stop, ready, dataEvent, mutexVars, mapVars,
                 capturing, cpc, view, offset, size, leaked, crashes, history>>

\* Map id exists: some hook holds it open, or another source maps it.
Exists(t, id) == \/ \E u \in Targets : active[u] /\ mapId[u] = id
                 \/ \E u \in Targets \ {t} : view[u] = id

\* The tick finds hook_ready signalled: init_capture_data replaces the view,
\* then start_capture creates the capture thread.  When the map is gone
\* (CAPTURE_RETRY) the event is consumed and the tick waits for the next.
\* Nothing here asks whether a capture thread already runs.
StartCapture(t) ==
  /\ sess[t] = "active" /\ ready[t]
  /\ ready' = [ready EXCEPT ![t] = FALSE]
  /\ IF Exists(t, mapId[t])
     THEN /\ view' = [view EXCEPT ![t] = mapId[t]]
          /\ capturing' = [capturing EXCEPT ![t] = TRUE]
          /\ cpc' = [cpc EXCEPT ![t] = "top"]
     ELSE /\ view' = [view EXCEPT ![t] = 0]
          /\ UNCHANGED <<capturing, cpc>>
  /\ UNCHANGED <<hookVars, restart, stop, keepalive, dataEvent, mutexVars, mapVars,
                 sess, offset, size, leaked, crashes, history>>

\* Mutant of StopBegin: the capture thread is not told to end.
StopUnmarked(t) ==
  /\ sess[t] = "active"
  /\ dataEvent' = [dataEvent EXCEPT ![t] = TRUE]
  /\ sess' = [sess EXCEPT ![t] = "joining"]
  /\ UNCHANGED <<hookVars, restart, stop, ready, keepalive, mutexVars, mapVars,
                 capturing, cpc, view, offset, size, leaked, crashes, history>>

\* stop_capture, for whatever reason (another process selected, the source
\* destroyed, the target exited), as far as the wait for the capture thread.
StopBegin(t) ==
  /\ sess[t] = "active"
  /\ capturing' = [capturing EXCEPT ![t] = FALSE]
  /\ dataEvent' = [dataEvent EXCEPT ![t] = TRUE]
  /\ sess' = [sess EXCEPT ![t] = "joining"]
  /\ UNCHANGED <<hookVars, restart, stop, ready, keepalive, mutexVars, mapVars,
                 cpc, view, offset, size, leaked, crashes, history>>

\* Mutant of StopJoin: the map is unmapped before the capture thread has ended.
StopUnjoined(t) ==
  /\ sess[t] = "joining"
  /\ stop' = [stop EXCEPT ![t] = TRUE]
  /\ view' = [view EXCEPT ![t] = 0]
  /\ sess' = [sess EXCEPT ![t] = "closing"]
  /\ UNCHANGED <<hookVars, restart, ready, keepalive, dataEvent, mutexVars, mapVars,
                 capturing, cpc, offset, size, leaked, crashes, history>>

\* The capture thread has ended: the hook is told to stop, the map is unmapped.
StopJoin(t) ==
  /\ sess[t] = "joining" /\ cpc[t] = "off"
  /\ stop' = [stop EXCEPT ![t] = TRUE]
  /\ view' = [view EXCEPT ![t] = 0]
  /\ sess' = [sess EXCEPT ![t] = "closing"]
  /\ UNCHANGED <<hookVars, restart, ready, keepalive, dataEvent, mutexVars, mapVars,
                 capturing, cpc, offset, size, leaked, crashes, history>>

\* The handles are closed, among them the keepalive mutex.
StopClose(t) ==
  /\ sess[t] = "closing"
  /\ keepalive' = [keepalive EXCEPT ![t] = FALSE]
  /\ sess' = [sess EXCEPT ![t] = "idle"]
  /\ UNCHANGED <<hookVars, restart, stop, ready, dataEvent, mutexVars, mapVars,
                 capturing, cpc, view, offset, size, leaked, crashes, history>>
-----------------------------------------------------------------------------
(***************************************************************************)
(* The capture thread, capture_thread_proc.                                *)
(***************************************************************************)

\* while (wc->capturing).  A thread that ends holding the mutex abandons it.
LoopTop(t) ==
  /\ cpc[t] = "top"
  /\ IF capturing[t]
     THEN /\ cpc' = [cpc EXCEPT ![t] = "wait"]
          /\ UNCHANGED <<mutexVars, leaked>>
     ELSE /\ cpc' = [cpc EXCEPT ![t] = "off"]
          /\ leaked' = [leaked EXCEPT ![t] = FALSE]
          /\ IF owner[t] = t
             THEN /\ owner' = [owner EXCEPT ![t] = NoThread]
                  /\ abandoned' = [abandoned EXCEPT ![t] = TRUE]
             ELSE UNCHANGED mutexVars
  /\ UNCHANGED <<hookVars, eventVars, mapVars, sess, capturing, view, offset, size,
                 crashes, history>>

\* The wait for audio_data_event succeeds, and consumes it; `capturing' is
\* read again (a break leaves the loop through LoopTop, with capturing false).
Wake(t) ==
  /\ cpc[t] = "wait" /\ dataEvent[t]
  /\ dataEvent' = [dataEvent EXCEPT ![t] = FALSE]
  /\ cpc' = [cpc EXCEPT ![t] = IF capturing[t] THEN "lock" ELSE "top"]
  /\ UNCHANGED <<hookVars, restart, stop, ready, keepalive, mutexVars, mapVars,
                 sess, capturing, view, offset, size, leaked, crashes, history>>

\* ... or times out after 100 ms.
WaitTimeout(t) ==
  /\ cpc[t] = "wait" /\ ~dataEvent[t]
  /\ cpc' = [cpc EXCEPT ![t] = "top"]
  /\ UNCHANGED <<hookVars, eventVars, mutexVars, mapVars, sess, capturing, view,
                 offset, size, leaked, crashes, history>>

\* Mutant of Lock: the result of the wait is not looked at.
LockUnchecked(t) ==
  /\ cpc[t] = "lock"
  /\ owner' = [owner EXCEPT ![t] = t]
  /\ size' = [size EXCEPT ![t] = avail[view[t]]]
  /\ offset' = [offset EXCEPT ![t] = 0]
  /\ cpc' = [cpc EXCEPT ![t] = "read"]
  /\ UNCHANGED <<hookVars, eventVars, abandoned, mapVars, sess, capturing, view,
                 leaked, crashes, history>>

\* The wait for audio_data_mutex returns WAIT_OBJECT_0 (at once, if the
\* thread already owns the mutex): audio_size is read.
Lock(t) ==
  /\ cpc[t] = "lock"
  /\ (owner[t] = NoThread /\ ~abandoned[t]) \/ owner[t] = t
  /\ owner' = [owner EXCEPT ![t] = t]
  /\ size' = [size EXCEPT ![t] = avail[view[t]]]
  /\ offset' = [offset EXCEPT ![t] = 0]
  /\ cpc' = [cpc EXCEPT ![t] = "read"]
  /\ UNCHANGED <<hookVars, eventVars, abandoned, mapVars, sess, capturing, view,
                 leaked, crashes, history>>

\* ... or WAIT_ABANDONED: the thread owns the mutex, the code takes it for a
\* failure and never releases it.
LockAbandoned(t) ==
  /\ cpc[t] = "lock"
  /\ owner[t] = NoThread /\ abandoned[t]
  /\ owner' = [owner EXCEPT ![t] = t]
  /\ abandoned' = [abandoned EXCEPT ![t] = FALSE]
  /\ leaked' = [leaked EXCEPT ![t] = TRUE]
  /\ cpc' = [cpc EXCEPT ![t] = "top"]
  /\ UNCHANGED <<hookVars, eventVars, mapVars, sess, capturing, view, offset, size,
                 crashes, history>>

\* ... or times out after 10 ms, another thread holding the mutex.
LockTimeout(t) ==
  /\ cpc[t] = "lock"
  /\ owner[t] \notin {NoThread, t}
  /\ cpc' = [cpc EXCEPT ![t] = "top"]
  /\ UNCHANGED <<hookVars, eventVars, mutexVars, mapVars, sess, capturing, view,
                 offset, size, leaked, crashes, history>>

\* Mutant of ReadPacket: available_audio_size is left as it was.
ReadKept(t) ==
  LET id == view[t]
      packet == mem[id][offset[t]]
  IN
  /\ cpc[t] = "read" /\ offset[t] < size[t]
  /\ packet # Empty
  /\ offset' = [offset EXCEPT ![t] = @ + packet.size]
  /\ got' = [got EXCEPT ![id] = packet.n]
  /\ heard' = [heard EXCEPT ![t] = @ \cup {packet.from}]
  /\ UNCHANGED <<hookVars, eventVars, mutexVars, mapVars, sess, capturing, cpc, view,
                 size, leaked, crashes, sent>>

\* One round of the inner loop: the packet at offset is output, offset moves
\* on by its size and available_audio_size goes down by it.  There is no
\* behaviour for an offset where no packet starts: WholePackets excludes it.
ReadPacket(t) ==
  LET id == view[t]
      packet == mem[id][offset[t]]
  IN
  /\ cpc[t] = "read" /\ offset[t] < size[t]
  /\ packet # Empty
  /\ offset' = [offset EXCEPT ![t] = @ + packet.size]
  /\ avail' = [avail EXCEPT ![id] = @ - packet.size]
  /\ got' = [got EXCEPT ![id] = packet.n]
  /\ heard' = [heard EXCEPT ![t] = @ \cup {packet.from}]
  /\ UNCHANGED <<hookVars, eventVars, mutexVars, mem, sess, capturing, cpc, view,
                 size, leaked, crashes, sent>>

\* Mutant of EndRead: a thread that is to end leaves without ReleaseMutex.
EndUnreleased(t) ==
  /\ cpc[t] = "read" /\ offset[t] >= size[t]
  /\ owner' = [owner EXCEPT ![t] = IF leaked[t] \/ ~capturing[t] THEN t ELSE NoThread]
  /\ cpc' = [cpc EXCEPT ![t] = "top"]
  /\ offset' = [offset EXCEPT ![t] = 0]
  /\ size' = [size EXCEPT ![t] = 0]
  /\ UNCHANGED <<hookVars, eventVars, abandoned, mapVars, sess, capturing, view,
                 leaked, crashes, history>>

\* The inner loop is done: ReleaseMutex, which undoes one of the two
\* acquisitions of a thread that leaked the mutex.
EndRead(t) ==
  /\ cpc[t] = "read" /\ offset[t] >= size[t]
  /\ owner' = [owner EXCEPT ![t] = IF leaked[t] THEN t ELSE NoThread]
  /\ cpc' = [cpc EXCEPT ![t] = "top"]
  /\ offset' = [offset EXCEPT ![t] = 0]
  /\ size' = [size EXCEPT ![t] = 0]
  /\ UNCHANGED <<hookVars, eventVars, abandoned, mapVars, sess, capturing, view,
                 leaked, crashes, history>>
-----------------------------------------------------------------------------
(***************************************************************************)
(* Crashes.  The kernel abandons the mutexes of a dead thread and destroys *)
(* a named object when its last handle is closed.                          *)
(***************************************************************************)

TargetDies(t) ==
  /\ alive[t]
  /\ alive' = [alive EXCEPT ![t] = FALSE]
  /\ active' = [active EXCEPT ![t] = FALSE]
  /\ lk' = [lk EXCEPT ![t] = NoThread]
  /\ pc' = [r \in Renderers |-> IF ProcessOf[r] = t THEN "dead" ELSE pc[r]]
  /\ pend' = [r \in Renderers |-> IF ProcessOf[r] = t THEN 0 ELSE pend[r]]
  /\ owner' = [owner EXCEPT ![t] = IF @ \in Renderers THEN NoThread ELSE @]
  /\ abandoned' = [abandoned EXCEPT ![t] = IF owner[t] \in Renderers THEN TRUE ELSE @]
  /\ UNCHANGED <<mapId, eventVars, mapVars, sourceVars, history>>

\* OBS dies, and is started again by the user.
SourceDies(t) ==
  /\ sess[t] # "idle" /\ crashes[t] < MaxCrashes
  /\ crashes' = [crashes EXCEPT ![t] = @ + 1]
  /\ sess' = [sess EXCEPT ![t] = "idle"]
  /\ capturing' = [capturing EXCEPT ![t] = FALSE]
  /\ cpc' = [cpc EXCEPT ![t] = "off"]
  /\ view' = [view EXCEPT ![t] = 0]
  /\ offset' = [offset EXCEPT ![t] = 0]
  /\ size' = [size EXCEPT ![t] = 0]
  /\ leaked' = [leaked EXCEPT ![t] = FALSE]
  /\ keepalive' = [keepalive EXCEPT ![t] = FALSE]
  /\ owner' = [owner EXCEPT ![t] = IF @ = t THEN NoThread ELSE @]
  /\ abandoned' = [abandoned EXCEPT ![t] = IF owner[t] = t THEN TRUE ELSE @]
  /\ UNCHANGED <<hookVars, restart, stop, ready, dataEvent, mapVars, history>>
-----------------------------------------------------------------------------
OutAudio(r) ==
  \/ OutInactive(r)
  \/ \E k \in Sizes : OutAudioData(r, k)
  \/ TryMutex(r) \/ Drop(r) \/ WriteData(r) \/ Commit(r) \/ Release(r) \/ Signal(r)

Renderer(r) == CaptureCheck(r) \/ OutAudio(r)

CaptureThread(t) ==
  \/ LoopTop(t) \/ Wake(t) \/ WaitTimeout(t)
  \/ Lock(t) \/ LockAbandoned(t) \/ LockTimeout(t)
  \/ ReadPacket(t) \/ EndRead(t)

StopCapture(t) == StopBegin(t) \/ StopJoin(t) \/ StopClose(t)

Tick(t) == Attach(t) \/ AttachDone(t) \/ AttachFail(t) \/ StartCapture(t) \/ StopCapture(t)

Next ==
  \/ \E r \in Renderers : Renderer(r)
  \/ \E t \in Targets : Tick(t) \/ CaptureThread(t) \/ TargetDies(t) \/ SourceDies(t)

Spec == Init /\ [][Next]_vars

(***************************************************************************)
(* Fairness.  Threads are scheduled: a renderer inside the hook goes on,   *)
(* the capture thread goes on, a stop_capture once begun goes on.  Whether *)
(* an application renders, and whether the user attaches or stops a        *)
(* source, is left open.  Locks are handed to those who wait for them: a   *)
(* thread at _mutex or at audio_data_mutex is not passed over forever.     *)
(* And as the capture thread waits 10 ms for audio_data_mutex, which a     *)
(* renderer holds for the time of a memcpy, the wait does not time out     *)
(* again and again for ever (a safety property holds whether it does or    *)
(* not).                                                                   *)
(***************************************************************************)
Fairness ==
  /\ \A r \in Renderers : SF_vars(OutAudio(r))
  /\ \A t \in Targets : /\ WF_vars(CaptureThread(t))
                        /\ SF_vars(Lock(t) \/ LockAbandoned(t))
                        /\ WF_vars(StopJoin(t) \/ StopClose(t))
                        /\ <>[][~LockTimeout(t)]_vars

FairSpec == Spec /\ Fairness

\* Fairness of an application that keeps rendering, in a system with enough
\* memory for its maps, and of the tick.
Rendering ==
  /\ \A r \in Renderers : SF_vars(CaptureCheck(r))
  /\ \A t \in Targets : /\ WF_vars(AttachDone(t) \/ AttachFail(t))
                        /\ WF_vars(StartCapture(t))
                        /\ <>[][~CheckInitFails(t)]_vars

RenderingSpec == FairSpec /\ Rendering
-----------------------------------------------------------------------------
(***************************************************************************)
(* Properties.                                                             *)
(***************************************************************************)

HookTypes ==
  /\ alive \in [Targets -> BOOLEAN]
  /\ active \in [Targets -> BOOLEAN]
  /\ mapId \in [Targets -> 0..MaxMaps]
  /\ lk \in [Targets -> Renderers \cup {NoThread}]
  /\ pc \in [Renderers -> RendererStates]
  /\ pend \in [Renderers -> Sizes \cup {0}]

EventTypes ==
  /\ restart \in [Targets -> BOOLEAN]
  /\ stop \in [Targets -> BOOLEAN]
  /\ ready \in [Targets -> BOOLEAN]
  /\ keepalive \in [Targets -> BOOLEAN]
  /\ dataEvent \in [Targets -> BOOLEAN]

MutexTypes ==
  /\ owner \in [Targets -> Renderers \cup Targets \cup {NoThread}]
  /\ abandoned \in [Targets -> BOOLEAN]

MapTypes ==
  /\ avail \in [Maps -> 0..BufferSize]
  /\ mem \in [Maps -> [Offsets -> Packets \cup {Empty}]]

SourceTypes ==
  /\ sess \in [Targets -> SessionStates]
  /\ capturing \in [Targets -> BOOLEAN]
  /\ cpc \in [Targets -> CaptureStates]
  /\ view \in [Targets -> 0..MaxMaps]
  /\ offset \in [Targets -> 0..BufferSize]
  /\ size \in [Targets -> 0..BufferSize]
  /\ leaked \in [Targets -> BOOLEAN]
  /\ crashes \in [Targets -> 0..MaxCrashes]

HistoryTypes ==
  /\ sent \in [Maps -> 0..MaxPackets]
  /\ got \in [Maps -> 0..MaxPackets]
  /\ heard \in [Targets -> SUBSET Targets]

\* Types.  available_audio_size never passes the buffer nor drops below
\* zero, so the unsigned arithmetic of both sides never wraps.
TypeOK == HookTypes /\ EventTypes /\ MutexTypes /\ MapTypes /\ SourceTypes /\ HistoryTypes

\* Only one thread is in the shared map at a time: the renderer that writes
\* or publishes a packet, or the capture thread that walks them.
RegionExclusive ==
  /\ \A r, q \in Renderers :
       ProcessOf[r] = ProcessOf[q] /\ pc[r] \in InRegion /\ pc[q] \in InRegion => r = q
  /\ \A r \in Renderers : pc[r] \in InRegion => cpc[ProcessOf[r]] # "read"

\* The capture thread never runs without a map, nor with another map than
\* the one the hook publishes in: stop_capture unmaps only after the join,
\* and the hook does not change maps under a running capture.
NoUseAfterUnmap ==
  \A t \in Targets : cpc[t] # "off" => view[t] # 0 /\ view[t] = mapId[t]

\* start_capture, which does not check, never runs while the thread of an
\* earlier start_capture does.
NoSecondStart ==
  \A t \in Targets : sess[t] = "active" /\ ready[t] => cpc[t] = "off" /\ ~capturing[t]

\* Packets p+1 .. last are laid out without a gap in lo..hi of a map's memory.
Tiled(m, lo, hi, p, last) ==
  /\ lo = hi => p = last
  /\ lo < hi => m[lo] # Empty /\ m[lo].n = p + 1
  /\ \A o \in Offsets :
       o >= lo /\ o < hi /\ m[o] # Empty =>
         /\ o + m[o].size <= hi
         /\ m[o].n <= last
         /\ o + m[o].size = hi => m[o].n = last
         /\ o + m[o].size < hi => /\ m[o + m[o].size] # Empty
                                  /\ m[o + m[o].size].n = m[o].n + 1

\* What the capture thread of t will find, or is walking through: exactly
\* the packets published and not yet received, each one whole, in order.
WholePackets ==
  \A t \in Targets :
    LET id == mapId[t] IN
    /\ cpc[t] = "read" => Tiled(mem[id], offset[t], size[t], got[id], sent[id])
    /\ cpc[t] # "read" /\ (ready[t] \/ cpc[t] # "off")
         => Tiled(mem[id], 0, avail[id], got[id], sent[id])

\* A renderer of t holds, or held, audio_data_mutex and has not yet set
\* audio_data_event.
WillSignal(t) ==
  \E r \in Renderers : ProcessOf[r] = t /\ pc[r] \in {"write", "commit", "release", "signal"}

\* A published packet is never left without a wake-up: while the capture
\* thread waits, audio_data_event is set or a renderer is about to set it,
\* in spite of the 10 ms the thread waits for the mutex after consuming it.
NoLostWakeup ==
  \A t \in Targets :
    cpc[t] \in {"top", "wait"} /\ avail[view[t]] > 0 /\ alive[t] /\ capturing[t]
      => dataEvent[t] \/ WillSignal(t)

\* While the process lives, the capture thread keeps the mutex it got as
\* WAIT_ABANDONED only if OBS crashed before: no ordinary stop, restart or
\* timeout silences a capture.
LeakNeedsCrash ==
  \A t \in Targets : leaked[t] /\ alive[t] => crashes[t] > 0

\* A source receives packets of the process it is attached to and of no
\* other ("Select process which you want to capture", README.md).
OnlySelectedProcess == \A t \in Targets : heard[t] \subseteq {t}

\* The packets of a map form a stream: received in order, once, without gaps.
Stream == INSTANCE AudioStream
StreamSpec == Stream!Spec

\* The hook never keeps a rendering thread: whatever the source and its
\* thread do, a ReleaseBuffer call returns to the application.
RenderReturns ==
  \A r \in Renderers : pc[r] # "render" ~> pc[r] \in {"render", "dead"}

\* stop_capture, which waits for the capture thread without a timeout, ends.
StopEnds == \A t \in Targets : sess[t] = "joining" ~> sess[t] = "idle"

\* A packet published while the source captures is received, unless the
\* capture is stopped or the process dies.
Delivery ==
  \A t \in Targets, id \in Maps, n \in 1..MaxPackets :
    capturing[t] /\ view[t] = id /\ sent[id] >= n
      ~> got[id] >= n \/ ~capturing[t] \/ ~alive[t]

\* A source that attaches to a hooked process which keeps rendering captures
\* from it ("if there's already a hook in the process, then signal and
\* start", wasapi-capture.c), as long as the hook has maps left.
ExistingHookStarts ==
  \A t \in Targets :
    sess[t] = "active" /\ mapId[t] < MaxMaps
      ~> capturing[t] \/ sess[t] # "active" \/ ~alive[t] \/ mapId[t] = MaxMaps
-----------------------------------------------------------------------------
(***************************************************************************)
(* The inductive invariant behind the safety properties, for a single      *)
(* hooked process: two processes share the maps whose numbers coincide.    *)
(***************************************************************************)
SingleTarget == \A a, b \in Targets : a = b

\* A renderer inside the hook: of a running process, under _mutex, with a map.
HookInv ==
  \A r \in Renderers :
    LET t == ProcessOf[r] IN
    /\ pc[r] # "dead" => alive[t]
    /\ pc[r] \in InHook => lk[t] = r /\ active[t]
    /\ pc[r] \in {"try", "write", "commit"} => pend[r] \in Sizes
    /\ pc[r] \in InRegion => owner[t] = r

\* Who holds audio_data_mutex, and what it takes to abandon or leak it.
MutexInv ==
  \A t \in Targets :
    /\ owner[t] \in Renderers => pc[owner[t]] \in InRegion /\ ProcessOf[owner[t]] = t
    /\ owner[t] \in Targets => owner[t] = t /\ (cpc[t] = "read" \/ leaked[t])
    /\ cpc[t] = "read" \/ leaked[t] => owner[t] = t /\ cpc[t] # "off"
    /\ abandoned[t] => owner[t] = NoThread
    /\ abandoned[t] \/ leaked[t] => ~alive[t] \/ crashes[t] > 0

\* What the state of a session says about the hook.
SessionInv ==
  \A t \in Targets :
    /\ active[t] => alive[t] /\ mapId[t] # 0
    /\ ready[t] => mapId[t] # 0
    /\ sess[t] # "idle" => keepalive[t]
    /\ sess[t] \in {"active", "joining"} => ~stop[t]
    /\ capturing[t] => sess[t] = "active" /\ cpc[t] # "off"
    /\ cpc[t] # "off" =>
         /\ sess[t] \in {"active", "joining"}
         /\ view[t] = mapId[t] /\ mapId[t] # 0
         /\ ~ready[t]
         /\ alive[t] => active[t]

\* The map the hook publishes in has, or will have, a reader.
Readable(t) == ready[t] \/ cpc[t] # "off"

\* What the maps hold.
MapInv ==
  \A t \in Targets :
    LET id == mapId[t] IN
    /\ \A i \in Maps : i > id => sent[i] = 0 /\ got[i] = 0
    /\ cpc[t] = "read" => avail[id] = size[t] - offset[t] /\ offset[t] <= size[t]
    /\ Readable(t) /\ abandoned[t] /\ alive[t] => avail[id] = 0
    /\ \A r \in Renderers :
         ProcessOf[r] = t /\ pc[r] = "commit" =>
           /\ avail[id] + pend[r] <= BufferSize
           /\ sent[id] < MaxPackets
           /\ mem[id][avail[id]] = [from |-> t, n |-> sent[id] + 1, size |-> pend[r]]
           /\ \A o \in Offsets :
                o > avail[id] /\ o < avail[id] + pend[r] => mem[id][o] = Empty

WakeupInv ==
  \A t \in Targets :
    LET waiting == ready[t] \/ (capturing[t] /\ cpc[t] \in {"top", "wait"}) IN
    waiting /\ avail[mapId[t]] > 0 /\ alive[t] => dataEvent[t] \/ WillSignal(t)

\* Inductive, and the conjunction of all safety properties: a session, its
\* two locks and its map agree at every step of the three kinds of threads.
IInv == TypeOK /\ HookInv /\ MutexInv /\ SessionInv /\ WholePackets /\ MapInv /\ WakeupInv
=============================================================================
