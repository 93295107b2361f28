----------------------------- MODULE HookSession -----------------------------
(***************************************************************************)
(* How a source gets a hook into the process it is to capture, and lets go *)
(* of it: the tick and the update of wasapi-capture.c, the injector it     *)
(* starts (inject-helper.c), the DLL that loads in the process and its     *)
(* thread (wasapi-hook.c), and capture_check, which starts and stops the   *)
(* capture (wasapi_capturer.cpp, wasapi-hook.h), taken apart.              *)
(*                                                                         *)
(* Source and hook only meet in named kernel objects, whose names hold the *)
(* id of the process.  The DLL creates them one by one; the source opens   *)
(* them one by one, in another order.  Every step below is a piece of code *)
(* between two of these calls.                                             *)
(*                                                                         *)
(* A process is one life of a program; ids are not used again.  The times  *)
(* between two tries (retry_interval) are left out: a try may come in any  *)
(* tick.  AudioShmem models what happens while the capture runs.           *)
(***************************************************************************)
EXTENDS Naturals, FiniteSets

CONSTANTS
  Sources,       \* the sources in OBS
  Procs,         \* the processes of the system that a source may be told to capture
  ExeOf,         \* the executable each of them runs
  None,          \* no process
  MaxUpdates,    \* bound: calls of update
  MaxCrashes,    \* bound: times OBS dies
  MapsFail       \* bound: whether a map may fail to be created or opened

ASSUME ConstantsAssumption ==
  None \notin Procs /\ MaxUpdates \in Nat /\ MaxCrashes \in Nat /\ MapsFail \in BOOLEAN

VARIABLES
  (* processes *)
  life,          \* life[p]: not started yet, running or dead
  loads,         \* processes in which an injector is about to load the DLL
  dll,           \* dll[p]: how many of its objects the DLL has created
  thread,        \* thread[p]: where the thread of the DLL is
  offsets,       \* offsets[p]: hook_info.offset is filled in
  hookActive,    \* hookActive[p]: the hook's `active'
  check,         \* check[p]: where a renderer is in capture_check
  signalled,     \* signalled[p]: the events of p that are set
  (* sources *)
  exe,           \* exe[s]: wc->executable, "name:id" of the selected process, or None
  processId, nextId,  \* wc->process_id, wc->next_process_id
  waitStartup,   \* wc->wait_for_target_startup
  error,         \* wc->error_acquiring
  active,        \* wc->active
  capturing,     \* wc->capturing
  handle,        \* handle[s][n]: the process whose object n the source has open
  helper,        \* helper[s]: the injector_process handle: how that process fares
  injected,      \* injected[s]: the process it works on
  phase, back,   \* where the tick or update of s is; where its stop_capture returns
  (* history *)
  found,         \* found[s]: whether the last try found the process, and the one before
  updates, crashes  \* how often update was called, and OBS died

processVars == <<life, loads, dll, thread, offsets, hookActive, check>>
idVars == <<exe, processId, nextId, waitStartup, error>>
helperVars == <<helper, injected>>
bounds == <<updates, crashes>>
vars == <<processVars, signalled, idVars, active, capturing, handle, helperVars,
          phase, back, found, bounds>>

\* The objects of the DLL in the order DllMain creates them.
Created == [restart |-> 1, stop |-> 2, ready |-> 3, exit |-> 4, init |-> 5,
            info |-> 6, mutex |-> 7, event |-> 8]
Objects == DOMAIN Created
Loaded == Created["event"]

Handles == Objects \cup {"target", "keepalive"}
NoHandles == [n \in Handles |-> None]

Events == {"restart", "stop", "ready", "init"}

Init ==
  /\ life        \in [Procs -> {"new", "running"}]
  /\ loads       = {}
  /\ dll         = [p \in Procs |-> 0]
  /\ thread      = [p \in Procs |-> "none"]
  /\ offsets     = [p \in Procs |-> FALSE]
  /\ hookActive  = [p \in Procs |-> FALSE]
  /\ check       = [p \in Procs |-> "out"]
  /\ signalled   = [p \in Procs |-> {}]
  /\ exe         \in [Sources -> Procs \cup {None}]
  /\ processId   = [s \in Sources |-> None]
  /\ nextId      = [s \in Sources |-> None]
  /\ waitStartup = [s \in Sources |-> FALSE]
  /\ error       = [s \in Sources |-> FALSE]
  /\ active      = [s \in Sources |-> FALSE]
  /\ capturing   = [s \in Sources |-> FALSE]
  /\ handle      = [s \in Sources |-> NoHandles]
  /\ helper      = [s \in Sources |-> "none"]
  /\ injected    = [s \in Sources |-> None]
  /\ phase       = [s \in Sources |-> "idle"]
  /\ back        = [s \in Sources |-> "idle"]
  /\ found       = [s \in Sources |-> "known"]
  /\ updates = 0 /\ crashes = 0

Running(p) == life[p] = "running"

\* An object of p can be opened by its name: the DLL has created it, or a
\* source keeps it in being although p died.
Named(p, n) == \/ Running(p) /\ Created[n] <= dll[p]
               \/ \E s \in Sources : handle[s][n] = p

\* capture_alive: a source holds the keepalive mutex of p.
CaptureAlive(p) == \E s \in Sources : handle[s]["keepalive"] = p

Set(p, e) == signalled' = [signalled EXCEPT ![p] = @ \cup {e}]
-----------------------------------------------------------------------------
(***************************************************************************)
(* The injector and the DLL.                                               *)
(***************************************************************************)

\* Mutant: one object too many.
DllMainOnce(p) ==
  /\ Running(p) /\ thread[p] = "none"
  /\ p \in loads
  /\ IF dll[p] <= Loaded
     THEN dll' = [dll EXCEPT ![p] = @ + 1] /\ UNCHANGED <<thread, loads>>
     ELSE /\ thread' = [thread EXCEPT ![p] = "start"]
          /\ loads' = loads \ {p}
          /\ UNCHANGED dll
  /\ UNCHANGED <<life, offsets, hookActive, check, signalled, idVars, active, capturing,
                 handle, helperVars, phase, back, found, bounds>>

\* LoadLibrary in the process, for the first time: DllMain creates the
\* objects one by one, then the thread.  (It has nothing to do in a process
\* where the DLL is already.)
DllMain(p) ==
  /\ Running(p) /\ thread[p] = "none"
  /\ p \in loads
  /\ IF dll[p] < Loaded
     THEN /\ dll' = [dll EXCEPT ![p] = @ + 1]
          /\ UNCHANGED <<thread, loads>>
     ELSE /\ thread' = [thread EXCEPT ![p] = "start"]
          /\ loads' = loads \ {p}
          /\ UNCHANGED dll
  /\ UNCHANGED <<life, offsets, hookActive, check, signalled, idVars, active, capturing,
                 handle, helperVars, phase, back, found, bounds>>

\* The helper exits with 0 when LoadLibrary returned, or the process died in it.
HelperLoads(s) ==
  LET p == injected[s] IN
  /\ helper[s] = "running" /\ (thread[p] # "none" \/ ~Running(p))
  /\ helper' = [helper EXCEPT ![s] = "ok"]
  /\ injected' = [injected EXCEPT ![s] = None]
  /\ UNCHANGED <<processVars, signalled, idVars, active, capturing, handle, phase, back,
                 found, bounds>>

\* It exits with an error when the process refused the DLL or died, and
\* nothing gets loaded; or when the wait for LoadLibrary timed out, and it is
\* loaded nonetheless.
HelperFails(s) ==
  LET p == injected[s] IN
  /\ helper[s] = "running"
  /\ helper' = [helper EXCEPT ![s] = "failed"]
  /\ injected' = [injected EXCEPT ![s] = None]
  /\ UNCHANGED loads \/ (dll[p] = 0 /\ loads' = loads \ {p})
  /\ UNCHANGED <<life, dll, thread, offsets, hookActive, check, signalled, idVars, active,
                 capturing, handle, phase, back, found, bounds>>

\* Mutant: restart is left to the source.
InitHookSilent(p) ==
  /\ Running(p) /\ thread[p] = "start"
  /\ thread' = [thread EXCEPT ![p] = "wait"]
  /\ UNCHANGED <<life, loads, dll, offsets, hookActive, check, signalled, idVars, active,
                 capturing, handle, helperVars, phase, back, found, bounds>>

\* main_capture_thread: init_hook signals restart, and capture_loop waits for
\* the source to signal init before it hooks.
InitHook(p) ==
  /\ Running(p) /\ thread[p] = "start"
  /\ thread' = [thread EXCEPT ![p] = "wait"]
  /\ Set(p, "restart")
  /\ UNCHANGED <<life, loads, dll, offsets, hookActive, check, idVars, active, capturing,
                 handle, helperVars, phase, back, found, bounds>>

CaptureLoop(p) ==
  /\ Running(p) /\ thread[p] = "wait" /\ "init" \in signalled[p]
  /\ thread' = [thread EXCEPT ![p] = "attempt"]
  /\ signalled' = [signalled EXCEPT ![p] = @ \ {"init"}]
  /\ UNCHANGED <<life, loads, dll, offsets, hookActive, check, idVars, active, capturing,
                 handle, helperVars, phase, back, found, bounds>>

\* hook_wasapi.  Without offsets it claims success, and nothing is ever hooked.
AttemptHook(p) ==
  /\ Running(p) /\ thread[p] = "attempt"
  /\ thread' = [thread EXCEPT ![p] = IF offsets[p] THEN "hooked" ELSE "useless"]
  /\ UNCHANGED <<life, loads, dll, offsets, hookActive, check, signalled, idVars, active,
                 capturing, handle, helperVars, phase, back, found, bounds>>
-----------------------------------------------------------------------------
(***************************************************************************)
(* capture_check, in a hooked ReleaseBuffer.  _mutex lets one renderer at  *)
(* a time in.                                                              *)
(***************************************************************************)

\* Mutant: the keepalive mutex is not looked at.
CheckStopDeaf(p, look) ==
  LET stopping == hookActive[p] /\ "stop" \in signalled[p] IN
  /\ Running(p) /\ thread[p] = "hooked" /\ check[p] = "out"
  /\ hookActive' = [hookActive EXCEPT ![p] = @ /\ ~stopping]
  /\ signalled' = [signalled EXCEPT ![p] = IF stopping THEN (@ \ {"stop"}) \cup {"restart"} ELSE @]
  /\ check' = [check EXCEPT ![p] = "init"]
  /\ UNCHANGED <<life, loads, dll, thread, offsets, idVars, active, capturing, handle,
                 helperVars, phase, back, found, bounds>>

\* capture_should_stop, and capture_free if it says so.  The keepalive mutex
\* is looked at in one call in five seconds.
CheckStop(p, look) ==
  /\ Running(p) /\ thread[p] = "hooked" /\ check[p] = "out"
  /\ IF hookActive[p]
     THEN LET stopping == "stop" \in signalled[p] \/ (look /\ ~CaptureAlive(p)) IN
          /\ hookActive' = [hookActive EXCEPT ![p] = ~stopping]
          /\ signalled' = [signalled EXCEPT ![p] =
                             (@ \ {"stop"}) \cup (IF stopping THEN {"restart"} ELSE {})]
     ELSE UNCHANGED <<hookActive, signalled>>
  /\ check' = [check EXCEPT ![p] = "init"]
  /\ UNCHANGED <<life, loads, dll, thread, offsets, idVars, active, capturing, handle,
                 helperVars, phase, back, found, bounds>>

\* capture_should_init: the restart event is consumed ...
CheckRestart(p) ==
  LET restarted == ~hookActive[p] /\ "restart" \in signalled[p] IN
  /\ Running(p) /\ check[p] = "init"
  /\ signalled' = [signalled EXCEPT ![p] = IF restarted THEN @ \ {"restart"} ELSE @]
  /\ check' = [check EXCEPT ![p] = IF restarted THEN "alive" ELSE "out"]
  /\ UNCHANGED <<life, loads, dll, thread, offsets, hookActive, idVars, active, capturing,
                 handle, helperVars, phase, back, found, bounds>>

\* ... and then, if the keepalive mutex exists, capture_init_shmem signals ready.
CheckInit(p) ==
  /\ Running(p) /\ check[p] = "alive"
  /\ check' = [check EXCEPT ![p] = "out"]
  /\ IF CaptureAlive(p)
     THEN Set(p, "ready") /\ hookActive' = [hookActive EXCEPT ![p] = TRUE]
     ELSE UNCHANGED <<signalled, hookActive>>
  /\ UNCHANGED <<life, loads, dll, thread, offsets, idVars, active, capturing, handle,
                 helperVars, phase, back, found, bounds>>

\* When it fails, capture_free signals restart.
CheckInitFails(p) ==
  /\ MapsFail
  /\ Running(p) /\ check[p] = "alive" /\ CaptureAlive(p)
  /\ check' = [check EXCEPT ![p] = "out"]
  /\ Set(p, "restart")
  /\ UNCHANGED <<life, loads, dll, thread, offsets, hookActive, idVars, active, capturing,
                 handle, helperVars, phase, back, found, bounds>>
-----------------------------------------------------------------------------
(***************************************************************************)
(* stop_capture, as the tick and update call it.  (That it ends the        *)
(* capture thread first is in AudioShmem.)                                 *)
(***************************************************************************)

Goto(s, next) == phase' = [phase EXCEPT ![s] = next] /\ UNCHANGED back
Stop(s, next) == phase' = [phase EXCEPT ![s] = "stop"] /\ back' = [back EXCEPT ![s] = next]

StopSignal(s) ==
  LET p == handle[s]["stop"] IN
  /\ phase[s] = "stop"
  /\ capturing' = [capturing EXCEPT ![s] = FALSE]
  /\ IF p # None THEN Set(p, "stop") ELSE UNCHANGED signalled
  /\ Goto(s, "close")
  /\ UNCHANGED <<processVars, idVars, active, handle, helperVars, found, bounds>>

\* Mutant: wait_for_target_startup is not reset.
StopCloseWaiting(s) ==
  /\ phase[s] = "close"
  /\ handle' = [handle EXCEPT ![s] = NoHandles]
  /\ active' = [active EXCEPT ![s] = FALSE]
  /\ phase' = [phase EXCEPT ![s] = IF back[s] = "update" THEN "idle" ELSE back[s]]
  /\ back' = [back EXCEPT ![s] = "idle"]
  /\ UNCHANGED <<processVars, signalled, idVars, capturing, helperVars, found, bounds>>

StopClose(s) ==
  /\ phase[s] = "close"
  /\ handle' = [handle EXCEPT ![s] = NoHandles]
  /\ waitStartup' = [waitStartup EXCEPT ![s] = FALSE]
  /\ active' = [active EXCEPT ![s] = FALSE]
  /\ phase' = [phase EXCEPT ![s] = IF back[s] = "update" THEN "idle" ELSE back[s]]
  /\ back' = [back EXCEPT ![s] = "idle"]
  /\ UNCHANGED <<processVars, signalled, exe, processId, nextId, error, capturing,
                 helperVars, found, bounds>>
-----------------------------------------------------------------------------
(***************************************************************************)
(* wasapi_capture_tick: stop, then the injector, then ready, then a try or *)
(* a look at the target.  OBS calls the ticks of its sources in turn, from *)
(* one thread; update is called from another.                              *)
(***************************************************************************)

InTick(u) == phase[u] # "idle" /\ back[u] # "update"

TickStop(s) ==
  LET p == handle[s]["stop"] IN
  /\ phase[s] = "idle" /\ \A u \in Sources : ~InTick(u)
  /\ IF p # None /\ "stop" \in signalled[p]
     THEN /\ signalled' = [signalled EXCEPT ![p] = @ \ {"stop"}]
          /\ Stop(s, "helper")
     ELSE Goto(s, "helper") /\ UNCHANGED signalled
  /\ UNCHANGED <<processVars, idVars, active, capturing, handle, helperVars, found, bounds>>

TickHelper(s) ==
  /\ phase[s] = "helper"
  /\ IF helper[s] \in {"ok", "failed"}
     THEN /\ helper' = [helper EXCEPT ![s] = "none"]
          /\ error' = [error EXCEPT ![s] = @ \/ helper[s] = "failed"]
     ELSE UNCHANGED <<helper, error>>
  /\ Goto(s, "ready")
  /\ UNCHANGED <<processVars, signalled, exe, processId, nextId, waitStartup, active,
                 capturing, handle, injected, found, bounds>>

\* The map the hook of p published is still there.
MapExists(s, p) == \/ Running(p) /\ hookActive[p]
                   \/ \E u \in Sources \ {s} : capturing[u] /\ handle[u]["ready"] = p

HookReady(s) == LET p == handle[s]["ready"] IN p # None /\ "ready" \in signalled[p]

\* init_capture_data opens the map (CAPTURE_SUCCESS) or finds that it is gone
\* (CAPTURE_RETRY).
TickReady(s) ==
  LET p == handle[s]["ready"] IN
  /\ phase[s] = "ready"
  /\ IF HookReady(s)
     THEN /\ signalled' = [signalled EXCEPT ![p] = @ \ {"ready"}]
          /\ capturing' = [capturing EXCEPT ![s] = @ \/ MapExists(s, p)]
     ELSE UNCHANGED <<signalled, capturing>>
  /\ Goto(s, "hook")
  /\ UNCHANGED <<processVars, idVars, active, handle, helperVars, found, bounds>>

\* It fails (CAPTURE_FAIL).
TickReadyFails(s) ==
  LET p == handle[s]["ready"] IN
  /\ MapsFail
  /\ phase[s] = "ready" /\ HookReady(s)
  /\ signalled' = [signalled EXCEPT ![p] = @ \ {"ready"}]
  /\ IF capturing[s] THEN Goto(s, "hook") ELSE Stop(s, "hook")
  /\ UNCHANGED <<processVars, idVars, active, capturing, handle, helperVars, found, bounds>>

\* The end of a tick that makes no try: the target is looked at, or the
\* retry interval is not over, or there is nothing to try.
TickTarget(s) ==
  /\ phase[s] = "hook"
  /\ IF active[s] /\ handle[s]["target"] # None /\ ~Running(handle[s]["target"])
     THEN Stop(s, "idle")
     ELSE Goto(s, "idle")
  /\ UNCHANGED <<processVars, signalled, idVars, active, capturing, handle, helperVars, found, bounds>>

\* find_selectd_process: the selected process, or another of its executable.
Selected(s) == IF Running(exe[s]) THEN {exe[s]}
               ELSE {p \in Procs : Running(p) /\ ExeOf[p] = ExeOf[exe[s]]}

\* Mutant: setup_process does not reset wait_for_target_startup when it has waited.
TryHookWaits(s) ==
  /\ phase[s] = "hook" /\ ~active[s] /\ ~error[s] /\ exe[s] # None
  /\ IF Selected(s) # {}
     THEN \E p \in Selected(s) :
            LET waiting == waitStartup[s] /\ ~Named(p, "restart") IN
            /\ exe' = [exe EXCEPT ![s] = p]
            /\ processId' = [processId EXCEPT ![s] = p]
            /\ nextId' = [nextId EXCEPT ![s] = IF waiting THEN @ ELSE p]
            /\ waitStartup' = [waitStartup EXCEPT ![s] = waiting]
     ELSE /\ waitStartup' = [waitStartup EXCEPT ![s] = TRUE]
          /\ UNCHANGED <<exe, processId, nextId>>
  /\ Goto(s, IF nextId'[s] # None THEN "target" ELSE "idle")
  /\ UNCHANGED <<processVars, signalled, error, active, capturing, handle, helperVars, found, bounds>>

\* try_hook with setup_process, as far as init_hook.
TryHook(s) ==
  /\ phase[s] = "hook" /\ ~active[s] /\ ~error[s] /\ exe[s] # None
  /\ IF Selected(s) # {}
     THEN \E p \in Selected(s) :
            LET waiting == waitStartup[s] /\ ~Named(p, "restart") IN
            /\ exe' = [exe EXCEPT ![s] = p]
            /\ processId' = [processId EXCEPT ![s] = p]
            /\ nextId' = [nextId EXCEPT ![s] = IF waiting THEN @ ELSE p]
            /\ waitStartup' = [waitStartup EXCEPT ![s] = FALSE]
            /\ found' = [found EXCEPT ![s] = IF @ = "missing" THEN "fresh" ELSE "known"]
     ELSE /\ waitStartup' = [waitStartup EXCEPT ![s] = TRUE]
          /\ found' = [found EXCEPT ![s] = "missing"]
          /\ UNCHANGED <<exe, processId, nextId>>
  /\ Goto(s, IF nextId'[s] # None THEN "target" ELSE "idle")
  /\ UNCHANGED <<processVars, signalled, error, active, capturing, handle, helperVars, bounds>>
-----------------------------------------------------------------------------
(***************************************************************************)
(* init_hook.  Where it fails, try_hook calls stop_capture.                *)
(***************************************************************************)

\* Mutant: it does not.
InitFailsOpen(s) == Goto(s, "idle") /\ UNCHANGED <<signalled, handle>>

InitFails(s) == Stop(s, "idle") /\ UNCHANGED <<signalled, handle>>

\* open_target_process and init_keepalive
OpenTarget(s) ==
  LET p == processId[s] IN
  /\ phase[s] = "target"
  /\ IF Running(p)
     THEN /\ handle' = [handle EXCEPT ![s]["target"] = p, ![s]["keepalive"] = p]
          /\ Goto(s, "existing")
          /\ UNCHANGED signalled
     ELSE InitFails(s)
  /\ UNCHANGED <<processVars, idVars, active, capturing, helperVars, found, bounds>>

\* attempt_existing_hook
ExistingHook(s) ==
  LET p == processId[s] IN
  /\ phase[s] = "existing" /\ Named(p, "restart")
  /\ handle' = [handle EXCEPT ![s]["restart"] = p]
  /\ Set(p, "restart")
  /\ Goto(s, "mutex")
  /\ UNCHANGED <<processVars, idVars, active, capturing, helperVars, found, bounds>>

\* ... or inject_hook: the helper is started with the id of nextId.
Inject(s) ==
  /\ phase[s] = "existing" /\ ~Named(processId[s], "restart")
  /\ loads' = loads \cup {nextId[s]}
  /\ helper' = [helper EXCEPT ![s] = "running"]
  /\ injected' = [injected EXCEPT ![s] = nextId[s]]
  /\ Goto(s, "mutex")
  /\ UNCHANGED <<life, dll, thread, offsets, hookActive, check, signalled, idVars, active,
                 capturing, handle, found, bounds>>

\* ... which fails when a file is missing.
InjectFails(s) ==
  /\ phase[s] = "existing" /\ ~Named(processId[s], "restart")
  /\ InitFails(s)
  /\ UNCHANGED <<processVars, idVars, active, capturing, helperVars, found, bounds>>

\* Mutant: the event is not checked.
OpenMutexOnly(s) ==
  LET p == processId[s] IN
  /\ phase[s] = "mutex"
  /\ IF Named(p, "mutex")
     THEN /\ handle' = [handle EXCEPT ![s]["mutex"] = p, ![s]["event"] = p]
          /\ Goto(s, "info")
          /\ UNCHANGED signalled
     ELSE InitFails(s)
  /\ UNCHANGED <<processVars, idVars, active, capturing, helperVars, found, bounds>>

\* init_audio_data_mutexes
OpenMutex(s) ==
  LET p == processId[s] IN
  /\ phase[s] = "mutex"
  /\ IF Named(p, "mutex") /\ Named(p, "event")
     THEN /\ handle' = [handle EXCEPT ![s]["mutex"] = p, ![s]["event"] = p]
          /\ Goto(s, "info")
          /\ UNCHANGED signalled
     ELSE InitFails(s)
  /\ UNCHANGED <<processVars, idVars, active, capturing, helperVars, found, bounds>>

\* Mutant: the offsets are not filled in.
OpenInfoBlank(s) ==
  LET p == processId[s] IN
  /\ phase[s] = "info"
  /\ IF Named(p, "info")
     THEN /\ handle' = [handle EXCEPT ![s]["info"] = p]
          /\ Goto(s, "events")
          /\ UNCHANGED signalled
     ELSE InitFails(s)
  /\ UNCHANGED <<processVars, idVars, active, capturing, helperVars, found, bounds>>

\* init_hook_info, which fills in the offsets
OpenInfo(s) ==
  LET p == processId[s] IN
  /\ phase[s] = "info"
  /\ IF Named(p, "info")
     THEN /\ handle' = [handle EXCEPT ![s]["info"] = p]
          /\ offsets' = [offsets EXCEPT ![p] = TRUE]
          /\ Goto(s, "events")
          /\ UNCHANGED signalled
     ELSE InitFails(s) /\ UNCHANGED offsets
  /\ UNCHANGED <<life, loads, dll, thread, hookActive, check, idVars, active, capturing,
                 helperVars, found, bounds>>

\* init_events, which drains the stop event
OpenEvents(s) ==
  LET p == processId[s]
      names == {"restart", "stop", "init", "ready", "exit"}
  IN
  /\ phase[s] = "events"
  /\ IF \A n \in names : Named(p, n)
     THEN /\ handle' = [handle EXCEPT ![s] = [n \in Handles |-> IF n \in names THEN p ELSE @[n]]]
          /\ signalled' = [signalled EXCEPT ![p] = @ \ {"stop"}]
          /\ Goto(s, "signal")
     ELSE InitFails(s)
  /\ UNCHANGED <<processVars, idVars, active, capturing, helperVars, found, bounds>>

\* The end of init_hook
SignalInit(s) ==
  /\ phase[s] = "signal"
  /\ Set(handle[s]["init"], "init")
  /\ processId' = [processId EXCEPT ![s] = nextId[s]]
  /\ nextId' = [nextId EXCEPT ![s] = None]
  /\ active' = [active EXCEPT ![s] = TRUE]
  /\ Goto(s, "idle")
  /\ UNCHANGED <<processVars, exe, waitStartup, error, capturing, handle, helperVars, found, bounds>>
-----------------------------------------------------------------------------
\* wasapi_capture_update: another process is selected, or the same again, or
\* none.  It is called between two ticks of the source.
Update(s, p) ==
  /\ phase[s] = "idle" /\ updates < MaxUpdates
  /\ updates' = updates + 1
  /\ exe' = [exe EXCEPT ![s] = p]
  /\ error' = [error EXCEPT ![s] = FALSE]
  /\ waitStartup' = [waitStartup EXCEPT ![s] = FALSE]
  /\ IF p # exe[s] THEN Stop(s, "update") ELSE Goto(s, "idle")
  /\ found' = [found EXCEPT ![s] = "known"]
  /\ UNCHANGED <<processVars, signalled, processId, nextId, active, capturing, handle,
                 helperVars, crashes>>

\* Processes start, and end with their memory, while an object that a source
\* has open stays; OBS dies, and starts again with its settings.
ProcStarts(p) ==
  /\ life[p] = "new"
  /\ life' = [life EXCEPT ![p] = "running"]
  /\ UNCHANGED <<loads, dll, thread, offsets, hookActive, check, signalled, idVars, active,
                 capturing, handle, helperVars, phase, back, found, bounds>>

ProcDies(p) ==
  /\ Running(p)
  /\ life' = [life EXCEPT ![p] = "dead"]
  /\ loads' = loads \ {p}
  /\ dll' = [dll EXCEPT ![p] = 0]
  /\ thread' = [thread EXCEPT ![p] = "none"]
  /\ offsets' = [offsets EXCEPT ![p] = FALSE]
  /\ hookActive' = [hookActive EXCEPT ![p] = FALSE]
  /\ check' = [check EXCEPT ![p] = "out"]
  /\ UNCHANGED <<signalled, idVars, active, capturing, handle, helperVars, phase, back,
                 found, bounds>>

ObsDies ==
  /\ crashes < MaxCrashes
  /\ crashes' = crashes + 1
  /\ processId' = [s \in Sources |-> None]
  /\ nextId' = [s \in Sources |-> None]
  /\ waitStartup' = [s \in Sources |-> FALSE]
  /\ error' = [s \in Sources |-> FALSE]
  /\ active' = [s \in Sources |-> FALSE]
  /\ capturing' = [s \in Sources |-> FALSE]
  /\ handle' = [s \in Sources |-> NoHandles]
  /\ helper' = [s \in Sources |-> "none"]
  /\ injected' = [s \in Sources |-> None]
  /\ phase' = [s \in Sources |-> "idle"]
  /\ back' = [s \in Sources |-> "idle"]
  /\ found' = [s \in Sources |-> "known"]
  /\ UNCHANGED <<processVars, signalled, exe, updates>>
-----------------------------------------------------------------------------
Dll(p) == DllMain(p) \/ InitHook(p) \/ CaptureLoop(p) \/ AttemptHook(p)

CaptureCheck(p) ==
  (\E look \in BOOLEAN : CheckStop(p, look)) \/ CheckRestart(p) \/ CheckInit(p) \/ CheckInitFails(p)

StopCapture(s) == StopSignal(s) \/ StopClose(s)

InitSession(s) ==
  \/ OpenTarget(s) \/ ExistingHook(s) \/ Inject(s) \/ InjectFails(s)
  \/ OpenMutex(s) \/ OpenInfo(s) \/ OpenEvents(s) \/ SignalInit(s)

Tick(s) ==
  \/ TickStop(s) \/ TickHelper(s) \/ TickReady(s) \/ TickReadyFails(s) \/ TickTarget(s)
  \/ TryHook(s) \/ InitSession(s) \/ StopCapture(s)

Next ==
  \/ \E p \in Procs : Dll(p) \/ CaptureCheck(p) \/ ProcStarts(p) \/ ProcDies(p)
  \/ \E s \in Sources : Tick(s) \/ HelperLoads(s) \/ HelperFails(s)
  \/ \E s \in Sources, p \in Procs \cup {None} : Update(s, p)
  \/ ObsDies

Spec == Init /\ [][Next]_vars

(***************************************************************************)
(* Fairness.  The threads of a running process and of OBS go on: the DLL   *)
(* loads, the application renders (and once in a while five seconds have   *)
(* passed since the keepalive mutex was looked at), the tick comes, and    *)
(* the retry interval is over again and again.  The files of the plugin    *)
(* are there, and the injector does not fail again and again for ever: it  *)
(* would have to fail between a tick's look at it and the next try, which  *)
(* then replaces its handle, or `error' stops the tries.                   *)
(***************************************************************************)
Fairness ==
  /\ \A p \in Procs : /\ WF_vars(Dll(p))
                      /\ WF_vars(CaptureCheck(p))
                      /\ SF_vars(CheckStop(p, TRUE))
  /\ \A s \in Sources : /\ WF_vars(Tick(s))
                        /\ SF_vars(TryHook(s))
                        /\ <>[][~InjectFails(s) /\ ~HelperFails(s)]_vars

FairSpec == Spec /\ Fairness

\* Besides, OBS calls the ticks of its sources in turn.
TurnsSpec == FairSpec /\ \A s \in Sources : SF_vars(TickStop(s))
-----------------------------------------------------------------------------
(***************************************************************************)
(* Properties.                                                             *)
(***************************************************************************)

Initialising == {"target", "existing", "mutex", "info", "events", "signal"}
Phases == Initialising \cup {"idle", "helper", "ready", "hook", "stop", "close"}
Backs == {"idle", "helper", "hook", "update"}

\* The types of the variables; counts and phases stay within their bounds.
TypeOK ==
  /\ life \in [Procs -> {"new", "running", "dead"}]
  /\ loads \subseteq Procs
  /\ dll \in [Procs -> 0..Loaded]
  /\ thread \in [Procs -> {"none", "start", "wait", "attempt", "hooked", "useless"}]
  /\ offsets \in [Procs -> BOOLEAN] /\ hookActive \in [Procs -> BOOLEAN]
  /\ check \in [Procs -> {"out", "init", "alive"}]
  /\ signalled \in [Procs -> SUBSET Events]
  /\ exe \in [Sources -> Procs \cup {None}]
  /\ processId \in [Sources -> Procs \cup {None}]
  /\ nextId \in [Sources -> Procs \cup {None}]
  /\ waitStartup \in [Sources -> BOOLEAN] /\ error \in [Sources -> BOOLEAN]
  /\ active \in [Sources -> BOOLEAN] /\ capturing \in [Sources -> BOOLEAN]
  /\ handle \in [Sources -> [Handles -> Procs \cup {None}]]
  /\ helper \in [Sources -> {"none", "running", "ok", "failed"}]
  /\ injected \in [Sources -> Procs \cup {None}]
  /\ phase \in [Sources -> Phases] /\ back \in [Sources -> Backs]
  /\ found \in [Sources -> {"known", "missing", "fresh"}]
  /\ updates \in 0..MaxUpdates /\ crashes \in 0..MaxCrashes

\* An active source has all its handles, of the process it says it captures;
\* a source that is about to try has none, so that no try overwrites one.
SessionHandles ==
  \A s \in Sources :
    /\ active[s] => handle[s] = [n \in Handles |-> processId[s]]
    /\ ~active[s] /\ phase[s] \in {"idle", "helper", "ready", "hook", "target"}
         => handle[s] = NoHandles

\* The process init_hook opens is the one it would inject: a next_process_id
\* left over from a failed try never meets the process_id of a later one.
IdsAgree == \A s \in Sources : phase[s] \in Initialising => nextId[s] = processId[s]

\* The source opens the objects in such an order that, once it has the
\* mutex, it gets all others too, unless the process died: a DLL that is
\* still loading makes init_hook fail early, before it writes to hook_info
\* or drains an event.
NamesComplete ==
  \A s \in Sources :
    phase[s] \in {"info", "events", "signal"} /\ Running(processId[s])
      => dll[processId[s]] = Loaded

\* The hook is never attempted without the offsets: each try of each source,
\* however it ends, writes them before it signals init.
OffsetsBeforeHook ==
  \A p \in Procs : thread[p] \in {"attempt", "hooked", "useless"} => offsets[p] /\ thread[p] # "useless"

\* No map without a session: whatever becomes of OBS and its sources, a hook
\* that nobody keeps alive ends its capture.
HookReleases ==
  \A p \in Procs : hookActive[p] /\ ~CaptureAlive(p) ~> ~hookActive[p] \/ CaptureAlive(p)

\* A source whose selected process runs gets to a session, through the
\* failed tries of a DLL that is still loading, or to an error.
Attaches ==
  \A s \in Sources, p \in Procs :
    exe[s] = p /\ Running(p) ~> active[s] \/ error[s] \/ exe[s] # p \/ ~Running(p)

\* "if there's already a hook in the process, then signal and start"
\* (attempt_existing_hook): a source that got to a session with a hooked process
\* starts to capture, as long as the process runs and nothing stops the source.
HookedSourceCaptures ==
  \A s \in Sources :
    active[s] /\ thread[processId[s]] = "hooked"
      ~> capturing[s] \/ ~active[s] \/ thread[processId[s]] # "hooked"

\* A source captures the program that is selected ("Select process which you
\* want to capture", README.md).
SelectedOnly == \A s \in Sources : active[s] /\ phase[s] = "idle" => ExeOf[processId[s]] = ExeOf[exe[s]]

\* A process that the previous try did not find is not injected at once ("if
\* it's an unhooked process, always wait a bit for the target process to
\* start up before starting the hook process", wasapi-capture.c).
WaitsForStartup ==
  \A s \in Sources :
    phase[s] = "existing" /\ found[s] = "fresh" /\ Running(processId[s])
      => Named(processId[s], "restart")
=============================================================================
