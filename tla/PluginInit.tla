----------------------------- MODULE PluginInit -----------------------------
(***************************************************************************)
(* The loading of the plugin (plugin-main.c): a thread runs                *)
(* get-wasapi-offsets for either architecture, whoever creates a source    *)
(* waits for that thread, and so does the end of the plugin; and what      *)
(* becomes of the offsets: a source copies them into the hook_info of a    *)
(* process (init_hook_info), whose DLL hooks with them, once               *)
(* (attempt_hook, hook_wasapi).                                            *)
(*                                                                         *)
(* OBS runs several times; the DLL stays in a process that outlives it.    *)
(* HookSession models how a source and the DLL meet, and takes the offsets *)
(* for known.                                                              *)
(***************************************************************************)
EXTENDS Naturals

CONSTANTS
  Threads,       \* the threads of OBS that create sources
  Procs,         \* processes that have the DLL
  Archs,         \* the architectures
  ArchOf,        \* that of each process
  Own,           \* that of the plugin
  MaxLaunches    \* bound: times OBS is started

ASSUME PluginAssumption ==
  /\ Own \in Archs /\ ArchOf \in [Procs -> Archs] /\ MaxLaunches \in Nat
  /\ "ended" \notin Archs

VARIABLES
  launches,      \* times the module was loaded
  loaded,        \* the module is loaded
  loader,        \* where init_hooks is: the architecture it measures, or
                 \* "ended", which it is too where it never began
  offsets,       \* offsets32, offsets64: of each, whether it is zero, written in part, or known
  hooksThread,   \* init_hooks_thread: NULL, an open handle or a closed one
  initialized,   \* the static variable of wait_for_hook_initialization
  pc,            \* pc[t]: where thread t is in it
  call,          \* call[t]: whether t creates a source or unloads the module
  sources,       \* there are sources
  info,          \* info[p]: the offsets in the hook_info of p
  hook           \* hook[p]: none yet, hooked, or useless: claimed without offsets

moduleVars == <<launches, loaded>>
loaderVars == <<loader, offsets>>
threadVars == <<pc, call>>
processVars == <<info, hook>>
vars == <<moduleVars, loaderVars, hooksThread, initialized, threadVars, sources, processVars>>

Unmeasured == [a \in Archs |-> "zero"]
Outside == [t \in Threads |-> "out"]

Init ==
  /\ launches = 0 /\ loaded = FALSE
  /\ loader = "ended" /\ offsets = Unmeasured
  /\ hooksThread = "null" /\ initialized = FALSE
  /\ pc = Outside /\ call = [t \in Threads |-> "create"] /\ sources = FALSE
  /\ info = [p \in Procs |-> "zero"] /\ hook = [p \in Procs |-> "none"]

\* obs_module_load: the thread is created, or not.
ModuleLoad ==
  /\ ~loaded /\ launches < MaxLaunches
  /\ launches' = launches + 1 /\ loaded' = TRUE
  /\ \/ loader' = Own /\ hooksThread' = "open"
     \/ UNCHANGED <<loader, hooksThread>>
  /\ UNCHANGED <<offsets, initialized, threadVars, sources, processVars>>
-----------------------------------------------------------------------------
(***************************************************************************)
(* init_hooks, which calls load_wasapi_offsets.                            *)
(***************************************************************************)

\* Mutant: the architectures take turns until one fails.
AfterTurns(a, success) == IF success THEN Archs \ {a} ELSE {"ended"}

\* Where init_hooks goes on after load_wasapi_offsets for a: the other
\* architecture's turn comes only when the own one's succeeded.
After(a, success) == IF a = Own /\ success THEN Archs \ {Own} ELSE {"ended"}

\* The program cannot be run, prints nothing (it crashed) or nonsense.
LoadFails ==
  /\ loader \in Archs /\ offsets[loader] = "zero"
  /\ loader' \in After(loader, FALSE)
  /\ UNCHANGED <<moduleVars, offsets, hooksThread, initialized, threadVars, sources, processVars>>

\* It prints offsets of which some are zero, as it did not find them.
LoadZero ==
  /\ loader \in Archs /\ offsets[loader] = "zero"
  /\ loader' \in After(loader, TRUE)
  /\ UNCHANGED <<moduleVars, offsets, hooksThread, initialized, threadVars, sources, processVars>>

\* load_offsets_from_string writes one offset after the other.
LoadOffsets ==
  /\ loader \in Archs
  /\ \/ /\ offsets[loader] = "zero"
        /\ offsets' = [offsets EXCEPT ![loader] = "part"]
        /\ UNCHANGED loader
     \/ /\ offsets[loader] = "part"
        /\ offsets' = [offsets EXCEPT ![loader] = "known"]
        /\ loader' \in After(loader, TRUE)
  /\ UNCHANGED <<moduleVars, hooksThread, initialized, threadVars, sources, processVars>>

InitHooks == LoadFails \/ LoadZero \/ LoadOffsets
-----------------------------------------------------------------------------
(***************************************************************************)
(* wait_for_hook_initialization, in wasapi_capture_create and in           *)
(* obs_module_unload.  It reads init_hooks_thread anew in each step.       *)
(***************************************************************************)

Goto(t, next) == pc' = [pc EXCEPT ![t] = next] /\ UNCHANGED call

\* OBS creates a source, or unloads the module when nothing uses it any more.
Call(t, what) ==
  /\ loaded /\ pc[t] = "out"
  /\ \A u \in Threads : pc[u] # "out" => call[u] = "create"
  /\ what = "unload" => ~sources /\ pc = Outside
  /\ pc' = [pc EXCEPT ![t] = "test"]
  /\ call' = [call EXCEPT ![t] = what]
  /\ UNCHANGED <<moduleVars, loaderVars, hooksThread, initialized, sources, processVars>>

\* Mutant: `initialized' is set before the wait.
TestSets(t) ==
  /\ pc[t] = "test"
  /\ initialized' = TRUE
  /\ Goto(t, IF initialized THEN "return" ELSE IF hooksThread # "null" THEN "wait" ELSE "set")
  /\ UNCHANGED <<moduleVars, loaderVars, hooksThread, sources, processVars>>

Test(t) ==
  /\ pc[t] = "test"
  /\ Goto(t, IF initialized THEN "return" ELSE IF hooksThread # "null" THEN "wait" ELSE "set")
  /\ UNCHANGED <<moduleVars, loaderVars, hooksThread, initialized, sources, processVars>>

\* Mutant: the end of the plugin does not wait.
WaitUnlessUnload(t) ==
  /\ pc[t] = "wait"
  /\ call[t] = "unload" \/ hooksThread # "open" \/ loader = "ended"
  /\ Goto(t, "close")
  /\ UNCHANGED <<moduleVars, loaderVars, hooksThread, initialized, sources, processVars>>

\* WaitForSingleObject, which fails at once for what is not an open handle.
Wait(t) ==
  /\ pc[t] = "wait"
  /\ hooksThread # "open" \/ loader = "ended"
  /\ Goto(t, "close")
  /\ UNCHANGED <<moduleVars, loaderVars, hooksThread, initialized, sources, processVars>>

Close(t) ==
  /\ pc[t] = "close"
  /\ hooksThread' = IF hooksThread = "open" THEN "closed" ELSE hooksThread
  /\ Goto(t, "clear")
  /\ UNCHANGED <<moduleVars, loaderVars, initialized, sources, processVars>>

\* Mutant: the closed handle stays in init_hooks_thread.
ClearNot(t) ==
  /\ pc[t] = "clear"
  /\ Goto(t, "set")
  /\ UNCHANGED <<moduleVars, loaderVars, hooksThread, initialized, sources, processVars>>

Clear(t) ==
  /\ pc[t] = "clear"
  /\ hooksThread' = "null"
  /\ Goto(t, "set")
  /\ UNCHANGED <<moduleVars, loaderVars, initialized, sources, processVars>>

SetInitialized(t) ==
  /\ pc[t] = "set"
  /\ initialized' = TRUE
  /\ Goto(t, "return")
  /\ UNCHANGED <<moduleVars, loaderVars, hooksThread, sources, processVars>>

\* The source is created.
Create(t) ==
  /\ pc[t] = "return" /\ call[t] = "create"
  /\ sources' = TRUE
  /\ Goto(t, "out")
  /\ UNCHANGED <<moduleVars, loaderVars, hooksThread, initialized, processVars>>

\* The memory of the module is gone, its variables with it.
Gone ==
  /\ loaded' = FALSE
  /\ loader' = "ended" /\ offsets' = Unmeasured
  /\ hooksThread' = "null" /\ initialized' = FALSE
  /\ pc' = Outside /\ call' = [t \in Threads |-> "create"]

Unload(t) ==
  /\ pc[t] = "return" /\ call[t] = "unload"
  /\ Gone
  /\ UNCHANGED <<launches, sources, processVars>>

ObsDies == loaded /\ Gone /\ sources' = FALSE /\ UNCHANGED <<launches, processVars>>

DestroySources ==
  /\ sources /\ sources' = FALSE
  /\ UNCHANGED <<moduleVars, loaderVars, hooksThread, initialized, threadVars, processVars>>
-----------------------------------------------------------------------------
\* init_hook_info: a source writes the offsets to a process, before it lets
\* the DLL go on.
InitHookInfo(p) ==
  /\ sources
  /\ info' = [info EXCEPT ![p] = offsets[ArchOf[p]]]
  /\ hook' = [hook EXCEPT ![p] = IF @ = "none" THEN "attempt" ELSE @]
  /\ UNCHANGED <<moduleVars, loaderVars, hooksThread, initialized, threadVars, sources>>

\* attempt_hook, which calls hook_wasapi until that claims success: it does
\* so without offsets too, or when they lie beyond AudioSes.dll.
AttemptHook(p) ==
  /\ hook[p] = "attempt"
  /\ hook' = [hook EXCEPT ![p] = IF info[p] = "known" THEN "hooked" ELSE "useless"]
  /\ UNCHANGED <<moduleVars, loaderVars, hooksThread, initialized, threadVars, sources, info>>
-----------------------------------------------------------------------------
WaitForHookInitialization(t) ==
  \/ Test(t) \/ Wait(t) \/ Close(t) \/ Clear(t) \/ SetInitialized(t)

\* OBS has run as often as it does, and the DLLs have nothing left to do.
TheEnd ==
  /\ ~loaded /\ launches = MaxLaunches /\ \A p \in Procs : hook[p] # "attempt"
  /\ UNCHANGED vars

Next ==
  \/ ModuleLoad \/ InitHooks \/ DestroySources \/ ObsDies \/ TheEnd
  \/ \E t \in Threads : \/ \E what \in {"create", "unload"} : Call(t, what)
                        \/ WaitForHookInitialization(t) \/ Create(t) \/ Unload(t)
  \/ \E p \in Procs : InitHookInfo(p) \/ AttemptHook(p)

Spec == Init /\ [][Next]_vars

(***************************************************************************)
(* Fairness.  The threads of OBS and of the DLL go on, and                 *)
(* get-wasapi-offsets ends: its pipe is read without a time-out.           *)
(***************************************************************************)
Fairness ==
  /\ WF_vars(InitHooks)
  /\ \A t \in Threads : WF_vars(WaitForHookInitialization(t) \/ Create(t) \/ Unload(t))
  /\ \A p \in Procs : WF_vars(AttemptHook(p))

FairSpec == Spec /\ Fairness
-----------------------------------------------------------------------------
(***************************************************************************)
(* Properties.                                                             *)
(***************************************************************************)

\* The types of the variables; and once `initialized' is set, no handle of the
\* thread is left, for whichever of the threads that came at once.
TypeOK ==
  /\ launches \in 0..MaxLaunches /\ loaded \in BOOLEAN
  /\ loader \in Archs \cup {"ended"}
  /\ offsets \in [Archs -> {"zero", "part", "known"}]
  /\ hooksThread \in {"null", "open", "closed"} /\ initialized \in BOOLEAN
  /\ initialized => hooksThread = "null"
  /\ pc \in [Threads -> {"out", "test", "wait", "close", "clear", "set", "return"}]
  /\ call \in [Threads -> {"create", "unload"}] /\ sources \in BOOLEAN
  /\ info \in [Procs -> {"zero", "part", "known"}]
  /\ hook \in [Procs -> {"none", "attempt", "hooked", "useless"}]

\* Whichever threads create sources at once, and although they read and clear
\* init_hooks_thread without a lock, no process is given offsets that are being
\* written: each of them has waited, or another had.
NoTornOffsets == \A p \in Procs : info[p] # "part"

\* The module is not unloaded while its thread runs in it.
UnloadedIdle == [][\A t \in Threads : Unload(t) => loader = "ended"]_vars

\* A source is created in the end, and the module unloaded, however the thread
\* ends, and whoever closed its handle.
CallsReturn == \A t \in Threads : pc[t] # "out" ~> pc[t] = "out"

\* "this causes it to check every 4 seconds" (capture_loop): a process that is
\* given the offsets in the end, by a later OBS, is hooked in the end.
HookedInTheEnd == \A p \in Procs : info[p] = "known" ~> hook[p] = "hooked" \/ info[p] # "known"
=============================================================================
