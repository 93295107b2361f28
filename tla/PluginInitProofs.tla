-------------------------- MODULE PluginInitProofs --------------------------
(***************************************************************************)
(* Proofs about PluginInit, for any number of threads that create sources, *)
(* of processes, of architectures and of runs of OBS: no process is given  *)
(* offsets that are being written, and the module is not unloaded while    *)
(* its thread runs in it.                                                  *)
(*                                                                         *)
(* Both rest on one fact, LoaderInv: as long as init_hooks runs, its       *)
(* handle is open, and so nobody has got past the wait.  It is kept up     *)
(* although the threads share the handle without a lock, because none can  *)
(* come to close it before all could.                                      *)
(***************************************************************************)
EXTENDS PluginInit, TLAPS

\* While init_hooks runs, whoever has begun to wait for it is waiting still.
LoaderInv ==
  loader # "ended" =>
    /\ loaded /\ hooksThread = "open" /\ ~initialized /\ ~sources
    /\ \A t \in Threads : pc[t] \in {"out", "test", "wait"}

\* Only the offsets it is at are written in part.
OffsetsInv == \A a \in Archs : offsets[a] = "part" => a = loader

\* Who is past the wait knows that there is nothing left to wait for.
WaitInv ==
  \A t \in Threads : /\ pc[t] = "set" => hooksThread = "null"
                     /\ pc[t] = "return" => initialized

\* The module is unloaded when nothing uses it, and then nothing does.
ModuleInv ==
  /\ \A t \in Threads : pc[t] # "out" /\ call[t] = "unload" =>
       ~sources /\ \A u \in Threads \ {t} : pc[u] = "out"
  /\ ~loaded => /\ ~sources /\ hooksThread = "null" /\ ~initialized
                /\ \A t \in Threads : pc[t] = "out"

IInv == TypeOK /\ LoaderInv /\ OffsetsInv /\ WaitInv /\ ModuleInv /\ NoTornOffsets
-----------------------------------------------------------------------------
\* OBS has not been started, and nothing exists.
LEMMA InitIInv == Init => IInv
<1> SUFFICES ASSUME Init PROVE IInv
  OBVIOUS
<1>1. 0 \in 0..MaxLaunches
  BY PluginAssumption
<1>2. TypeOK
  BY <1>1 DEF Init, TypeOK, Unmeasured, Outside
<1>3. LoaderInv /\ OffsetsInv /\ WaitInv /\ ModuleInv /\ NoTornOffsets
  BY DEF Init, LoaderInv, OffsetsInv, WaitInv, ModuleInv, NoTornOffsets, Unmeasured, Outside
<1> QED
  BY <1>2, <1>3 DEF IInv

\* The module is loaded, and its thread is created, or not.
LEMMA ModuleLoadStep ==
  ASSUME IInv, ModuleLoad
  PROVE  IInv'
<1>1. /\ loader = "ended" /\ ~sources /\ ~initialized /\ hooksThread = "null"
      /\ \A t \in Threads : pc[t] = "out"
  BY DEF IInv, LoaderInv, ModuleInv, ModuleLoad
<1>2. /\ launches' = launches + 1 /\ loaded' = TRUE
      /\ UNCHANGED <<offsets, initialized, pc, call, sources, info, hook>>
      /\ \/ loader' = Own /\ hooksThread' = "open"
         \/ loader' = loader /\ hooksThread' = hooksThread
  BY DEF ModuleLoad, threadVars, processVars
<1>3. launches' \in 0..MaxLaunches
  BY <1>2, PluginAssumption DEF ModuleLoad, IInv, TypeOK
<1>4. TypeOK'
  BY <1>1, <1>2, <1>3, PluginAssumption DEF IInv, TypeOK
<1>5. LoaderInv' /\ OffsetsInv' /\ WaitInv' /\ ModuleInv'
  BY <1>1, <1>2, PluginAssumption DEF IInv, LoaderInv, OffsetsInv, WaitInv, ModuleInv
<1>6. NoTornOffsets'
  BY <1>2 DEF IInv, NoTornOffsets
<1> QED
  BY <1>4, <1>5, <1>6 DEF IInv

\* The thread writes the offsets of one architecture after the other.
LEMMA InitHooksStep ==
  ASSUME IInv, InitHooks
  PROVE  IInv'
<1>1. loader \in Archs /\ loader # "ended"
  BY PluginAssumption DEF InitHooks, LoadFails, LoadZero, LoadOffsets
<1>2. UNCHANGED <<launches, loaded, hooksThread, initialized, pc, call, sources, info, hook>>
  BY DEF InitHooks, LoadFails, LoadZero, LoadOffsets, moduleVars, threadVars, processVars
<1>3. loader' \in Archs \cup {"ended"}
  BY <1>1 DEF InitHooks, LoadFails, LoadZero, LoadOffsets, After
<1>4. offsets' \in [Archs -> {"zero", "part", "known"}]
  <2>1. offsets \in [Archs -> {"zero", "part", "known"}]
    BY DEF IInv, TypeOK
  <2>2. \/ offsets' = offsets
        \/ offsets' = [offsets EXCEPT ![loader] = "part"]
        \/ offsets' = [offsets EXCEPT ![loader] = "known"]
    BY DEF InitHooks, LoadFails, LoadZero, LoadOffsets
  <2> QED
    BY <2>1, <2>2
<1>5. TypeOK'
  BY <1>2, <1>3, <1>4 DEF IInv, TypeOK
<1>6. OffsetsInv'
  BY DEF IInv, TypeOK, OffsetsInv, InitHooks, LoadFails, LoadZero, LoadOffsets
<1>7. LoaderInv' /\ WaitInv' /\ ModuleInv' /\ NoTornOffsets'
  BY <1>1, <1>2 DEF IInv, LoaderInv, WaitInv, ModuleInv, NoTornOffsets
<1> QED
  BY <1>5, <1>6, <1>7 DEF IInv

\* A thread of OBS calls wait_for_hook_initialization.
LEMMA CallStep ==
  ASSUME IInv, NEW t \in Threads, NEW what \in {"create", "unload"}, Call(t, what)
  PROVE  IInv'
<1>1. /\ loaded /\ pc' = [pc EXCEPT ![t] = "test"] /\ call' = [call EXCEPT ![t] = what]
      /\ UNCHANGED <<launches, loaded, loader, offsets, hooksThread, initialized, sources, info, hook>>
  BY DEF Call, moduleVars, loaderVars, processVars
<1>2. TypeOK'
  BY <1>1 DEF IInv, TypeOK
<1>3. \A u \in Threads : pc'[u] = (IF u = t THEN "test" ELSE pc[u])
                         /\ call'[u] = (IF u = t THEN what ELSE call[u])
  BY <1>1 DEF IInv, TypeOK
<1>4. \A u \in Threads : pc[u] # "out" => call[u] = "create"
  BY DEF Call
<1>5. what = "unload" => ~sources /\ \A u \in Threads : pc[u] = "out"
  BY DEF Call, Outside
<1>6. ModuleInv'
  BY <1>1, <1>3, <1>4, <1>5 DEF ModuleInv
<1>7. LoaderInv' /\ OffsetsInv' /\ WaitInv' /\ NoTornOffsets'
  BY <1>1, <1>3 DEF IInv, LoaderInv, OffsetsInv, WaitInv, NoTornOffsets
<1> QED
  BY <1>2, <1>6, <1>7 DEF IInv
-----------------------------------------------------------------------------
(* The steps of wait_for_hook_initialization change pc, hooksThread and    *)
(* initialized; AroundWait is what they keep of the invariant.             *)

\* What stays true of the rest while a call advances.
LEMMA AroundWait ==
  ASSUME IInv, NEW t \in Threads, NEW next \in {"wait", "close", "clear", "set", "return"},
         pc[t] # "out", Goto(t, next),
         UNCHANGED <<moduleVars, loaderVars, sources, processVars>>,
         hooksThread' \in {"null", "open", "closed"}, initialized' \in BOOLEAN,
         initialized' => hooksThread' = "null"
  PROVE  /\ TypeOK' /\ OffsetsInv' /\ ModuleInv' /\ NoTornOffsets'
         /\ \A u \in Threads : pc'[u] = IF u = t THEN next ELSE pc[u]
         /\ UNCHANGED <<loaded, loader, sources>>
<1>1. /\ pc' = [pc EXCEPT ![t] = next]
      /\ UNCHANGED <<launches, loaded, loader, offsets, call, sources, info, hook>>
  BY DEF Goto, moduleVars, loaderVars, processVars
<1>2. TypeOK'
  BY <1>1 DEF IInv, TypeOK
<1>3. \A u \in Threads : pc'[u] = IF u = t THEN next ELSE pc[u]
  BY <1>1 DEF IInv, TypeOK
<1>4. loaded
  BY DEF IInv, ModuleInv
<1>5. ModuleInv'
  BY <1>1, <1>3, <1>4 DEF IInv, ModuleInv
<1>6. OffsetsInv' /\ NoTornOffsets'
  BY <1>1 DEF IInv, OffsetsInv, NoTornOffsets
<1> QED
  BY <1>1, <1>2, <1>3, <1>5, <1>6

\* The test of `initialized'.
LEMMA TestStep ==
  ASSUME IInv, NEW t \in Threads, Test(t)
  PROVE  IInv'
<1> DEFINE next == IF initialized THEN "return" ELSE IF hooksThread # "null" THEN "wait" ELSE "set"
<1>1. pc[t] = "test" /\ Goto(t, next) /\ UNCHANGED <<hooksThread, initialized>>
  BY DEF Test
<1>2. TypeOK /\ LoaderInv /\ WaitInv
  BY DEF IInv
<1>3. /\ TypeOK' /\ OffsetsInv' /\ ModuleInv' /\ NoTornOffsets'
      /\ \A u \in Threads : pc'[u] = IF u = t THEN next ELSE pc[u]
      /\ UNCHANGED <<loaded, loader, sources>>
  BY <1>1, <1>2, AroundWait DEF Test, TypeOK
<1>4. LoaderInv'
  BY <1>1, <1>2, <1>3 DEF LoaderInv
<1>5. WaitInv'
  BY <1>1, <1>2, <1>3 DEF WaitInv
<1> QED
  BY <1>3, <1>4, <1>5 DEF IInv

\* The wait for the thread to end.
LEMMA WaitStep ==
  ASSUME IInv, NEW t \in Threads, Wait(t)
  PROVE  IInv'
<1>1. pc[t] = "wait" /\ Goto(t, "close") /\ UNCHANGED <<hooksThread, initialized>>
  BY DEF Wait
<1>2. TypeOK /\ LoaderInv /\ WaitInv
  BY DEF IInv
<1>3. /\ TypeOK' /\ OffsetsInv' /\ ModuleInv' /\ NoTornOffsets'
      /\ \A u \in Threads : pc'[u] = IF u = t THEN "close" ELSE pc[u]
      /\ UNCHANGED <<loaded, loader, sources>>
  BY <1>1, <1>2, AroundWait DEF Wait, TypeOK
<1>4. loader = "ended"
  BY <1>2 DEF Wait, LoaderInv
<1>5. LoaderInv' /\ WaitInv'
  BY <1>1, <1>2, <1>3, <1>4 DEF LoaderInv, WaitInv
<1> QED
  BY <1>3, <1>5 DEF IInv

\* The handle of the thread is closed.
LEMMA CloseStep ==
  ASSUME IInv, NEW t \in Threads, Close(t)
  PROVE  IInv'
<1>1. /\ pc[t] = "close" /\ Goto(t, "clear") /\ UNCHANGED initialized
      /\ hooksThread' = IF hooksThread = "open" THEN "closed" ELSE hooksThread
  BY DEF Close
<1>2. TypeOK /\ LoaderInv /\ WaitInv
  BY DEF IInv
<1>3. /\ TypeOK' /\ OffsetsInv' /\ ModuleInv' /\ NoTornOffsets'
      /\ \A u \in Threads : pc'[u] = IF u = t THEN "clear" ELSE pc[u]
      /\ UNCHANGED <<loaded, loader, sources>>
  BY <1>1, <1>2, AroundWait DEF Close, TypeOK
<1>4. loader = "ended"
  BY <1>1, <1>2 DEF LoaderInv
<1>5. LoaderInv' /\ WaitInv'
  BY <1>1, <1>2, <1>3, <1>4 DEF LoaderInv, WaitInv
<1> QED
  BY <1>3, <1>5 DEF IInv

\* The handle is forgotten.
LEMMA ClearStep ==
  ASSUME IInv, NEW t \in Threads, Clear(t)
  PROVE  IInv'
<1>1. pc[t] = "clear" /\ Goto(t, "set") /\ UNCHANGED initialized /\ hooksThread' = "null"
  BY DEF Clear
<1>2. TypeOK /\ LoaderInv /\ WaitInv
  BY DEF IInv
<1>3. /\ TypeOK' /\ OffsetsInv' /\ ModuleInv' /\ NoTornOffsets'
      /\ \A u \in Threads : pc'[u] = IF u = t THEN "set" ELSE pc[u]
      /\ UNCHANGED <<loaded, loader, sources>>
  BY <1>1, <1>2, AroundWait DEF Clear, TypeOK
<1>4. loader = "ended"
  BY <1>1, <1>2 DEF LoaderInv
<1>5. LoaderInv' /\ WaitInv'
  BY <1>1, <1>2, <1>3, <1>4 DEF LoaderInv, WaitInv
<1> QED
  BY <1>3, <1>5 DEF IInv

\* `initialized' is set, and the caller goes on.
LEMMA SetInitializedStep ==
  ASSUME IInv, NEW t \in Threads, SetInitialized(t)
  PROVE  IInv'
<1>1. pc[t] = "set" /\ Goto(t, "return") /\ UNCHANGED hooksThread /\ initialized' = TRUE
  BY DEF SetInitialized
<1>2. TypeOK /\ LoaderInv /\ WaitInv
  BY DEF IInv
<1>3. hooksThread = "null"
  BY <1>1, <1>2 DEF WaitInv
<1>4. /\ TypeOK' /\ OffsetsInv' /\ ModuleInv' /\ NoTornOffsets'
      /\ \A u \in Threads : pc'[u] = IF u = t THEN "return" ELSE pc[u]
      /\ UNCHANGED <<loaded, loader, sources>>
  BY <1>1, <1>2, <1>3, AroundWait DEF SetInitialized, TypeOK
<1>5. loader = "ended"
  BY <1>1, <1>2 DEF LoaderInv
<1>6. LoaderInv' /\ WaitInv'
  BY <1>1, <1>2, <1>4, <1>5 DEF LoaderInv, WaitInv
<1> QED
  BY <1>4, <1>6 DEF IInv
-----------------------------------------------------------------------------
\* A source comes to be after the wait is over.
LEMMA CreateStep ==
  ASSUME IInv, NEW t \in Threads, Create(t)
  PROVE  IInv'
<1>1. /\ pc[t] = "return" /\ call[t] = "create" /\ sources' = TRUE
      /\ pc' = [pc EXCEPT ![t] = "out"]
      /\ UNCHANGED <<launches, loaded, loader, offsets, hooksThread, initialized, call, info, hook>>
  BY DEF Create, Goto, moduleVars, loaderVars, processVars
<1>2. TypeOK'
  BY <1>1 DEF IInv, TypeOK
<1>3. \A u \in Threads : pc'[u] = IF u = t THEN "out" ELSE pc[u]
  BY <1>1 DEF IInv, TypeOK
<1>4. loader = "ended" /\ loaded
  BY <1>1 DEF IInv, LoaderInv, ModuleInv
<1>5. \A u \in Threads : pc[u] # "out" => call[u] # "unload"
  BY <1>1 DEF IInv, ModuleInv
<1>6. LoaderInv' /\ OffsetsInv' /\ WaitInv' /\ NoTornOffsets'
  BY <1>1, <1>3, <1>4 DEF IInv, LoaderInv, OffsetsInv, WaitInv, NoTornOffsets
<1>7. ModuleInv'
  BY <1>1, <1>3, <1>4, <1>5 DEF ModuleInv
<1> QED
  BY <1>2, <1>6, <1>7 DEF IInv

\* When the module is gone, by Unload or with OBS, so are the sources.
LEMMA GoneStep ==
  ASSUME IInv, Gone, sources' = FALSE, UNCHANGED <<launches, processVars>>
  PROVE  IInv'
<1>1. TypeOK'
  BY DEF IInv, TypeOK, Gone, Unmeasured, Outside, processVars
<1>2. LoaderInv' /\ OffsetsInv' /\ WaitInv' /\ ModuleInv' /\ NoTornOffsets'
  BY DEF IInv, LoaderInv, OffsetsInv, WaitInv, ModuleInv, NoTornOffsets, Gone, Unmeasured, Outside,
         processVars
<1> QED
  BY <1>1, <1>2 DEF IInv

\* The module is unloaded after it waited for its thread.
LEMMA UnloadStep ==
  ASSUME IInv, NEW t \in Threads, Unload(t)
  PROVE  IInv'
<1>1. sources' = FALSE
  BY DEF IInv, TypeOK, ModuleInv, Unload
<1> QED
  BY <1>1, GoneStep DEF Unload

\* The tick of a source: it opens the hook's info and hands the offsets over.
LEMMA SourceSteps ==
  ASSUME IInv, DestroySources \/ \E p \in Procs : InitHookInfo(p) \/ AttemptHook(p)
  PROVE  IInv'
<1>1. CASE DestroySources
  BY <1>1 DEF DestroySources, IInv, TypeOK, LoaderInv, OffsetsInv, WaitInv, ModuleInv, NoTornOffsets,
              moduleVars, loaderVars, threadVars, processVars
<1>2. ASSUME NEW p \in Procs, InitHookInfo(p)
      PROVE  IInv'
  <2>1. /\ sources /\ info' = [info EXCEPT ![p] = offsets[ArchOf[p]]]
        /\ hook' = [hook EXCEPT ![p] = IF @ = "none" THEN "attempt" ELSE @]
        /\ UNCHANGED <<launches, loaded, loader, offsets, hooksThread, initialized, pc, call, sources>>
    BY <1>2 DEF InitHookInfo, moduleVars, loaderVars, threadVars
  <2>2. loader = "ended"
    BY <2>1 DEF IInv, LoaderInv
  <2>3. offsets[ArchOf[p]] \in {"zero", "known"}
    <3>1. ArchOf[p] \in Archs /\ ArchOf[p] # "ended"
      BY PluginAssumption
    <3> QED
      BY <2>2, <3>1 DEF IInv, TypeOK, OffsetsInv
  <2>4. TypeOK' /\ NoTornOffsets'
    BY <2>1, <2>3 DEF IInv, TypeOK, NoTornOffsets
  <2>5. LoaderInv' /\ OffsetsInv' /\ WaitInv' /\ ModuleInv'
    BY <2>1 DEF IInv, LoaderInv, OffsetsInv, WaitInv, ModuleInv
  <2> QED
    BY <2>4, <2>5 DEF IInv
<1>3. ASSUME NEW p \in Procs, AttemptHook(p)
      PROVE  IInv'
  BY <1>3 DEF AttemptHook, IInv, TypeOK, LoaderInv, OffsetsInv, WaitInv, ModuleInv, NoTornOffsets,
              moduleVars, loaderVars, threadVars
<1> QED
  BY <1>1, <1>2, <1>3
-----------------------------------------------------------------------------
\* Every step keeps the invariant.
LEMMA Inductive ==
  ASSUME IInv, [Next]_vars
  PROVE  IInv'
<1>1. CASE UNCHANGED vars
  BY <1>1 DEF vars, moduleVars, loaderVars, threadVars, processVars, IInv, TypeOK, LoaderInv,
              OffsetsInv, WaitInv, ModuleInv, NoTornOffsets
<1>2. CASE ObsDies
  BY <1>2, GoneStep DEF ObsDies
<1>3. ASSUME NEW t \in Threads, WaitForHookInitialization(t)
      PROVE  IInv'
  BY <1>3, TestStep, WaitStep, CloseStep, ClearStep, SetInitializedStep DEF WaitForHookInitialization
<1> QED
  BY <1>1, <1>2, <1>3, ModuleLoadStep, InitHooksStep, CallStep, CreateStep, UnloadStep, SourceSteps
     DEF Next, TheEnd

\* IInv, which says who may still read or write the offsets, holds in every
\* reachable state (plugin-main.c 17-83).
THEOREM Invariance == Spec => []IInv
BY InitIInv, Inductive, PTL DEF Spec

\* The types are right, and `initialized' means that no handle is left.
THEOREM TypeCorrect == Spec => []TypeOK
<1>1. IInv => TypeOK
  BY DEF IInv
<1> QED
  BY <1>1, Invariance, PTL

\* No process is given offsets that are being written.
THEOREM OffsetsWhole == Spec => []NoTornOffsets
<1>1. IInv => NoTornOffsets
  BY DEF IInv
<1> QED
  BY <1>1, Invariance, PTL

\* The module is not unloaded while its thread runs in it.
THEOREM UnloadWaits == Spec => UnloadedIdle
<1>1. IInv => [\A t \in Threads : Unload(t) => loader = "ended"]_vars
  BY DEF IInv, LoaderInv, Unload
<1> QED
  BY <1>1, Invariance, PTL DEF UnloadedIdle
=============================================================================
