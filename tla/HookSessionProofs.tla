------------------------- MODULE HookSessionProofs -------------------------
(***************************************************************************)
(* Proofs about HookSession: its safety properties hold for any number of  *)
(* sources, of processes and of programs, any number of updates, and       *)
(* however often OBS dies.                                                 *)
(*                                                                         *)
(* A tick opens the objects of a process one by one, while that process    *)
(* may still be creating them, or die, and other sources do the same.  The *)
(* invariant says what holds between two of these calls: whose objects a   *)
(* source has open (SessionInv), that next_process_id and process_id agree *)
(* where both are used (IdInv), that what is open has been created         *)
(* (ObjectInv), and that the offsets precede the init event (OffsetInv).   *)
(***************************************************************************)
EXTENDS HookSession, TLAPS

USE ConstantsAssumption

\* A next_process_id left over is that of the last process found, and a source
\* that waits for a process to start has none, or stop_capture will end the wait.
IdInv ==
  \A s \in Sources :
    /\ nextId[s] # None => nextId[s] = processId[s]
    /\ waitStartup[s] /\ nextId[s] # None => phase[s] \in Initialising \cup {"stop", "close"}
    /\ phase[s] \in Initialising => nextId[s] # None

EventNames == {"restart", "stop", "init", "ready", "exit"}

\* What init_hook has opened so far is the process's.
Session(s) ==
  /\ active[s] => phase[s] \notin Initialising /\ \A n \in Handles : handle[s][n] = processId[s]
  /\ ~active[s] /\ phase[s] \in {"idle", "helper", "ready", "hook", "target"}
       => \A n \in Handles : handle[s][n] = None
  /\ phase[s] \in Initialising \ {"target"} =>
       handle[s]["target"] = processId[s] /\ handle[s]["keepalive"] = processId[s]
  /\ phase[s] \in {"info", "events", "signal"} =>
       handle[s]["mutex"] = processId[s] /\ handle[s]["event"] = processId[s]
  /\ phase[s] \in {"events", "signal"} => handle[s]["info"] = processId[s]
  /\ phase[s] = "signal" => \A n \in EventNames : handle[s][n] = processId[s]

SessionInv == \A s \in Sources : Session(s)

\* An object that a source has open was created, in this life of the process.
ObjectInv ==
  \A s \in Sources, n \in Objects, p \in Procs :
    handle[s][n] = p => life[p] # "new" /\ (Running(p) => Created[n] <= dll[p])

\* The init event comes after the offsets.
OffsetInv ==
  /\ \A p \in Procs : "init" \in signalled[p] => life[p] # "new" /\ (Running(p) => offsets[p])
  /\ \A s \in Sources, p \in Procs :
       phase[s] \in {"events", "signal"} /\ processId[s] = p /\ Running(p) => offsets[p]

IInv == TypeOK /\ IdInv /\ SessionInv /\ ObjectInv /\ OffsetInv /\ OffsetsBeforeHook

-----------------------------------------------------------------------------
(* The objects of the DLL. *)

\* The order in which the DLL creates its objects.
LEMMA ObjectFacts ==
  /\ Objects = {"restart", "stop", "ready", "exit", "init", "info", "mutex", "event"}
  /\ Loaded = 8 /\ Created["event"] = 8
  /\ \A n \in Objects : Created[n] \in 1..8
<1>1. Objects = {"restart", "stop", "ready", "exit", "init", "info", "mutex", "event"}
  BY DEF Objects, Created
<1>2. /\ Created["restart"] = 1 /\ Created["stop"] = 2 /\ Created["ready"] = 3
      /\ Created["exit"] = 4 /\ Created["init"] = 5 /\ Created["info"] = 6
      /\ Created["mutex"] = 7 /\ Created["event"] = 8
  BY DEF Created
<1>3. \A n \in Objects : Created[n] \in 1..8
  BY <1>1, <1>2
<1> QED
  BY <1>1, <1>2, <1>3 DEF Loaded
-----------------------------------------------------------------------------
(* What the helpers of the actions do. *)

\* Set signals one event of one process.
LEMMA SetFacts ==
  ASSUME TypeOK, NEW p \in Procs, NEW e \in Events, Set(p, e)
  PROVE  /\ signalled' \in [Procs -> SUBSET Events]
         /\ \A q \in Procs : signalled'[q] = IF q = p THEN signalled[q] \cup {e} ELSE signalled[q]
<1>1. signalled' = [signalled EXCEPT ![p] = @ \cup {e}] /\ signalled \in [Procs -> SUBSET Events]
  BY DEF Set, TypeOK
<1> QED
  BY <1>1

\* Goto moves one source to another phase.
LEMMA GotoFacts ==
  ASSUME TypeOK, NEW s \in Sources, NEW next \in Phases, Goto(s, next)
  PROVE  /\ phase' \in [Sources -> Phases] /\ back' \in [Sources -> Backs]
         /\ \A u \in Sources : phase'[u] = IF u = s THEN next ELSE phase[u]
<1>1. phase' = [phase EXCEPT ![s] = next] /\ phase \in [Sources -> Phases]
      /\ back' = back /\ back \in [Sources -> Backs]
  BY DEF Goto, TypeOK
<1> QED
  BY <1>1

\* Stop begins a stop_capture of one source, and keeps where its tick goes on.
LEMMA StopFacts ==
  ASSUME TypeOK, NEW s \in Sources, NEW next \in Backs, Stop(s, next)
  PROVE  /\ phase' \in [Sources -> Phases] /\ back' \in [Sources -> Backs]
         /\ \A u \in Sources : phase'[u] = IF u = s THEN "stop" ELSE phase[u]
<1>1. phase' = [phase EXCEPT ![s] = "stop"] /\ phase \in [Sources -> Phases]
      /\ back' = [back EXCEPT ![s] = next] /\ back \in [Sources -> Backs]
  BY DEF Stop, TypeOK
<1>2. "stop" \in Phases
  BY DEF Phases
<1> QED
  BY <1>1, <1>2

\* init_hook opens objects of the process, or fails.
Opens(s, names) ==
  /\ handle' \in [Sources -> [Handles -> Procs \cup {None}]]
  /\ \A u \in Sources, n \in Handles :
       handle'[u][n] = IF u = s /\ n \in names THEN processId[s] ELSE handle[u][n]

\* While init_hook runs, the two ids agree.
LEMMA InitialisingFacts ==
  ASSUME TypeOK, IdInv, NEW s \in Sources, phase[s] \in Initialising
  PROVE  nextId[s] \in Procs /\ processId[s] = nextId[s]
BY DEF TypeOK, IdInv

\* A step of init_hook goes on to the next one, or to stop_capture.
LEMMA OpensFacts ==
  ASSUME TypeOK, IdInv, NEW s \in Sources
  PROVE  /\ OpenTarget(s) => \/ InitFails(s)
                             \/ Opens(s, {"target", "keepalive"}) /\ Goto(s, "existing") /\ UNCHANGED signalled
         /\ ExistingHook(s) => Opens(s, {"restart"})
         /\ OpenMutex(s) => \/ InitFails(s)
                            \/ /\ Named(processId[s], "mutex") /\ Named(processId[s], "event")
                               /\ Opens(s, {"mutex", "event"}) /\ Goto(s, "info") /\ UNCHANGED signalled
         /\ OpenInfo(s) => \/ InitFails(s) /\ UNCHANGED offsets
                           \/ /\ Named(processId[s], "info") /\ offsets' = [offsets EXCEPT ![processId[s]] = TRUE]
                              /\ Opens(s, {"info"}) /\ Goto(s, "events") /\ UNCHANGED signalled
         /\ OpenEvents(s) => \/ InitFails(s)
                             \/ /\ \A n \in EventNames : Named(processId[s], n)
                                /\ signalled' = [signalled EXCEPT ![processId[s]] = @ \ {"stop"}]
                                /\ Opens(s, EventNames) /\ Goto(s, "signal")
<1>0. handle \in [Sources -> [Handles -> Procs \cup {None}]]
  BY DEF TypeOK
<1>1. ASSUME OpenTarget(s), ~InitFails(s)
      PROVE  Opens(s, {"target", "keepalive"}) /\ Goto(s, "existing") /\ UNCHANGED signalled
  <2>1. phase[s] = "target" /\ Goto(s, "existing") /\ UNCHANGED signalled
        /\ handle' = [handle EXCEPT ![s]["target"] = processId[s], ![s]["keepalive"] = processId[s]]
    BY <1>1 DEF OpenTarget
  <2>2. processId[s] \in Procs
    BY <2>1, InitialisingFacts DEF Initialising
  <2> QED
    BY <1>0, <2>1, <2>2 DEF Opens
<1>2. ASSUME ExistingHook(s)
      PROVE  Opens(s, {"restart"})
  <2>1. phase[s] = "existing" /\ handle' = [handle EXCEPT ![s]["restart"] = processId[s]]
    BY <1>2 DEF ExistingHook
  <2>2. processId[s] \in Procs
    BY <2>1, InitialisingFacts DEF Initialising
  <2> QED
    BY <1>0, <2>1, <2>2 DEF Opens
<1>3. ASSUME OpenMutex(s), ~InitFails(s)
      PROVE  /\ Named(processId[s], "mutex") /\ Named(processId[s], "event")
             /\ Opens(s, {"mutex", "event"}) /\ Goto(s, "info") /\ UNCHANGED signalled
  <2>1. phase[s] = "mutex" /\ Named(processId[s], "mutex") /\ Named(processId[s], "event")
        /\ Goto(s, "info") /\ UNCHANGED signalled
        /\ handle' = [handle EXCEPT ![s]["mutex"] = processId[s], ![s]["event"] = processId[s]]
    BY <1>3 DEF OpenMutex
  <2>2. processId[s] \in Procs
    BY <2>1, InitialisingFacts DEF Initialising
  <2> QED
    BY <1>0, <2>1, <2>2 DEF Opens
<1>4. ASSUME OpenInfo(s), ~(InitFails(s) /\ UNCHANGED offsets)
      PROVE  /\ Named(processId[s], "info") /\ offsets' = [offsets EXCEPT ![processId[s]] = TRUE]
             /\ Opens(s, {"info"}) /\ Goto(s, "events") /\ UNCHANGED signalled
  <2>1. phase[s] = "info" /\ Named(processId[s], "info") /\ offsets' = [offsets EXCEPT ![processId[s]] = TRUE]
        /\ Goto(s, "events") /\ UNCHANGED signalled
        /\ handle' = [handle EXCEPT ![s]["info"] = processId[s]]
    BY <1>4 DEF OpenInfo
  <2>2. processId[s] \in Procs
    BY <2>1, InitialisingFacts DEF Initialising
  <2> QED
    BY <1>0, <2>1, <2>2 DEF Opens
<1>5. ASSUME OpenEvents(s), ~InitFails(s)
      PROVE  /\ \A n \in EventNames : Named(processId[s], n)
             /\ signalled' = [signalled EXCEPT ![processId[s]] = @ \ {"stop"}]
             /\ Opens(s, EventNames) /\ Goto(s, "signal")
  <2>1. phase[s] = "events" /\ (\A n \in EventNames : Named(processId[s], n))
        /\ signalled' = [signalled EXCEPT ![processId[s]] = @ \ {"stop"}]
        /\ handle' = [handle EXCEPT ![s] = [n \in Handles |-> IF n \in EventNames THEN processId[s] ELSE @[n]]]
        /\ Goto(s, "signal")
    <3>1. EventNames = {"restart", "stop", "init", "ready", "exit"}
      BY DEF EventNames
    <3> QED
      BY <1>5, <3>1 DEF OpenEvents
  <2>2. processId[s] \in Procs
    BY <2>1, InitialisingFacts DEF Initialising
  <2> QED
    BY <1>0, <2>1, <2>2 DEF Opens
<1> QED
  BY <1>1, <1>2, <1>3, <1>4, <1>5
-----------------------------------------------------------------------------
(* Types. *)

\* The types are right at first.
LEMMA TypeInit == Init => TypeOK
<1> SUFFICES ASSUME Init PROVE TypeOK
  OBVIOUS
<1>1. 0 \in 0..Loaded /\ 0 \in 0..MaxUpdates /\ 0 \in 0..MaxCrashes
  BY ObjectFacts
<1>2. NoHandles \in [Handles -> Procs \cup {None}]
  BY DEF NoHandles
<1>3. "idle" \in Phases /\ "idle" \in Backs
  BY DEF Phases, Backs
<1> QED
  BY <1>1, <1>2, <1>3 DEF Init, TypeOK

\* The DLL, the renderers, and the starts and deaths of processes.
LEMMA TypeProcess ==
  ASSUME TypeOK, NEW p \in Procs, Dll(p) \/ CaptureCheck(p) \/ ProcStarts(p) \/ ProcDies(p)
  PROVE  TypeOK'
<1> USE DEF processVars, idVars, helperVars, bounds
<1>0. Loaded \in Nat /\ "restart" \in Events /\ "ready" \in Events
  BY ObjectFacts DEF Events
<1>1. CASE DllMain(p)
  <2>1. CASE dll[p] < Loaded
    <3>1. dll' = [dll EXCEPT ![p] = dll[p] + 1] /\ dll \in [Procs -> 0..Loaded]
      BY <1>1, <2>1 DEF DllMain, TypeOK
    <3>2. dll[p] + 1 \in 0..Loaded
      BY <1>0, <2>1, <3>1
    <3>3. dll' \in [Procs -> 0..Loaded]
      BY <3>1, <3>2
    <3> QED
      BY <1>1, <2>1, <3>3 DEF DllMain, TypeOK
  <2>2. CASE ~(dll[p] < Loaded)
    BY <1>1, <2>2 DEF DllMain, TypeOK
  <2> QED
    BY <2>1, <2>2
<1>2. CASE InitHook(p)
  <2>1. signalled' \in [Procs -> SUBSET Events]
    BY <1>0, <1>2, SetFacts DEF InitHook
  <2> QED
    BY <1>2, <2>1 DEF InitHook, TypeOK
<1>3. CASE CaptureLoop(p)
  BY <1>3 DEF CaptureLoop, TypeOK
<1>4. CASE AttemptHook(p)
  BY <1>4 DEF AttemptHook, TypeOK
<1>5. ASSUME NEW look \in BOOLEAN, CheckStop(p, look) PROVE TypeOK'
  <2>1. CASE hookActive[p]
    <3>1. PICK stopping \in BOOLEAN :
            /\ hookActive' = [hookActive EXCEPT ![p] = ~stopping]
            /\ signalled' = [signalled EXCEPT ![p] =
                               (@ \ {"stop"}) \cup (IF stopping THEN {"restart"} ELSE {})]
      BY <1>5, <2>1 DEF CheckStop
    <3>2. signalled' \in [Procs -> SUBSET Events] /\ hookActive' \in [Procs -> BOOLEAN]
      BY <1>0, <3>1 DEF TypeOK
    <3> QED
      BY <1>5, <3>2 DEF CheckStop, TypeOK
  <2>2. CASE ~hookActive[p]
    BY <1>5, <2>2 DEF CheckStop, TypeOK
  <2> QED
    BY <2>1, <2>2
<1>6. CASE CheckRestart(p)
  BY <1>6 DEF CheckRestart, TypeOK
<1>7. CASE CheckInit(p)
  <2>1. signalled' \in [Procs -> SUBSET Events]
    <3>1. Set(p, "ready") \/ UNCHANGED signalled
      BY <1>7 DEF CheckInit
    <3> QED
      BY <1>0, <3>1, SetFacts DEF TypeOK
  <2>2. hookActive' \in [Procs -> BOOLEAN]
    BY <1>7 DEF CheckInit, TypeOK
  <2> QED
    BY <1>7, <2>1, <2>2 DEF CheckInit, TypeOK
<1>8. CASE CheckInitFails(p)
  <2>1. signalled' \in [Procs -> SUBSET Events]
    BY <1>0, <1>8, SetFacts DEF CheckInitFails
  <2> QED
    BY <1>8, <2>1 DEF CheckInitFails, TypeOK
<1>9. CASE ProcStarts(p)
  BY <1>9 DEF ProcStarts, TypeOK
<1>10. CASE ProcDies(p)
  <2>1. dll' \in [Procs -> 0..Loaded]
    BY <1>0, <1>10 DEF ProcDies, TypeOK
  <2> QED
    BY <1>10, <2>1 DEF ProcDies, TypeOK
<1> QED
  BY <1>1, <1>2, <1>3, <1>4, <1>5, <1>6, <1>7, <1>8, <1>9, <1>10 DEF Dll, CaptureCheck

\* The tick, up to the try.
LEMMA TypeTick ==
  ASSUME TypeOK, NEW s \in Sources,
         TickStop(s) \/ TickHelper(s) \/ TickReady(s) \/ TickReadyFails(s) \/ TickTarget(s)
           \/ StopCapture(s)
  PROVE  TypeOK'
<1> USE DEF processVars, idVars, helperVars, bounds
<1>0. /\ {"idle", "helper", "ready", "hook", "stop", "close"} \subseteq Phases
      /\ {"idle", "helper", "hook"} \subseteq Backs /\ "stop" \in Events
  BY DEF Phases, Backs, Events
<1>1. CASE TickStop(s)
  <2>1. Stop(s, "helper") \/ Goto(s, "helper")
    BY <1>1 DEF TickStop
  <2>2. phase' \in [Sources -> Phases] /\ back' \in [Sources -> Backs]
    BY <1>0, <2>1, GotoFacts, StopFacts
  <2>3. signalled' \in [Procs -> SUBSET Events]
    BY <1>1 DEF TickStop, TypeOK
  <2> QED
    BY <1>1, <2>2, <2>3 DEF TickStop, TypeOK
<1>2. CASE TickHelper(s)
  <2>1. error' \in [Sources -> BOOLEAN] /\ helper' \in [Sources -> {"none", "running", "ok", "failed"}]
    BY <1>2 DEF TickHelper, TypeOK
  <2>2. phase' \in [Sources -> Phases] /\ back' \in [Sources -> Backs]
    BY <1>0, <1>2, GotoFacts DEF TickHelper
  <2> QED
    BY <1>2, <2>1, <2>2 DEF TickHelper, TypeOK
<1>3. CASE TickReady(s)
  <2>1. signalled' \in [Procs -> SUBSET Events] /\ capturing' \in [Sources -> BOOLEAN]
    <3>1. CASE HookReady(s)
      <4>1. /\ signalled' = [signalled EXCEPT ![handle[s]["ready"]] = @ \ {"ready"}]
            /\ capturing' = [capturing EXCEPT ![s] = @ \/ MapExists(s, handle[s]["ready"])]
        BY <1>3, <3>1 DEF TickReady
      <4>2. signalled' \in [Procs -> SUBSET Events]
        BY <4>1 DEF TypeOK
      <4>3. capturing' \in [Sources -> BOOLEAN]
        BY <4>1 DEF TypeOK
      <4> QED
        BY <4>2, <4>3
    <3>2. CASE ~HookReady(s)
      BY <1>3, <3>2 DEF TickReady, TypeOK
    <3> QED
      BY <3>1, <3>2
  <2>2. phase' \in [Sources -> Phases] /\ back' \in [Sources -> Backs]
    BY <1>0, <1>3, GotoFacts DEF TickReady
  <2> QED
    BY <1>3, <2>1, <2>2 DEF TickReady, TypeOK
<1>4. CASE TickReadyFails(s)
  <2>1. Stop(s, "hook") \/ Goto(s, "hook")
    BY <1>4 DEF TickReadyFails
  <2>2. phase' \in [Sources -> Phases] /\ back' \in [Sources -> Backs]
    BY <1>0, <2>1, GotoFacts, StopFacts
  <2> QED
    BY <1>4, <2>2 DEF TickReadyFails, TypeOK
<1>5. CASE TickTarget(s)
  <2>1. Stop(s, "idle") \/ Goto(s, "idle")
    BY <1>5 DEF TickTarget
  <2>2. phase' \in [Sources -> Phases] /\ back' \in [Sources -> Backs]
    BY <1>0, <2>1, GotoFacts, StopFacts
  <2> QED
    BY <1>5, <2>2 DEF TickTarget, TypeOK
<1>6. CASE StopSignal(s)
  <2>1. signalled' \in [Procs -> SUBSET Events]
    <3>1. \/ handle[s]["stop"] # None /\ Set(handle[s]["stop"], "stop")
          \/ UNCHANGED signalled
      BY <1>6 DEF StopSignal
    <3>2. handle[s]["stop"] \in Procs \cup {None}
      BY ObjectFacts DEF TypeOK, Handles
    <3> QED
      BY <1>0, <3>1, <3>2, SetFacts DEF TypeOK
  <2>2. phase' \in [Sources -> Phases] /\ back' \in [Sources -> Backs]
    BY <1>0, <1>6, GotoFacts DEF StopSignal
  <2> QED
    BY <1>6, <2>1, <2>2 DEF StopSignal, TypeOK
<1>7. CASE StopClose(s)
  <2>1. handle' \in [Sources -> [Handles -> Procs \cup {None}]]
    BY <1>7 DEF StopClose, NoHandles, TypeOK
  <2>2. phase' \in [Sources -> Phases] /\ back' \in [Sources -> Backs]
    BY <1>7 DEF StopClose, TypeOK, Phases, Backs
  <2> QED
    BY <1>7, <2>1, <2>2 DEF StopClose, TypeOK
<1> QED
  BY <1>1, <1>2, <1>3, <1>4, <1>5, <1>6, <1>7 DEF StopCapture

\* A try, as far as init_hook.
LEMMA TryFacts ==
  ASSUME TypeOK, NEW s \in Sources, TryHook(s)
  PROVE  /\ phase[s] = "hook" /\ ~active[s]
         /\ phase' \in [Sources -> Phases] /\ back' \in [Sources -> Backs]
         /\ \A u \in Sources : phase'[u] = IF u = s THEN IF nextId'[s] # None THEN "target" ELSE "idle"
                                            ELSE phase[u]
         /\ \/ \E p \in Procs :
                /\ exe' = [exe EXCEPT ![s] = p] /\ processId' = [processId EXCEPT ![s] = p]
                /\ nextId' = [nextId EXCEPT ![s] = p] \/ (waitStartup[s] /\ UNCHANGED nextId)
                /\ waitStartup' = [waitStartup EXCEPT ![s] = FALSE]
            \/ waitStartup' = [waitStartup EXCEPT ![s] = TRUE] /\ UNCHANGED <<exe, processId, nextId>>
<1>1. \A p \in Selected(s) : p \in Procs
  BY DEF Selected, TryHook, TypeOK
<1>2. "target" \in Phases /\ "idle" \in Phases
  BY DEF Phases, Initialising
<1>3. Goto(s, IF nextId'[s] # None THEN "target" ELSE "idle") /\ phase[s] = "hook" /\ ~active[s]
  BY DEF TryHook
<1>4. /\ phase' \in [Sources -> Phases] /\ back' \in [Sources -> Backs]
      /\ \A u \in Sources : phase'[u] = IF u = s THEN IF nextId'[s] # None THEN "target" ELSE "idle"
                                         ELSE phase[u]
  BY <1>2, <1>3, GotoFacts
<1>5. CASE Selected(s) = {}
  BY <1>3, <1>4, <1>5 DEF TryHook
<1>6. CASE Selected(s) # {}
  <2>1. PICK p \in Selected(s) : \E waiting \in BOOLEAN :
          /\ waiting => waitStartup[s]
          /\ exe' = [exe EXCEPT ![s] = p] /\ processId' = [processId EXCEPT ![s] = p]
          /\ nextId' = [nextId EXCEPT ![s] = IF waiting THEN @ ELSE p]
          /\ waitStartup' = [waitStartup EXCEPT ![s] = FALSE]
    BY <1>6 DEF TryHook
  <2>2. nextId' = [nextId EXCEPT ![s] = p] \/ (waitStartup[s] /\ nextId' = nextId)
    <3>1. PICK waiting \in BOOLEAN : /\ waiting => waitStartup[s]
                                    /\ nextId' = [nextId EXCEPT ![s] = IF waiting THEN @ ELSE p]
      BY <2>1
    <3>2. CASE waiting
      BY <3>1, <3>2 DEF TypeOK
    <3>3. CASE ~waiting
      BY <3>1, <3>3
    <3> QED
      BY <3>2, <3>3
  <2>3. p \in Procs
    BY <1>1
  <2> QED
    BY <1>3, <1>4, <2>1, <2>2, <2>3
<1> QED
  BY <1>5, <1>6

\* A try, and init_hook.
LEMMA TypeTry ==
  ASSUME TypeOK, IdInv, NEW s \in Sources, TryHook(s) \/ InitSession(s)
  PROVE  TypeOK'
<1> USE DEF processVars, idVars, helperVars, bounds
<1>0. /\ {"existing", "mutex", "info", "events", "signal", "idle", "stop"} \subseteq Phases
      /\ "idle" \in Backs /\ {"restart", "init"} \subseteq Events
  BY DEF Phases, Initialising, Backs, Events
<1>F. ASSUME InitFails(s)
      PROVE  /\ phase' \in [Sources -> Phases] /\ back' \in [Sources -> Backs]
             /\ UNCHANGED <<handle, signalled>>
  BY <1>0, <1>F, StopFacts DEF InitFails
<1>T. TypeOK
  OBVIOUS
<1>1. CASE TryHook(s)
  <2>1. /\ exe' \in [Sources -> Procs \cup {None}] /\ processId' \in [Sources -> Procs \cup {None}]
        /\ nextId' \in [Sources -> Procs \cup {None}] /\ waitStartup' \in [Sources -> BOOLEAN]
        /\ phase' \in [Sources -> Phases] /\ back' \in [Sources -> Backs]
    <3>1. /\ exe \in [Sources -> Procs \cup {None}] /\ processId \in [Sources -> Procs \cup {None}]
          /\ nextId \in [Sources -> Procs \cup {None}] /\ waitStartup \in [Sources -> BOOLEAN]
      BY DEF TypeOK
    <3>2. phase' \in [Sources -> Phases] /\ back' \in [Sources -> Backs]
      BY <1>1, TryFacts
    <3>3. CASE waitStartup' = [waitStartup EXCEPT ![s] = TRUE] /\ UNCHANGED <<exe, processId, nextId>>
      BY <3>1, <3>2, <3>3
    <3>4. ASSUME NEW p \in Procs,
                 exe' = [exe EXCEPT ![s] = p], processId' = [processId EXCEPT ![s] = p],
                 nextId' = [nextId EXCEPT ![s] = p] \/ (waitStartup[s] /\ UNCHANGED nextId),
                 waitStartup' = [waitStartup EXCEPT ![s] = FALSE]
          PROVE  /\ exe' \in [Sources -> Procs \cup {None}] /\ processId' \in [Sources -> Procs \cup {None}]
                 /\ nextId' \in [Sources -> Procs \cup {None}] /\ waitStartup' \in [Sources -> BOOLEAN]
      BY <3>1, <3>4
    <3> QED
      BY <1>1, <3>2, <3>3, <3>4, TryFacts
  <2>2. found' \in [Sources -> {"known", "missing", "fresh"}]
    <3>1. \/ found' = [found EXCEPT ![s] = "missing"] \/ found' = [found EXCEPT ![s] = "fresh"]
          \/ found' = [found EXCEPT ![s] = "known"]
      <4>1. CASE Selected(s) = {}
        BY <1>1, <4>1 DEF TryHook
      <4>2. CASE Selected(s) # {}
        <5>1. found' = [found EXCEPT ![s] = IF @ = "missing" THEN "fresh" ELSE "known"]
          BY <1>1, <4>2 DEF TryHook
        <5> QED
          BY <5>1
      <4> QED
        BY <4>1, <4>2
    <3> QED
      BY <3>1 DEF TypeOK
  <2> QED
    BY <1>1, <2>1, <2>2 DEF TryHook, TypeOK
<1>2. CASE OpenTarget(s)
  <2>1. /\ handle' \in [Sources -> [Handles -> Procs \cup {None}]] /\ UNCHANGED signalled
        /\ phase' \in [Sources -> Phases] /\ back' \in [Sources -> Backs]
    BY <1>0, <1>F, <1>2, <1>T, OpensFacts, GotoFacts DEF Opens, TypeOK
  <2> QED
    BY <1>2, <2>1 DEF OpenTarget, TypeOK
<1>3. CASE ExistingHook(s)
  <2>1. processId[s] \in Procs /\ Set(processId[s], "restart") /\ Goto(s, "mutex")
    BY <1>3, InitialisingFacts DEF ExistingHook, Initialising
  <2>2. /\ handle' \in [Sources -> [Handles -> Procs \cup {None}]]
        /\ signalled' \in [Procs -> SUBSET Events]
        /\ phase' \in [Sources -> Phases] /\ back' \in [Sources -> Backs]
    BY <1>0, <1>3, <2>1, OpensFacts, GotoFacts, SetFacts DEF Opens
  <2> QED
    BY <1>3, <2>2 DEF ExistingHook, TypeOK
<1>4. CASE Inject(s)
  <2>1. nextId[s] \in Procs
    BY <1>4, InitialisingFacts DEF Inject, Initialising
  <2>2. phase' \in [Sources -> Phases] /\ back' \in [Sources -> Backs]
    BY <1>0, <1>4, GotoFacts DEF Inject
  <2> QED
    BY <1>4, <2>1, <2>2 DEF Inject, TypeOK
<1>5. CASE InjectFails(s)
  BY <1>F, <1>5 DEF InjectFails, TypeOK
<1>6. CASE OpenMutex(s)
  <2>1. /\ handle' \in [Sources -> [Handles -> Procs \cup {None}]] /\ UNCHANGED signalled
        /\ phase' \in [Sources -> Phases] /\ back' \in [Sources -> Backs]
    BY <1>0, <1>F, <1>6, <1>T, OpensFacts, GotoFacts DEF Opens, TypeOK
  <2> QED
    BY <1>6, <2>1 DEF OpenMutex, TypeOK
<1>7. CASE OpenInfo(s)
  <2>1. /\ handle' \in [Sources -> [Handles -> Procs \cup {None}]] /\ UNCHANGED signalled
        /\ phase' \in [Sources -> Phases] /\ back' \in [Sources -> Backs]
        /\ offsets' \in [Procs -> BOOLEAN]
    <3>1. CASE InitFails(s) /\ UNCHANGED offsets
      BY <1>F, <3>1 DEF TypeOK
    <3>2. CASE ~(InitFails(s) /\ UNCHANGED offsets)
      <4>1. /\ offsets' = [offsets EXCEPT ![processId[s]] = TRUE]
            /\ Opens(s, {"info"}) /\ Goto(s, "events") /\ UNCHANGED signalled
        BY <1>7, <3>2, OpensFacts
      <4>2. offsets' \in [Procs -> BOOLEAN]
        BY <4>1 DEF TypeOK
      <4> QED
        BY <1>0, <4>1, <4>2, GotoFacts DEF Opens
    <3> QED
      BY <3>1, <3>2
  <2> QED
    BY <1>7, <2>1 DEF OpenInfo, TypeOK
<1>8. CASE OpenEvents(s)
  <2>1. /\ handle' \in [Sources -> [Handles -> Procs \cup {None}]]
        /\ signalled' \in [Procs -> SUBSET Events]
        /\ phase' \in [Sources -> Phases] /\ back' \in [Sources -> Backs]
    <3>1. CASE InitFails(s)
      BY <1>F, <3>1 DEF TypeOK
    <3>2. CASE ~InitFails(s)
      <4>1. /\ signalled' = [signalled EXCEPT ![processId[s]] = @ \ {"stop"}]
            /\ Opens(s, EventNames) /\ Goto(s, "signal")
        BY <1>8, <3>2, OpensFacts
      <4>2. signalled' \in [Procs -> SUBSET Events]
        BY <4>1 DEF TypeOK
      <4> QED
        BY <1>0, <4>1, <4>2, GotoFacts DEF Opens
    <3> QED
      BY <3>1, <3>2
  <2> QED
    BY <1>8, <2>1 DEF OpenEvents, TypeOK
<1>9. CASE SignalInit(s)
  <2>1. signalled' \in [Procs -> SUBSET Events]
    BY <1>0, <1>9 DEF SignalInit, Set, TypeOK
  <2>2. phase' \in [Sources -> Phases] /\ back' \in [Sources -> Backs]
    BY <1>0, <1>9, GotoFacts DEF SignalInit
  <2> QED
    BY <1>9, <2>1, <2>2 DEF SignalInit, TypeOK
<1> QED
  BY <1>1, <1>2, <1>3, <1>4, <1>5, <1>6, <1>7, <1>8, <1>9 DEF InitSession

\* The injector, the user, and the death of OBS.
LEMMA TypeOther ==
  ASSUME TypeOK,
         \/ \E s \in Sources : \/ HelperLoads(s) \/ HelperFails(s)
                              \/ \E p \in Procs \cup {None} : Update(s, p)
         \/ ObsDies
  PROVE  TypeOK'
<1> USE DEF processVars, idVars, helperVars, bounds
<1>0. "idle" \in Phases /\ {"idle", "update"} \subseteq Backs
  BY DEF Phases, Backs
<1>1. ASSUME NEW s \in Sources, HelperLoads(s) PROVE TypeOK'
  BY <1>1 DEF HelperLoads, TypeOK
<1>2. ASSUME NEW s \in Sources, HelperFails(s) PROVE TypeOK'
  <2>1. loads' \subseteq Procs
    BY <1>2 DEF HelperFails, TypeOK
  <2> QED
    BY <1>2, <2>1 DEF HelperFails, TypeOK
<1>3. ASSUME NEW s \in Sources, NEW p \in Procs \cup {None}, Update(s, p) PROVE TypeOK'
  <2>1. updates' \in 0..MaxUpdates
    BY <1>3 DEF Update, TypeOK
  <2>2. Stop(s, "update") \/ Goto(s, "idle")
    BY <1>3 DEF Update
  <2>3. phase' \in [Sources -> Phases] /\ back' \in [Sources -> Backs]
    BY <1>0, <2>2, GotoFacts, StopFacts
  <2> QED
    BY <1>3, <2>1, <2>3 DEF Update, TypeOK
<1>4. CASE ObsDies
  <2>1. crashes' \in 0..MaxCrashes
    BY <1>4 DEF ObsDies, TypeOK
  <2>2. handle' \in [Sources -> [Handles -> Procs \cup {None}]]
    BY <1>4 DEF ObsDies, NoHandles
  <2> QED
    BY <1>0, <1>4, <2>1, <2>2 DEF ObsDies, TypeOK
<1> QED
  BY <1>1, <1>2, <1>3, <1>4

\* Every step keeps the types.
LEMMA TypeStep ==
  ASSUME TypeOK, IdInv, [Next]_vars
  PROVE  TypeOK'
<1>1. CASE UNCHANGED vars
  BY <1>1 DEF vars, processVars, idVars, helperVars, bounds, TypeOK
<1>2. CASE Next
  BY <1>2, TypeProcess, TypeTick, TypeTry, TypeOther DEF Next, Tick
<1> QED
  BY <1>1, <1>2
-----------------------------------------------------------------------------
(* The two ids. *)

\* Actions that leave the ids and the phases of all sources alone.
LEMMA IdsApart ==
  ASSUME IdInv, UNCHANGED <<processId, nextId, waitStartup, phase>>
  PROVE  IdInv'
BY DEF IdInv

\* Every step keeps what the phases say of the two ids.
LEMMA IdStep ==
  ASSUME TypeOK, IdInv, SessionInv, [Next]_vars
  PROVE  IdInv'
<1> USE DEF processVars, idVars, helperVars, bounds
<1>L. /\ Initialising = {"target", "existing", "mutex", "info", "events", "signal"}
      /\ {"idle", "helper", "ready", "hook", "stop", "close"} \cup Initialising = Phases
      /\ Backs = {"idle", "helper", "hook", "update"}
  BY DEF Phases, Backs, Initialising
<1>M. ASSUME NEW s \in Sources, NEW next \in Phases, UNCHANGED <<processId, nextId>>,
             \A u \in Sources : phase'[u] = IF u = s THEN next ELSE phase[u],
             \A u \in Sources : waitStartup'[u] => waitStartup[u],
             \/ next \notin Initialising /\ phase[s] \notin Initialising \cup {"stop", "close"}
             \/ next \in Initialising /\ phase[s] \in Initialising
             \/ next \in {"stop", "close"}
             \/ next \notin Initialising /\ ~waitStartup'[s]
      PROVE  IdInv'
  BY <1>M, <1>L DEF IdInv
<1>1. ASSUME NEW p \in Procs, Dll(p) \/ CaptureCheck(p) \/ ProcStarts(p) \/ ProcDies(p)
      PROVE  IdInv'
  BY <1>1, IdsApart DEF Dll, DllMain, InitHook, CaptureLoop, AttemptHook, CaptureCheck, CheckStop,
       CheckRestart, CheckInit, CheckInitFails, ProcStarts, ProcDies
<1>2. ASSUME NEW s \in Sources, HelperLoads(s) \/ HelperFails(s)
      PROVE  IdInv'
  BY <1>2, IdsApart DEF HelperLoads, HelperFails
<1>3. ASSUME NEW s \in Sources, TickStop(s)
      PROVE  IdInv'
  <2>1. Stop(s, "helper") \/ Goto(s, "helper")
    BY <1>3 DEF TickStop
  <2>2. phase[s] = "idle" /\ UNCHANGED <<processId, nextId, waitStartup>>
    BY <1>3 DEF TickStop
  <2> QED
    BY <1>L, <1>M, <2>1, <2>2, GotoFacts, StopFacts
<1>4. ASSUME NEW s \in Sources, TickHelper(s) \/ TickReady(s)
      PROVE  IdInv'
  <2>1. \/ phase[s] = "helper" /\ Goto(s, "ready")
        \/ phase[s] = "ready" /\ Goto(s, "hook")
    BY <1>4 DEF TickHelper, TickReady
  <2>2. UNCHANGED <<processId, nextId, waitStartup>>
    BY <1>4 DEF TickHelper, TickReady
  <2> QED
    BY <1>L, <1>M, <2>1, <2>2, GotoFacts
<1>5. ASSUME NEW s \in Sources, TickReadyFails(s) \/ TickTarget(s)
      PROVE  IdInv'
  <2>1. /\ phase[s] \in {"ready", "hook"}
        /\ \E next \in {"hook", "idle"} : Stop(s, next) \/ Goto(s, next)
    BY <1>5 DEF TickReadyFails, TickTarget
  <2>2. UNCHANGED <<processId, nextId, waitStartup>>
    BY <1>5 DEF TickReadyFails, TickTarget
  <2> QED
    BY <1>L, <1>M, <2>1, <2>2, GotoFacts, StopFacts
<1>6. ASSUME NEW s \in Sources, StopSignal(s)
      PROVE  IdInv'
  <2>1. Goto(s, "close") /\ UNCHANGED <<processId, nextId, waitStartup>>
    BY <1>6 DEF StopSignal
  <2> QED
    BY <1>L, <1>M, <2>1, GotoFacts
<1>7. ASSUME NEW s \in Sources, StopClose(s)
      PROVE  IdInv'
  <2>1. /\ phase' = [phase EXCEPT ![s] = IF back[s] = "update" THEN "idle" ELSE back[s]]
        /\ waitStartup' = [waitStartup EXCEPT ![s] = FALSE]
        /\ UNCHANGED <<processId, nextId>>
    BY <1>7 DEF StopClose
  <2>2. PICK next \in {"idle", "helper", "hook"} :
          \A u \in Sources : phase'[u] = IF u = s THEN next ELSE phase[u]
    BY <1>L, <2>1 DEF TypeOK
  <2>3. \A u \in Sources : waitStartup'[u] = IF u = s THEN FALSE ELSE waitStartup[u]
    BY <2>1 DEF TypeOK
  <2>4. next \in Phases /\ next \notin Initialising /\ ~waitStartup'[s]
    BY <1>L, <2>3
  <2>5. \A u \in Sources : waitStartup'[u] => waitStartup[u]
    BY <2>3
  <2> QED
    BY <1>M, <2>1, <2>2, <2>4, <2>5
<1>8. ASSUME NEW s \in Sources, TryHook(s)
      PROVE  IdInv'
  <2>1. /\ phase[s] = "hook"
        /\ \A u \in Sources : phase'[u] = IF u = s THEN IF nextId'[s] # None THEN "target" ELSE "idle"
                                           ELSE phase[u]
    BY <1>8, TryFacts
  <2>2. waitStartup[s] => nextId[s] = None
    BY <1>L, <2>1 DEF IdInv
  <2>3. CASE waitStartup' = [waitStartup EXCEPT ![s] = TRUE] /\ UNCHANGED <<exe, processId, nextId>>
    BY <1>L, <2>1, <2>3 DEF IdInv, TypeOK
  <2>4. ASSUME NEW p \in Procs,
               processId' = [processId EXCEPT ![s] = p],
               nextId' = [nextId EXCEPT ![s] = p] \/ (waitStartup[s] /\ UNCHANGED nextId),
               waitStartup' = [waitStartup EXCEPT ![s] = FALSE]
        PROVE  IdInv'
    <3>1. \A u \in Sources : /\ processId'[u] = IF u = s THEN p ELSE processId[u]
                             /\ waitStartup'[u] = IF u = s THEN FALSE ELSE waitStartup[u]
                             /\ u # s => nextId'[u] = nextId[u]
      BY <2>4 DEF TypeOK
    <3>2. nextId'[s] \in {p, None}
      BY <2>2, <2>4 DEF TypeOK
    <3> QED
      BY <1>L, <2>1, <3>1, <3>2 DEF IdInv
  <2> QED
    BY <1>8, <2>3, <2>4, TryFacts
<1>9. ASSUME NEW s \in Sources, InitSession(s), ~SignalInit(s)
      PROVE  IdInv'
  <2>1. phase[s] \in Initialising /\ UNCHANGED <<processId, nextId, waitStartup>>
    BY <1>L, <1>9 DEF InitSession, OpenTarget, ExistingHook, Inject, InjectFails, OpenMutex, OpenInfo,
                   OpenEvents
  <2>2. \/ InitFails(s)
        \/ \E next \in {"existing", "mutex", "info", "events", "signal"} : Goto(s, next)
    BY <1>9, OpensFacts DEF InitSession, ExistingHook, Inject, InjectFails
  <2>3. InitFails(s) => Stop(s, "idle")
    BY DEF InitFails
  <2> QED
    BY <1>L, <1>M, <2>1, <2>2, <2>3, GotoFacts, StopFacts
<1>10. ASSUME NEW s \in Sources, SignalInit(s)
       PROVE  IdInv'
  <2>1. /\ Goto(s, "idle") /\ UNCHANGED waitStartup
        /\ processId' = [processId EXCEPT ![s] = nextId[s]] /\ nextId' = [nextId EXCEPT ![s] = None]
    BY <1>10 DEF SignalInit
  <2>2. \A u \in Sources : phase'[u] = IF u = s THEN "idle" ELSE phase[u]
    BY <1>L, <2>1, GotoFacts
  <2>3. \A u \in Sources : /\ nextId'[u] = IF u = s THEN None ELSE nextId[u]
                           /\ u # s => processId'[u] = processId[u]
    BY <2>1 DEF TypeOK
  <2> QED
    BY <1>L, <2>1, <2>2, <2>3 DEF IdInv
<1>11. ASSUME NEW s \in Sources, NEW p \in Procs \cup {None}, Update(s, p)
       PROVE  IdInv'
  <2>1. /\ phase[s] = "idle" /\ waitStartup' = [waitStartup EXCEPT ![s] = FALSE]
        /\ UNCHANGED <<processId, nextId>> /\ (Stop(s, "update") \/ Goto(s, "idle"))
    BY <1>11 DEF Update
  <2>2. \A u \in Sources : waitStartup'[u] = IF u = s THEN FALSE ELSE waitStartup[u]
    BY <2>1 DEF TypeOK
  <2> QED
    BY <1>L, <1>M, <2>1, <2>2, GotoFacts, StopFacts
<1>12. CASE ObsDies
  BY <1>L, <1>12 DEF ObsDies, IdInv
<1>13. CASE UNCHANGED vars
  BY <1>13, IdsApart DEF vars
<1> QED
  BY <1>1, <1>2, <1>3, <1>4, <1>5, <1>6, <1>7, <1>8, <1>9, <1>10, <1>11, <1>12, <1>13
     DEF Next, Tick, StopCapture
-----------------------------------------------------------------------------
(* What a source has open. *)

\* Every step keeps what the phases say of the handles.
LEMMA SessionStep ==
  ASSUME TypeOK, IdInv, SessionInv, [Next]_vars
  PROVE  SessionInv'
<1> USE DEF processVars, idVars, helperVars, bounds
<1>L. /\ Initialising = {"target", "existing", "mutex", "info", "events", "signal"}
      /\ {"idle", "helper", "ready", "hook", "stop", "close"} \cup Initialising = Phases
      /\ Backs = {"idle", "helper", "hook", "update"}
      /\ EventNames = {"restart", "stop", "init", "ready", "exit"}
      /\ Handles = EventNames \cup {"info", "mutex", "event", "target", "keepalive"}
  BY ObjectFacts DEF Phases, Backs, Initialising, EventNames, Handles
\* The phase alone changes, and no more handles are expected there.
<1>M. ASSUME NEW s \in Sources, NEW next \in Phases, UNCHANGED <<processId, active, handle>>,
             \A u \in Sources : phase'[u] = IF u = s THEN next ELSE phase[u],
             \/ {phase[s], next} \subseteq {"idle", "helper", "ready", "hook"}
             \/ next \in {"stop", "close"}
             \/ phase[s] = "existing" /\ next = "mutex"
      PROVE  SessionInv'
  BY <1>L, <1>M DEF SessionInv, Session
<1>A. ASSUME UNCHANGED <<processId, active, handle, phase>>
      PROVE  SessionInv'
  BY <1>A DEF SessionInv, Session
\* init_hook opens some more.
<1>O. ASSUME NEW s \in Sources, NEW next \in Phases, NEW names, Opens(s, names), Goto(s, next),
             UNCHANGED <<processId, active>>,
             \/ phase[s] = "target"   /\ next = "existing" /\ names = {"target", "keepalive"}
             \/ phase[s] = "existing" /\ next = "mutex"    /\ names = {"restart"}
             \/ phase[s] = "mutex"    /\ next = "info"     /\ names = {"mutex", "event"}
             \/ phase[s] = "info"     /\ next = "events"   /\ names = {"info"}
             \/ phase[s] = "events"   /\ next = "signal"   /\ names = EventNames
      PROVE  SessionInv'
  <2>1. \A u \in Sources : phase'[u] = IF u = s THEN next ELSE phase[u]
    BY <1>O, GotoFacts
  <2>2. \A u \in Sources, n \in Handles :
          handle'[u][n] = IF u = s /\ n \in names THEN processId[s] ELSE handle[u][n]
    BY <1>O DEF Opens
  <2>3. ~active[s]
    BY <1>L, <1>O DEF SessionInv, Session
  <2> QED
    BY <1>L, <1>O, <2>1, <2>2, <2>3 DEF SessionInv, Session
<1>1. ASSUME NEW p \in Procs, Dll(p) \/ CaptureCheck(p) \/ ProcStarts(p) \/ ProcDies(p)
      PROVE  SessionInv'
  BY <1>1, <1>A DEF Dll, DllMain, InitHook, CaptureLoop, AttemptHook, CaptureCheck, CheckStop,
       CheckRestart, CheckInit, CheckInitFails, ProcStarts, ProcDies
<1>2. ASSUME NEW s \in Sources, HelperLoads(s) \/ HelperFails(s)
      PROVE  SessionInv'
  BY <1>2, <1>A DEF HelperLoads, HelperFails
<1>3. ASSUME NEW s \in Sources, TickStop(s) \/ TickHelper(s) \/ TickReady(s)
      PROVE  SessionInv'
  <2>1. /\ phase[s] \in {"idle", "helper", "ready"} /\ UNCHANGED <<processId, active, handle>>
        /\ Stop(s, "helper") \/ \E next \in {"helper", "ready", "hook"} : Goto(s, next)
    BY <1>3 DEF TickStop, TickHelper, TickReady
  <2> QED
    BY <1>L, <1>M, <2>1, GotoFacts, StopFacts
<1>4. ASSUME NEW s \in Sources, TickReadyFails(s) \/ TickTarget(s)
      PROVE  SessionInv'
  <2>1. /\ phase[s] \in {"ready", "hook"} /\ UNCHANGED <<processId, active, handle>>
        /\ \E next \in {"hook", "idle"} : Stop(s, next) \/ Goto(s, next)
    BY <1>4 DEF TickReadyFails, TickTarget
  <2> QED
    BY <1>L, <1>M, <2>1, GotoFacts, StopFacts
<1>5. ASSUME NEW s \in Sources, StopSignal(s)
      PROVE  SessionInv'
  <2>1. Goto(s, "close") /\ UNCHANGED <<processId, active, handle>>
    BY <1>5 DEF StopSignal
  <2> QED
    BY <1>L, <1>M, <2>1, GotoFacts
<1>6. ASSUME NEW s \in Sources, StopClose(s)
      PROVE  SessionInv'
  <2>1. /\ phase' = [phase EXCEPT ![s] = IF back[s] = "update" THEN "idle" ELSE back[s]]
        /\ handle' = [handle EXCEPT ![s] = NoHandles] /\ active' = [active EXCEPT ![s] = FALSE]
        /\ UNCHANGED processId
    BY <1>6 DEF StopClose
  <2>2. PICK next \in {"idle", "helper", "hook"} :
          \A u \in Sources : phase'[u] = IF u = s THEN next ELSE phase[u]
    BY <1>L, <2>1 DEF TypeOK
  <2>3. \A u \in Sources : /\ active'[u] = IF u = s THEN FALSE ELSE active[u]
                           /\ u # s => handle'[u] = handle[u]
                           /\ u = s => \A n \in Handles : handle'[u][n] = None
    BY <2>1 DEF TypeOK, NoHandles
  <2>4. ASSUME NEW u \in Sources \ {s} PROVE Session(u)'
    BY <2>1, <2>2, <2>3, <2>4 DEF SessionInv, Session
  <2>5. Session(s)'
    BY <1>L, <2>2, <2>3 DEF Session
  <2> QED
    BY <2>4, <2>5 DEF SessionInv
<1>7. ASSUME NEW s \in Sources, TryHook(s)
      PROVE  SessionInv'
  <2>1. /\ phase[s] = "hook" /\ ~active[s] /\ UNCHANGED <<active, handle>>
        /\ \A u \in Sources : phase'[u] = IF u = s THEN IF nextId'[s] # None THEN "target" ELSE "idle"
                                           ELSE phase[u]
    BY <1>7, TryFacts DEF TryHook
  <2>2. \A u \in Sources \ {s} : processId'[u] = processId[u]
    <3>1. processId' = processId \/ \E p \in Procs : processId' = [processId EXCEPT ![s] = p]
      BY <1>7, TryFacts
    <3> QED
      BY <3>1 DEF TypeOK
  <2>3. \A n \in Handles : handle[s][n] = None
    BY <2>1 DEF SessionInv, Session
  <2> QED
    BY <1>L, <2>1, <2>2, <2>3 DEF SessionInv, Session
<1>8. ASSUME NEW s \in Sources, InitSession(s), InitFails(s), ~SignalInit(s)
      PROVE  SessionInv'
  <2>1. Stop(s, "idle") /\ UNCHANGED <<processId, active, handle>>
    BY <1>8 DEF InitFails, InitSession, OpenTarget, ExistingHook, Inject, InjectFails, OpenMutex, OpenInfo,
                OpenEvents
  <2> QED
    BY <1>L, <1>M, <2>1, StopFacts
<1>9. ASSUME NEW s \in Sources, InitSession(s), ~InitFails(s), ~SignalInit(s)
      PROVE  SessionInv'
  <2>0. UNCHANGED <<processId, active>>
    BY <1>9 DEF InitSession, OpenTarget, ExistingHook, Inject, InjectFails, OpenMutex, OpenInfo, OpenEvents
  <2>1. CASE OpenTarget(s)
    <3>1. phase[s] = "target" /\ Opens(s, {"target", "keepalive"}) /\ Goto(s, "existing")
      BY <1>9, <2>1, OpensFacts DEF OpenTarget
    <3> QED
      BY <1>L, <1>O, <2>0, <3>1
  <2>2. CASE ExistingHook(s)
    <3>1. phase[s] = "existing" /\ Opens(s, {"restart"}) /\ Goto(s, "mutex")
      BY <2>2, OpensFacts DEF ExistingHook
    <3> QED
      BY <1>L, <1>O, <2>0, <3>1
  <2>3. CASE Inject(s)
    <3>1. phase[s] = "existing" /\ Goto(s, "mutex") /\ UNCHANGED handle
      BY <2>3 DEF Inject
    <3> QED
      BY <1>L, <1>M, <2>0, <3>1, GotoFacts
  <2>4. CASE OpenMutex(s)
    <3>1. phase[s] = "mutex" /\ Opens(s, {"mutex", "event"}) /\ Goto(s, "info")
      BY <1>9, <2>4, OpensFacts DEF OpenMutex
    <3> QED
      BY <1>L, <1>O, <2>0, <3>1
  <2>5. CASE OpenInfo(s)
    <3>1. phase[s] = "info" /\ Opens(s, {"info"}) /\ Goto(s, "events")
      BY <1>9, <2>5, OpensFacts DEF OpenInfo
    <3> QED
      BY <1>L, <1>O, <2>0, <3>1
  <2>6. CASE OpenEvents(s)
    <3>1. phase[s] = "events" /\ Opens(s, EventNames) /\ Goto(s, "signal")
      BY <1>9, <2>6, OpensFacts DEF OpenEvents
    <3> QED
      BY <1>L, <1>O, <2>0, <3>1
  <2> QED
    BY <1>9, <2>1, <2>2, <2>3, <2>4, <2>5, <2>6 DEF InitSession, InjectFails
<1>10. ASSUME NEW s \in Sources, SignalInit(s)
       PROVE  SessionInv'
  <2>1. /\ phase[s] = "signal" /\ Goto(s, "idle") /\ UNCHANGED handle
        /\ processId' = [processId EXCEPT ![s] = nextId[s]] /\ active' = [active EXCEPT ![s] = TRUE]
    BY <1>10 DEF SignalInit
  <2>2. nextId[s] = processId[s]
    BY <1>L, <2>1, InitialisingFacts
  <2>3. \A n \in Handles : handle[s][n] = processId[s]
    BY <1>L, <2>1 DEF SessionInv, Session
  <2>4. \A u \in Sources : phase'[u] = IF u = s THEN "idle" ELSE phase[u]
    BY <1>L, <2>1, GotoFacts
  <2>5. \A u \in Sources : processId'[u] = processId[u] /\ active'[u] = IF u = s THEN TRUE ELSE active[u]
    BY <2>1, <2>2 DEF TypeOK
  <2>6. ASSUME NEW u \in Sources \ {s} PROVE Session(u)'
    BY <2>1, <2>4, <2>5, <2>6 DEF SessionInv, Session
  <2>7. Session(s)'
    BY <1>L, <2>1, <2>3, <2>4, <2>5 DEF Session
  <2> QED
    BY <2>6, <2>7 DEF SessionInv
<1>11. ASSUME NEW s \in Sources, NEW p \in Procs \cup {None}, Update(s, p)
       PROVE  SessionInv'
  <2>1. /\ phase[s] = "idle" /\ UNCHANGED <<processId, active, handle>>
        /\ (Stop(s, "update") \/ Goto(s, "idle"))
    BY <1>11 DEF Update
  <2> QED
    BY <1>L, <1>M, <2>1, GotoFacts, StopFacts
<1>12. CASE ObsDies
  BY <1>L, <1>12 DEF ObsDies, SessionInv, Session, NoHandles
<1>13. CASE UNCHANGED vars
  BY <1>13, <1>A DEF vars
<1> QED
  BY <1>1, <1>2, <1>3, <1>4, <1>5, <1>6, <1>7, <1>8, <1>9, <1>10, <1>11, <1>12, <1>13
     DEF Next, Tick, StopCapture
-----------------------------------------------------------------------------
(* What is open was created. *)

\* A name that can be opened is one of an object that was created.
LEMMA NamedFacts ==
  ASSUME TypeOK, ObjectInv, NEW p \in Procs, NEW n \in Objects, Named(p, n)
  PROVE  life[p] # "new" /\ (Running(p) => Created[n] <= dll[p])
BY DEF Named, ObjectInv, Running

\* Every step keeps that open objects were created.
LEMMA ObjectStep ==
  ASSUME TypeOK, IdInv, ObjectInv, [Next]_vars
  PROVE  ObjectInv'
<1> USE DEF processVars, idVars, helperVars, bounds
<1>L. /\ Initialising = {"target", "existing", "mutex", "info", "events", "signal"}
      /\ EventNames \subseteq Objects /\ {"mutex", "event", "info"} \subseteq Objects
      /\ Objects \subseteq Handles /\ "target" \notin Objects /\ "keepalive" \notin Objects
      /\ Loaded \in Nat /\ \A n \in Objects : Created[n] \in Nat
  BY ObjectFacts DEF Initialising, EventNames, Handles
<1>A. ASSUME UNCHANGED <<life, dll, handle>>
      PROVE  ObjectInv'
  BY <1>A DEF ObjectInv, Running
<1>O. ASSUME NEW s \in Sources, NEW names, Opens(s, names), UNCHANGED <<life, dll>>, processId[s] \in Procs,
             \A n \in names \cap Objects : Named(processId[s], n)
      PROVE  ObjectInv'
  <2>1. \A u \in Sources, n \in Objects :
          handle'[u][n] = IF u = s /\ n \in names THEN processId[s] ELSE handle[u][n]
    BY <1>L, <1>O DEF Opens
  <2>2. \A n \in names \cap Objects :
          life[processId[s]] # "new" /\ (Running(processId[s]) => Created[n] <= dll[processId[s]])
    BY <1>O, NamedFacts
  <2> QED
    BY <1>O, <2>1, <2>2 DEF ObjectInv, Running
<1>1. ASSUME NEW p \in Procs, DllMain(p)
      PROVE  ObjectInv'
  <2>1. /\ UNCHANGED <<life, handle>>
        /\ dll' = [dll EXCEPT ![p] = @ + 1] \/ UNCHANGED dll
    BY <1>1 DEF DllMain
  <2>2. \A q \in Procs : dll[q] \in Nat /\ dll[q] <= dll'[q] /\ dll'[q] \in Nat
    <3>1. dll \in [Procs -> Nat]
      BY <1>L DEF TypeOK
    <3> QED
      BY <2>1, <3>1
  <2>3. \A q \in Procs, n \in Objects : Created[n] <= dll[q] => Created[n] <= dll'[q]
    BY <1>L, <2>2
  <2> QED
    BY <2>1, <2>3 DEF ObjectInv, Running
<1>2. ASSUME NEW p \in Procs, Dll(p) \/ CaptureCheck(p), ~DllMain(p)
      PROVE  ObjectInv'
  BY <1>2, <1>A DEF Dll, InitHook, CaptureLoop, AttemptHook, CaptureCheck, CheckStop,
       CheckRestart, CheckInit, CheckInitFails
<1>3. ASSUME NEW p \in Procs, ProcStarts(p) \/ ProcDies(p)
      PROVE  ObjectInv'
  <2>1. UNCHANGED handle
    BY <1>3 DEF ProcStarts, ProcDies
  <2>2. CASE ProcStarts(p)
    <3>1. /\ life[p] = "new" /\ UNCHANGED dll
          /\ \A q \in Procs : life'[q] = IF q = p THEN "running" ELSE life[q]
      BY <2>2 DEF ProcStarts, TypeOK
    <3> QED
      BY <2>1, <3>1 DEF ObjectInv, Running
  <2>3. CASE ProcDies(p)
    <3>1. /\ \A q \in Procs : life'[q] = IF q = p THEN "dead" ELSE life[q]
          /\ \A q \in Procs \ {p} : dll'[q] = dll[q]
      BY <2>3 DEF ProcDies, TypeOK
    <3> QED
      BY <2>1, <3>1 DEF ObjectInv, Running
  <2> QED
    BY <1>3, <2>2, <2>3
<1>4. ASSUME NEW s \in Sources, HelperLoads(s) \/ HelperFails(s)
      PROVE  ObjectInv'
  BY <1>4, <1>A DEF HelperLoads, HelperFails
<1>5. ASSUME NEW s \in Sources, StopClose(s)
      PROVE  ObjectInv'
  <2>1. UNCHANGED <<life, dll>> /\ handle' = [handle EXCEPT ![s] = NoHandles]
    BY <1>5 DEF StopClose
  <2>2. \A u \in Sources, n \in Objects : handle'[u][n] \in {handle[u][n], None}
    BY <1>L, <2>1 DEF NoHandles, TypeOK
  <2> QED
    BY <2>1, <2>2 DEF ObjectInv, Running
<1>6. ASSUME NEW s \in Sources,
             \/ TickStop(s) \/ TickHelper(s) \/ TickReady(s) \/ TickReadyFails(s) \/ TickTarget(s)
             \/ TryHook(s) \/ StopSignal(s) \/ Inject(s) \/ InjectFails(s) \/ SignalInit(s)
      PROVE  ObjectInv'
  BY <1>6, <1>A DEF TickStop, TickHelper, TickReady, TickReadyFails, TickTarget, TryHook, StopSignal,
       Inject, InjectFails, InitFails, SignalInit
<1>7. ASSUME NEW s \in Sources,
             OpenTarget(s) \/ ExistingHook(s) \/ OpenMutex(s) \/ OpenInfo(s) \/ OpenEvents(s)
      PROVE  ObjectInv'
  <2>1. phase[s] \in Initialising /\ UNCHANGED <<life, dll>>
    BY <1>7, <1>L DEF OpenTarget, ExistingHook, OpenMutex, OpenInfo, OpenEvents
  <2>2. processId[s] \in Procs
    BY <2>1, InitialisingFacts
  <2>3. CASE InitFails(s)
    BY <1>A, <2>1, <2>3 DEF InitFails
  <2>4. CASE ~InitFails(s)
    <3>1. ExistingHook(s) => Named(processId[s], "restart")
      BY DEF ExistingHook
    <3>2. PICK names : Opens(s, names) /\ \A n \in names \cap Objects : Named(processId[s], n)
      BY <1>7, <1>L, <2>4, <3>1, OpensFacts
    <3> QED
      BY <1>O, <2>1, <2>2, <3>2
  <2> QED
    BY <2>3, <2>4
<1>8. ASSUME NEW s \in Sources, NEW p \in Procs \cup {None}, Update(s, p)
      PROVE  ObjectInv'
  BY <1>8, <1>A DEF Update
<1>9. CASE ObsDies
  BY <1>9, <1>L DEF ObsDies, ObjectInv, NoHandles
<1>10. CASE UNCHANGED vars
  BY <1>10, <1>A DEF vars
<1> QED
  BY <1>1, <1>2, <1>3, <1>4, <1>5, <1>6, <1>7, <1>8, <1>9, <1>10
     DEF Next, Tick, StopCapture, InitSession
-----------------------------------------------------------------------------
(* The offsets come before the init event, and so before the hook. *)

\* Every step keeps that the offsets are there before the init event is set.
LEMMA OffsetStep ==
  ASSUME IInv, [Next]_vars
  PROVE  OffsetInv' /\ OffsetsBeforeHook'
<1> USE DEF processVars, idVars, helperVars, bounds
<1>I. TypeOK /\ IdInv /\ SessionInv /\ ObjectInv /\ OffsetInv /\ OffsetsBeforeHook
  BY DEF IInv
<1>L. /\ {"idle", "helper", "ready", "hook", "stop", "close", "target", "existing", "mutex", "info",
          "events", "signal"} = Phases
      /\ Initialising = {"target", "existing", "mutex", "info", "events", "signal"}
      /\ Backs = {"idle", "helper", "hook", "update"} /\ Events = {"restart", "stop", "ready", "init"}
      /\ Objects \subseteq Handles /\ {"init", "info", "stop", "ready"} \subseteq Objects
  BY ObjectFacts DEF Phases, Initialising, Backs, Events, Handles
<1> DEFINE NoInit == \A q \in Procs : "init" \in signalled'[q] => "init" \in signalled[q]
           NoEntry == \A u \in Sources : phase'[u] \in {"events", "signal"}
                                         => phase'[u] = phase[u] /\ processId'[u] = processId[u]
<1>T. signalled \in [Procs -> SUBSET Events]
  BY <1>I DEF TypeOK
\* Nobody signals init or gets past init_hook_info.
<1>A. ASSUME UNCHANGED <<life, offsets, thread>>, NoInit, NoEntry
      PROVE  OffsetInv' /\ OffsetsBeforeHook'
  BY <1>A, <1>I DEF OffsetInv, OffsetsBeforeHook, Running
<1>S. ASSUME NEW q \in Procs, NEW e \in Events \ {"init"}, Set(q, e)
      PROVE  NoInit
  BY <1>I, <1>S, SetFacts
<1>P. ASSUME NEW s \in Sources, NEW next \in Phases \ {"events", "signal"},
             Goto(s, next) \/ (next = "stop" /\ \E b \in Backs : Stop(s, b)),
             UNCHANGED processId
      PROVE  NoEntry
  BY <1>I, <1>L, <1>P, GotoFacts, StopFacts
<1>1. ASSUME NEW p \in Procs, DllMain(p) \/ InitHook(p)
      PROVE  OffsetInv' /\ OffsetsBeforeHook'
  <2>1. UNCHANGED <<life, offsets, phase, processId>>
    BY <1>1 DEF DllMain, InitHook
  <2>2. NoInit
    <3>1. UNCHANGED signalled \/ Set(p, "restart")
      BY <1>1 DEF DllMain, InitHook
    <3> QED
      BY <1>L, <1>S, <3>1
  <2>3. \A q \in Procs : thread'[q] \in {"attempt", "hooked", "useless"} => thread'[q] = thread[q]
    <3>1. \E next \in {"start", "wait"} : thread' = [thread EXCEPT ![p] = next] \/ UNCHANGED thread
      BY <1>1 DEF DllMain, InitHook
    <3> QED
      BY <1>I, <3>1 DEF TypeOK
  <2> QED
    BY <1>I, <2>1, <2>2, <2>3 DEF OffsetInv, OffsetsBeforeHook, Running
<1>2. ASSUME NEW p \in Procs, CaptureLoop(p)
      PROVE  OffsetInv' /\ OffsetsBeforeHook'
  <2>1. /\ Running(p) /\ "init" \in signalled[p] /\ UNCHANGED <<life, offsets, phase, processId>>
        /\ thread' = [thread EXCEPT ![p] = "attempt"]
        /\ signalled' = [signalled EXCEPT ![p] = @ \ {"init"}]
    BY <1>2 DEF CaptureLoop
  <2>2. offsets[p]
    BY <1>I, <2>1 DEF OffsetInv
  <2>3. NoInit
    BY <1>I, <2>1 DEF TypeOK
  <2>4. \A q \in Procs : thread'[q] = IF q = p THEN "attempt" ELSE thread[q]
    BY <1>I, <2>1 DEF TypeOK
  <2> QED
    BY <1>I, <2>1, <2>2, <2>3, <2>4 DEF OffsetInv, OffsetsBeforeHook, Running
<1>3. ASSUME NEW p \in Procs, AttemptHook(p)
      PROVE  OffsetInv' /\ OffsetsBeforeHook'
  <2>1. /\ thread[p] = "attempt" /\ UNCHANGED <<life, offsets, phase, processId, signalled>>
        /\ thread' = [thread EXCEPT ![p] = IF offsets[p] THEN "hooked" ELSE "useless"]
    BY <1>3 DEF AttemptHook
  <2>2. offsets[p]
    BY <1>I, <2>1 DEF OffsetsBeforeHook
  <2>3. \A q \in Procs : thread'[q] = IF q = p THEN "hooked" ELSE thread[q]
    BY <1>I, <2>1, <2>2 DEF TypeOK
  <2> QED
    BY <1>I, <2>1, <2>2, <2>3 DEF OffsetInv, OffsetsBeforeHook, Running
<1>4. ASSUME NEW p \in Procs, CaptureCheck(p)
      PROVE  OffsetInv' /\ OffsetsBeforeHook'
  <2>1. UNCHANGED <<life, offsets, thread, phase, processId>>
    BY <1>4 DEF CaptureCheck, CheckStop, CheckRestart, CheckInit, CheckInitFails
  <2>2. NoInit
    <3>1. ASSUME NEW look \in BOOLEAN, CheckStop(p, look) PROVE NoInit
      <4>1. CASE UNCHANGED signalled
        BY <4>1
      <4>2. ASSUME NEW more \in {{}, {"restart"}},
                   signalled' = [signalled EXCEPT ![p] = (@ \ {"stop"}) \cup more]
            PROVE  NoInit
        BY <1>T, <4>2
      <4> QED
        BY <3>1, <4>1, <4>2 DEF CheckStop
    <3>2. CASE CheckRestart(p)
      BY <1>I, <3>2 DEF CheckRestart, TypeOK
    <3>3. CASE CheckInit(p) \/ CheckInitFails(p)
      <4>1. UNCHANGED signalled \/ Set(p, "ready") \/ Set(p, "restart")
        BY <3>3 DEF CheckInit, CheckInitFails
      <4> QED
        BY <1>L, <1>S, <4>1
    <3> QED
      BY <1>4, <3>1, <3>2, <3>3 DEF CaptureCheck
  <2> QED
    BY <1>A, <2>1, <2>2
<1>5. ASSUME NEW p \in Procs, ProcStarts(p)
      PROVE  OffsetInv' /\ OffsetsBeforeHook'
  <2>1. /\ life[p] = "new" /\ UNCHANGED <<offsets, thread, phase, processId, signalled, handle>>
        /\ \A q \in Procs : life'[q] = IF q = p THEN "running" ELSE life[q]
    BY <1>5, <1>I DEF ProcStarts, TypeOK
  <2>2. ASSUME NEW u \in Sources, phase[u] \in {"events", "signal"} PROVE processId[u] # p
    <3>1. handle[u]["info"] = processId[u]
      BY <1>I, <2>2 DEF SessionInv, Session
    <3> QED
      BY <1>I, <1>L, <2>1, <3>1 DEF ObjectInv
  <2> QED
    BY <1>I, <2>1, <2>2 DEF OffsetInv, OffsetsBeforeHook, Running
<1>6. ASSUME NEW p \in Procs, ProcDies(p)
      PROVE  OffsetInv' /\ OffsetsBeforeHook'
  <2>1. /\ UNCHANGED <<phase, processId, signalled>>
        /\ \A q \in Procs : /\ life'[q] = IF q = p THEN "dead" ELSE life[q]
                            /\ thread'[q] = IF q = p THEN "none" ELSE thread[q]
                            /\ q # p => offsets'[q] = offsets[q]
    BY <1>6, <1>I DEF ProcDies, TypeOK
  <2> QED
    BY <1>I, <2>1 DEF OffsetInv, OffsetsBeforeHook, Running
<1>7. ASSUME NEW s \in Sources, HelperLoads(s) \/ HelperFails(s)
      PROVE  OffsetInv' /\ OffsetsBeforeHook'
  BY <1>7, <1>A DEF HelperLoads, HelperFails
<1>8. ASSUME NEW s \in Sources,
             TickStop(s) \/ TickHelper(s) \/ TickReady(s) \/ TickReadyFails(s) \/ TickTarget(s)
      PROVE  OffsetInv' /\ OffsetsBeforeHook'
  <2>1. UNCHANGED <<life, offsets, thread, processId>>
    BY <1>8 DEF TickStop, TickHelper, TickReady, TickReadyFails, TickTarget
  <2>2. \/ \E next \in {"helper", "ready", "hook", "idle"} : Goto(s, next)
        \/ \E b \in {"helper", "hook", "idle"} : Stop(s, b)
    BY <1>8 DEF TickStop, TickHelper, TickReady, TickReadyFails, TickTarget
  <2>3. NoEntry
    BY <1>L, <1>P, <2>1, <2>2
  <2>4. NoInit
    <3>1. UNCHANGED signalled \/ \E q, e : signalled' = [signalled EXCEPT ![q] = @ \ {e}]
      BY <1>8 DEF TickStop, TickHelper, TickReady, TickReadyFails, TickTarget
    <3>2. ASSUME NEW q, NEW e, signalled' = [signalled EXCEPT ![q] = @ \ {e}]
          PROVE  NoInit
      <4>1. \A r \in Procs : signalled'[r] = IF r = q THEN signalled[r] \ {e} ELSE signalled[r]
        BY <1>T, <3>2
      <4> QED
        BY <4>1
    <3> QED
      BY <3>1, <3>2
  <2> QED
    BY <1>A, <2>1, <2>3, <2>4
<1>9. ASSUME NEW s \in Sources, TryHook(s)
      PROVE  OffsetInv' /\ OffsetsBeforeHook'
  <2>1. UNCHANGED <<life, offsets, thread, signalled>>
    BY <1>9 DEF TryHook
  <2>2. \A u \in Sources : u # s => phase'[u] = phase[u] /\ processId'[u] = processId[u]
    <3>1. processId' = processId \/ \E p \in Procs : processId' = [processId EXCEPT ![s] = p]
      BY <1>9, <1>I, TryFacts
    <3> QED
      BY <1>9, <1>I, <3>1, TryFacts DEF TypeOK
  <2>3. phase'[s] \in {"target", "idle"}
    BY <1>9, <1>I, TryFacts
  <2>4. NoEntry
    BY <2>2, <2>3
  <2> QED
    BY <1>A, <2>1, <2>4
<1>10. ASSUME NEW s \in Sources, StopCapture(s)
       PROVE  OffsetInv' /\ OffsetsBeforeHook'
  <2>1. UNCHANGED <<life, offsets, thread, processId>>
    BY <1>10 DEF StopCapture, StopSignal, StopClose
  <2>2. CASE StopSignal(s)
    <3>1. /\ Goto(s, "close")
          /\ \/ handle[s]["stop"] # None /\ Set(handle[s]["stop"], "stop")
             \/ UNCHANGED signalled
      BY <2>2 DEF StopSignal
    <3>2. handle[s]["stop"] \in Procs \cup {None}
      BY <1>I, <1>L DEF TypeOK
    <3>3. NoInit
      BY <1>L, <1>S, <3>1, <3>2
    <3>4. NoEntry
      BY <1>L, <1>P, <2>1, <3>1
    <3> QED
      BY <1>A, <2>1, <3>3, <3>4
  <2>3. CASE StopClose(s)
    <3>1. UNCHANGED signalled /\ phase' = [phase EXCEPT ![s] = IF back[s] = "update" THEN "idle" ELSE back[s]]
      BY <2>3 DEF StopClose
    <3>2. NoEntry
      BY <1>I, <1>L, <2>1, <3>1 DEF TypeOK
    <3> QED
      BY <1>A, <2>1, <3>1, <3>2
  <2> QED
    BY <1>10, <2>2, <2>3 DEF StopCapture
<1>11. ASSUME NEW s \in Sources,
              OpenTarget(s) \/ ExistingHook(s) \/ Inject(s) \/ InjectFails(s) \/ OpenMutex(s)
       PROVE  OffsetInv' /\ OffsetsBeforeHook'
  <2>1. UNCHANGED <<life, offsets, thread, processId>> /\ phase[s] \in Initialising
    BY <1>11, <1>L DEF OpenTarget, ExistingHook, Inject, InjectFails, OpenMutex
  <2>2. InitFails(s) \/ \E next \in {"existing", "mutex", "info"} : Goto(s, next)
    BY <1>11, <1>I, OpensFacts DEF ExistingHook, Inject, InjectFails
  <2>3. NoEntry
    BY <1>L, <1>P, <2>1, <2>2 DEF InitFails
  <2>4. NoInit
    <3>1. ExistingHook(s) => Set(processId[s], "restart")
      BY DEF ExistingHook
    <3>2. ExistingHook(s) \/ UNCHANGED signalled
      BY <1>11, <1>I, OpensFacts DEF Inject, InjectFails, InitFails
    <3>3. processId[s] \in Procs
      BY <1>I, <2>1, InitialisingFacts
    <3> QED
      BY <1>L, <1>S, <3>1, <3>2, <3>3
  <2> QED
    BY <1>A, <2>1, <2>3, <2>4
<1>12. ASSUME NEW s \in Sources, OpenInfo(s)
       PROVE  OffsetInv' /\ OffsetsBeforeHook'
  <2>1. UNCHANGED <<life, thread, processId>> /\ phase[s] = "info"
    BY <1>12 DEF OpenInfo
  <2>2. CASE InitFails(s) /\ UNCHANGED offsets
    <3>1. NoEntry /\ NoInit
      BY <1>L, <1>P, <2>1, <2>2 DEF InitFails
    <3> QED
      BY <1>A, <2>1, <2>2, <3>1
  <2>3. CASE ~(InitFails(s) /\ UNCHANGED offsets)
    <3>1. /\ offsets' = [offsets EXCEPT ![processId[s]] = TRUE]
          /\ Goto(s, "events") /\ UNCHANGED signalled
      BY <1>12, <1>I, <2>3, OpensFacts
    <3>2. processId[s] \in Procs
      BY <1>I, <1>L, <2>1, InitialisingFacts
    <3>3. \A q \in Procs : offsets'[q] = IF q = processId[s] THEN TRUE ELSE offsets[q]
      BY <1>I, <3>1 DEF TypeOK
    <3>4. \A u \in Sources : phase'[u] = IF u = s THEN "events" ELSE phase[u]
      BY <1>I, <1>L, <3>1, GotoFacts
    <3> QED
      BY <1>I, <2>1, <3>1, <3>2, <3>3, <3>4 DEF OffsetInv, OffsetsBeforeHook, Running
  <2> QED
    BY <2>2, <2>3
<1>13. ASSUME NEW s \in Sources, OpenEvents(s)
       PROVE  OffsetInv' /\ OffsetsBeforeHook'
  <2>1. UNCHANGED <<life, offsets, thread, processId>> /\ phase[s] = "events"
    BY <1>13 DEF OpenEvents
  <2>2. CASE InitFails(s)
    <3>1. NoEntry /\ NoInit
      BY <1>L, <1>P, <2>1, <2>2 DEF InitFails
    <3> QED
      BY <1>A, <2>1, <3>1
  <2>3. CASE ~InitFails(s)
    <3>1. Goto(s, "signal") /\ signalled' = [signalled EXCEPT ![processId[s]] = @ \ {"stop"}]
      BY <1>13, <1>I, <2>3, OpensFacts
    <3>2. NoInit
      BY <1>I, <3>1 DEF TypeOK
    <3>3. \A u \in Sources : phase'[u] = IF u = s THEN "signal" ELSE phase[u]
      BY <1>I, <1>L, <3>1, GotoFacts
    <3> QED
      BY <1>I, <2>1, <3>2, <3>3 DEF OffsetInv, OffsetsBeforeHook, Running
  <2> QED
    BY <2>2, <2>3
<1>14. ASSUME NEW s \in Sources, SignalInit(s)
       PROVE  OffsetInv' /\ OffsetsBeforeHook'
  <2>1. /\ phase[s] = "signal" /\ Set(handle[s]["init"], "init") /\ Goto(s, "idle")
        /\ processId' = [processId EXCEPT ![s] = nextId[s]] /\ UNCHANGED <<life, offsets, thread>>
    BY <1>14 DEF SignalInit
  <2>2. handle[s]["init"] = processId[s] /\ processId[s] \in Procs
    BY <1>I, <1>L, <2>1, InitialisingFacts DEF SessionInv, Session, EventNames
  <2>3. life[processId[s]] # "new" /\ (Running(processId[s]) => offsets[processId[s]])
    BY <1>I, <1>L, <2>1, <2>2 DEF ObjectInv, OffsetInv
  <2>4. \A q \in Procs : "init" \in signalled'[q] => q = processId[s] \/ "init" \in signalled[q]
    <3>1. \A q \in Procs : signalled'[q] = IF q = processId[s] THEN signalled[q] \cup {"init"} ELSE signalled[q]
      BY <1>T, <2>1, <2>2 DEF Set
    <3> QED
      BY <3>1
  <2>5. NoEntry
    <3>1. \A u \in Sources : phase'[u] = IF u = s THEN "idle" ELSE phase[u]
      BY <1>I, <1>L, <2>1, GotoFacts
    <3>2. \A u \in Sources \ {s} : processId'[u] = processId[u]
      BY <1>I, <2>1 DEF TypeOK
    <3> QED
      BY <3>1, <3>2
  <2> QED
    BY <1>I, <2>1, <2>3, <2>4, <2>5 DEF OffsetInv, OffsetsBeforeHook, Running
<1>15. ASSUME NEW s \in Sources, NEW p \in Procs \cup {None}, Update(s, p)
       PROVE  OffsetInv' /\ OffsetsBeforeHook'
  <2>1. UNCHANGED <<life, offsets, thread, signalled, processId>> /\ (Stop(s, "update") \/ Goto(s, "idle"))
    BY <1>15 DEF Update
  <2>2. NoEntry
    BY <1>L, <1>P, <2>1
  <2> QED
    BY <1>A, <2>1, <2>2
<1>16. CASE ObsDies
  <2>1. UNCHANGED <<life, offsets, thread, signalled>> /\ NoEntry
    BY <1>16 DEF ObsDies
  <2> QED
    BY <1>A, <2>1
<1>17. CASE UNCHANGED vars
  BY <1>17, <1>A DEF vars
<1> QED
  BY <1>1, <1>2, <1>3, <1>4, <1>5, <1>6, <1>7, <1>8, <1>9, <1>10, <1>11, <1>12, <1>13, <1>14, <1>15,
     <1>16, <1>17
     DEF Next, Tick, Dll, InitSession
-----------------------------------------------------------------------------
\* The invariant holds at first.
LEMMA InitIInv == Init => IInv
<1> SUFFICES ASSUME Init PROVE IInv
  OBVIOUS
<1>1. IdInv /\ SessionInv /\ ObjectInv /\ OffsetInv /\ OffsetsBeforeHook
  BY ObjectFacts DEF Init, NoHandles, Handles, Initialising, IdInv, SessionInv, Session, ObjectInv,
                     OffsetInv, OffsetsBeforeHook
<1> QED
  BY <1>1, TypeInit DEF IInv

\* IInv, what each phase of the tick and of init_hook says of ids, handles,
\* objects and offsets, holds in every reachable state (wasapi-capture.c
\* 748-1163).
THEOREM Invariance == Spec => []IInv
<1>1. ASSUME IInv, [Next]_vars PROVE IInv'
  BY <1>1, TypeStep, IdStep, SessionStep, ObjectStep, OffsetStep DEF IInv
<1> QED
  BY <1>1, InitIInv, PTL DEF Spec

\* The types are right, whatever the sources, the processes and OBS do.
THEOREM TypeCorrect == Spec => []TypeOK
<1>1. IInv => TypeOK
  BY DEF IInv
<1> QED
  BY <1>1, Invariance, PTL

\* An active source has all its handles, an idle one none.
THEOREM Handed == Spec => []SessionHandles
<1>1. IInv => SessionHandles
  <2> SUFFICES ASSUME IInv, NEW s \in Sources
               PROVE  /\ active[s] => handle[s] = [n \in Handles |-> processId[s]]
                      /\ ~active[s] /\ phase[s] \in {"idle", "helper", "ready", "hook", "target"}
                           => handle[s] = NoHandles
    BY DEF SessionHandles
  <2>1. handle[s] \in [Handles -> Procs \cup {None}] /\ Session(s)
    BY DEF IInv, TypeOK, SessionInv
  <2>2. ASSUME active[s] PROVE handle[s] = [n \in Handles |-> processId[s]]
    BY <2>1, <2>2 DEF Session
  <2>3. ASSUME ~active[s], phase[s] \in {"idle", "helper", "ready", "hook", "target"}
        PROVE  handle[s] = NoHandles
    BY <2>1, <2>3 DEF Session, NoHandles
  <2> QED
    BY <2>2, <2>3
<1> QED
  BY <1>1, Invariance, PTL

\* init_hook opens the process that it would inject.
THEOREM OneId == Spec => []IdsAgree
<1>1. IInv => IdsAgree
  BY DEF IInv, IdInv, IdsAgree
<1> QED
  BY <1>1, Invariance, PTL

\* After the mutex, the source finds all other objects of a running process.
THEOREM Complete == Spec => []NamesComplete
<1>1. IInv => NamesComplete
  <2> SUFFICES ASSUME IInv, NEW s \in Sources,
                      phase[s] \in {"info", "events", "signal"}, Running(processId[s])
               PROVE  dll[processId[s]] = Loaded
    BY DEF NamesComplete
  <2>1. handle[s]["event"] = processId[s]
    BY DEF IInv, SessionInv, Session
  <2>2. processId[s] \in Procs
    BY InitialisingFacts DEF IInv, Initialising
  <2>3. Created["event"] <= dll[processId[s]]
    BY <2>1, <2>2, ObjectFacts DEF IInv, ObjectInv
  <2>4. dll[processId[s]] \in 0..Loaded
    BY <2>2 DEF IInv, TypeOK
  <2> QED
    BY <2>3, <2>4, ObjectFacts
<1> QED
  BY <1>1, Invariance, PTL

\* No hook is attempted without the offsets.
THEOREM OffsetsFirst == Spec => []OffsetsBeforeHook
<1>1. IInv => OffsetsBeforeHook
  BY DEF IInv
<1> QED
  BY <1>1, Invariance, PTL
=============================================================================
