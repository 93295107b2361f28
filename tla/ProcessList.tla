----------------------------- MODULE ProcessList -----------------------------
(***************************************************************************)
(* Which process a source captures (windows-helpers.cpp, the properties    *)
(* and try_hook of wasapi-capture.c).  The properties show a list of the   *)
(* processes as "exe:id"; the user chooses from it, perhaps much later;    *)
(* and each try looks for the process with that id, or else for one with   *)
(* that executable, which is then the selection.                           *)
(*                                                                         *)
(* Meanwhile processes start and end, and Windows may use their ids again. *)
(* The order in which it enumerates them is its own: what the code does    *)
(* with the first of several is done here with any.  HookSession goes on   *)
(* with the process found (its operator Selected).                         *)
(***************************************************************************)
EXTENDS Naturals, FiniteSetsExt

CONSTANTS
  Pids,          \* process ids
  Exes,          \* executables
  Hidden,        \* those get_pid_exe has no name for: Windows' own, or not to be opened
  Limit,         \* the length of the array for EnumProcesses
  Reuse,         \* whether Windows uses the id of a process that ended again
  None,          \* no process, no selection
  MaxLives,      \* bound: processes started
  MaxChoices     \* bound: times the user chooses

ASSUME ListAssumption ==
  /\ Hidden \subseteq Exes /\ Reuse \in BOOLEAN
  /\ Limit \in Nat /\ MaxLives \in Nat /\ MaxChoices \in Nat
  /\ IsFiniteSet(Pids) /\ IsFiniteSet(Exes)

VARIABLES
  table,         \* the processes that run
  lives,         \* how many have run
  used,          \* the ids they had
  items,         \* the items of the list in the properties that can be chosen
  disabled,      \* the one that cannot, or None
  executable,    \* wc->executable and the setting, "exe:id", or None
  found,         \* the process the last try found, or None
  (* history *)
  selected,      \* the process that had the selected id when it was selected, or None
  choices        \* how often the user chose

systemVars == <<table, lives, used>>
listVars == <<items, disabled>>
sourceVars == <<executable, found, selected>>
vars == <<systemVars, listVars, sourceVars, choices>>

Items == [exe : Exes, pid : Pids]
Processes == [exe : Exes, pid : Pids, life : 1..MaxLives]

ASSUME NoneAssumption == None \notin Items \cup Processes

Init ==
  /\ table = {} /\ lives = 0 /\ used = {}
  /\ items = {} /\ disabled = None
  /\ executable = None /\ found = None /\ selected = None
  /\ choices = 0
-----------------------------------------------------------------------------
Starts(pid, exe) ==
  /\ lives < MaxLives
  /\ IF Reuse THEN \A p \in table : p.pid # pid ELSE pid \notin used
  /\ lives' = lives + 1
  /\ used' = used \cup {pid}
  /\ table' = table \cup {[exe |-> exe, pid |-> pid, life |-> lives']}
  /\ UNCHANGED <<listVars, sourceVars, choices>>

Ends(p) ==
  /\ table' = table \ {p}
  /\ UNCHANGED <<lives, used, listVars, sourceVars, choices>>

\* EnumProcesses fills the array, and does not say that there were more.
Enumerations == kSubset(Min({Limit, Cardinality(table)}), table)

Item(p) == [exe |-> p.exe, pid |-> p.pid]

\* get_pid_exe finds a name, not "unknown".
Nameable(p) == p.exe \notin Hidden
-----------------------------------------------------------------------------
(***************************************************************************)
(* The properties, and update.                                             *)
(***************************************************************************)

\* window_changed_callback: the selection, when it is not among the processes.
Disabled(shown) == IF executable \in shown THEN None ELSE executable

\* Mutant: the processes without a name are shown.
PropertiesAll(seen) ==
  /\ items' = {Item(p) : p \in seen}
  /\ disabled' = Disabled(items')
  /\ UNCHANGED <<systemVars, sourceVars, choices>>

\* wasapi_capture_properties, with fill_process_list
Properties(seen) ==
  /\ items' = {Item(p) : p \in {q \in seen : Nameable(q)}}
  /\ disabled' = Disabled(items')
  /\ UNCHANGED <<systemVars, sourceVars, choices>>

Holder(item) ==
  LET holders == {p \in table : p.pid = item.pid /\ p.exe = item.exe}
  IN IF holders = {} THEN None ELSE CHOOSE p \in holders : TRUE

\* The user chooses from the list as it was filled.
Choose(item) ==
  /\ item \in items /\ choices < MaxChoices
  /\ choices' = choices + 1
  /\ executable' = item
  /\ selected' = Holder(item)
  /\ found' = None
  /\ UNCHANGED <<systemVars, listVars>>
-----------------------------------------------------------------------------
(***************************************************************************)
(* find_selectd_process, as try_hook calls it.                             *)
(***************************************************************************)

Others(seen) == {p \in seen : Nameable(p) /\ p.exe = executable.exe}

\* Mutant: names that differ count as equal (s_cmp gives 0 for equal ones).
FindSelectedInverted(seen) ==
  LET same == {p \in seen : p.pid = executable.pid}
  IN IF same # {} THEN same ELSE {p \in seen : Nameable(p) /\ p.exe # executable.exe}

\* Mutant: the first of the name is taken, before the id is looked for.
FindSelectedByName(seen) ==
  IF Others(seen) # {} THEN Others(seen) ELSE {p \in seen : p.pid = executable.pid}

\* The processes it may find.
FindSelected(seen) ==
  LET same == {p \in seen : p.pid = executable.pid}
  IN IF same # {} THEN same ELSE Others(seen)

TryHook(seen) ==
  /\ executable # None
  /\ \/ /\ FindSelected(seen) = {}
        /\ found' = None
        /\ UNCHANGED <<executable, selected>>
     \/ \E p \in FindSelected(seen) :
          /\ found' = p
          /\ IF p.pid = executable.pid THEN UNCHANGED <<executable, selected>>
             ELSE /\ executable' = [executable EXCEPT !.pid = p.pid]
                  /\ selected' = p
  /\ UNCHANGED <<systemVars, listVars, choices>>
-----------------------------------------------------------------------------
Next ==
  \/ \E pid \in Pids, exe \in Exes : Starts(pid, exe)
  \/ \E p \in table : Ends(p)
  \/ \E seen \in Enumerations : Properties(seen) \/ TryHook(seen)
  \/ \E item \in items : Choose(item)

Spec == Init /\ [][Next]_vars
-----------------------------------------------------------------------------
(***************************************************************************)
(* Properties.                                                             *)
(***************************************************************************)

\* The types of the variables; and what can be chosen has a name.
TypeOK ==
  /\ table \subseteq Processes /\ lives \in 0..MaxLives /\ used \subseteq Pids
  /\ \A p, q \in table : p.pid = q.pid => p = q
  /\ items \subseteq [exe : Exes \ Hidden, pid : Pids]
  /\ disabled \in Items \cup {None} /\ disabled \notin items
  /\ executable \in [exe : Exes \ Hidden, pid : Pids] \cup {None}
  /\ found \in Processes \cup {None} /\ selected \in Processes \cup {None}
  /\ choices \in 0..MaxChoices

\* "Select process which you want to capture": through all changes of the
\* selection from one process to another, from a list that may be out of date,
\* what is captured runs the program that was chosen.
SelectedProgram == found # None => found.exe = executable.exe

\* While the process that was selected runs, and there are no more processes
\* than the array holds, a try finds that one, not another of the same program.
KeepsSelected ==
  [][\A seen \in Enumerations :
       TryHook(seen) /\ selected \in table /\ Cardinality(table) <= Limit => found' = selected]_vars

\* "Select process which you want to capture": and with more of them.
KeepsSelectedAlways ==
  [][\A seen \in Enumerations : TryHook(seen) /\ selected \in table => found' = selected]_vars
=============================================================================
