------------------------- MODULE ProcessListProofs -------------------------
(***************************************************************************)
(* Proofs about ProcessList: as long as Windows does not use an id again,  *)
(* a source captures the program the user chose, for any number of ids,    *)
(* programs and processes and any length of the array; and while the       *)
(* process selected runs, within that length, it captures that one.        *)
(*                                                                         *)
(* SelectedProgram is not inductive: a try that finds a process by its id  *)
(* must know that no other program has had that id.  So IInv says of every *)
(* id that a source holds or the user may still choose that it was used,   *)
(* and by which program (Denotes).                                         *)
(***************************************************************************)
EXTENDS ProcessList, FiniteSetTheorems, TLAPS

\* Whatever process has the item's id runs the item's program, now and later.
Denotes(item) ==
  /\ item.pid \in used
  /\ \A p \in table : p.pid = item.pid => p.exe = item.exe

IdsUsed == \A p \in table : p.pid \in used

ItemsDenote == \A item \in items : Denotes(item)

SelectionDenotes ==
  /\ executable # None => Denotes(executable)
  /\ selected # None => executable = Item(selected)

IInv ==
  /\ TypeOK /\ IsFiniteSet(table)
  /\ IdsUsed /\ ItemsDenote /\ SelectionDenotes /\ SelectedProgram

-----------------------------------------------------------------------------
(* Facts about the operators. *)

\* What a try finds is a process that runs, has a name, and has either the id
\* or the program of the selection.
LEMMA FoundFacts ==
  ASSUME IInv, executable # None, NEW seen \in Enumerations, NEW p \in FindSelected(seen)
  PROVE  /\ p \in table /\ p.exe = executable.exe
         /\ p.pid # executable.pid => \A q \in seen : q.pid # executable.pid
<1>1. seen \subseteq table
  BY DEF Enumerations, kSubset
<1>2. CASE \E q \in seen : q.pid = executable.pid
  <2>1. p \in seen /\ p.pid = executable.pid
    BY <1>2 DEF FindSelected
  <2>2. p.exe = executable.exe
    BY <1>1, <2>1 DEF IInv, SelectionDenotes, Denotes
  <2> QED
    BY <1>1, <2>1, <2>2
<1>3. CASE \A q \in seen : q.pid # executable.pid
  <2>1. p \in seen /\ p.exe = executable.exe
    BY <1>3 DEF FindSelected, Others
  <2> QED
    BY <1>1, <1>3, <2>1
<1> QED
  BY <1>2, <1>3

\* An item as its process has it denotes that process's program.
LEMMA ItemDenotes ==
  ASSUME IInv, NEW p \in table
  PROVE  Denotes(Item(p)) /\ Item(p) \in Items
<1>1. p \in Processes /\ \A q \in table : q.pid = p.pid => q = p
  BY DEF IInv, TypeOK
<1> QED
  BY <1>1 DEF IInv, IdsUsed, Denotes, Item, Items, Processes

\* Enumerations of a table that fits into the array are complete.
LEMMA Complete ==
  ASSUME IInv, Cardinality(table) <= Limit, NEW seen \in Enumerations
  PROVE  seen = table
<1>1. Cardinality(table) \in Nat
  BY FS_CardinalityType DEF IInv
<1>2. Min({Limit, Cardinality(table)}) = Cardinality(table)
  BY <1>1, ListAssumption DEF Min
<1>3. seen \in SUBSET table /\ Cardinality(seen) = Cardinality(table)
  BY <1>2 DEF Enumerations, kSubset
<1> QED
  BY <1>3, FS_Subset DEF IInv
-----------------------------------------------------------------------------
(* Each action preserves IInv. *)

\* Nothing is running, listed or selected at first.
LEMMA InitIInv == Init => IInv
BY ListAssumption, NoneAssumption, FS_EmptySet
   DEF Init, IInv, TypeOK, IdsUsed, ItemsDenote, SelectionDenotes, SelectedProgram

\* A process starts under an id that was never used.
LEMMA StartsStep ==
  ASSUME ~Reuse, IInv, NEW pid \in Pids, NEW exe \in Exes, Starts(pid, exe)
  PROVE  IInv'
<1> DEFINE new == [exe |-> exe, pid |-> pid, life |-> lives + 1]
<1>1. pid \notin used /\ table' = table \cup {new} /\ used' = used \cup {pid}
  BY DEF Starts
<1>2. lives + 1 \in 1..MaxLives
  BY ListAssumption DEF Starts, IInv, TypeOK
<1>3. new \in Processes /\ \A p \in table : p.pid # pid
  BY <1>1, <1>2 DEF Processes, IInv, IdsUsed
<1>4. UNCHANGED <<items, disabled, executable, found, selected, choices>>
  BY DEF Starts, listVars, sourceVars
<1>5. lives' \in 0..MaxLives
  BY <1>2 DEF Starts
<1>6. TypeOK'
  BY <1>1, <1>3, <1>4, <1>5 DEF IInv, TypeOK
<1>7. IsFiniteSet(table')
  BY <1>1, FS_AddElement DEF IInv
<1>8. ASSUME NEW item, Denotes(item) PROVE Denotes(item)'
  BY <1>1, <1>8 DEF Denotes
<1>9. IdsUsed' /\ ItemsDenote' /\ SelectionDenotes' /\ SelectedProgram'
  BY <1>1, <1>4, <1>8 DEF IInv, IdsUsed, ItemsDenote, SelectionDenotes, SelectedProgram, Item, Denotes
<1> QED
  BY <1>6, <1>7, <1>9 DEF IInv

\* A process ends; the items and selections that name it stay.
LEMMA EndsStep ==
  ASSUME IInv, NEW p \in table, Ends(p)
  PROVE  IInv'
<1>1. table' = table \ {p}
  BY DEF Ends
<1>2. UNCHANGED <<lives, used, items, disabled, executable, found, selected, choices>>
  BY DEF Ends, listVars, sourceVars
<1>3. TypeOK'
  BY <1>1, <1>2 DEF IInv, TypeOK
<1>4. IsFiniteSet(table')
  BY <1>1, FS_RemoveElement DEF IInv
<1>5. IdsUsed' /\ ItemsDenote' /\ SelectionDenotes' /\ SelectedProgram'
  BY <1>1, <1>2 DEF IInv, IdsUsed, ItemsDenote, SelectionDenotes, SelectedProgram, Item, Denotes
<1> QED
  BY <1>3, <1>4, <1>5 DEF IInv

\* The list of the properties holds what the table has now.
LEMMA PropertiesStep ==
  ASSUME IInv, NEW seen \in Enumerations, Properties(seen)
  PROVE  IInv'
<1>1. seen \subseteq table /\ table \subseteq Processes
  BY DEF Enumerations, kSubset, IInv, TypeOK
<1>2. UNCHANGED <<table, lives, used, executable, found, selected, choices>>
  BY DEF Properties, systemVars, sourceVars
<1>3. items' = {Item(p) : p \in {q \in seen : Nameable(q)}} /\ disabled' = Disabled(items')
  BY DEF Properties
<1>4. items' \subseteq [exe : Exes \ Hidden, pid : Pids]
  BY <1>1, <1>3 DEF Item, Nameable, Processes
<1>5. None \notin items'
  BY <1>4, NoneAssumption DEF Items
<1>6. disabled' \in Items \cup {None} /\ disabled' \notin items'
  BY <1>3, <1>5 DEF Disabled, IInv, TypeOK, Items
<1>7. TypeOK'
  BY <1>2, <1>4, <1>6 DEF IInv, TypeOK
<1>8. ItemsDenote'
  BY <1>1, <1>2, <1>3, ItemDenotes DEF ItemsDenote, Denotes
<1> QED
  BY <1>2, <1>7, <1>8 DEF IInv, IdsUsed, SelectionDenotes, SelectedProgram, Item, Denotes

\* What the user chooses is an item of the list or what was selected.
LEMMA ChooseStep ==
  ASSUME IInv, NEW item \in items, Choose(item)
  PROVE  IInv'
<1>1. /\ executable' = item /\ selected' = Holder(item) /\ found' = None
      /\ choices < MaxChoices /\ choices' = choices + 1
      /\ UNCHANGED <<table, lives, used, items, disabled>>
  BY DEF Choose, systemVars, listVars
<1>2. Holder(item) # None => Holder(item) \in table /\ item = Item(Holder(item))
  <2>1. item = [exe |-> item.exe, pid |-> item.pid]
    BY DEF IInv, TypeOK
  <2> QED
    BY <2>1 DEF Holder, Item
<1>3. Holder(item) \in Processes \cup {None}
  BY <1>2 DEF IInv, TypeOK
<1>4. choices' \in 0..MaxChoices
  BY <1>1, ListAssumption DEF IInv, TypeOK
<1>5. TypeOK'
  BY <1>1, <1>3, <1>4 DEF IInv, TypeOK
<1>6. SelectionDenotes'
  BY <1>1, <1>2 DEF IInv, ItemsDenote, SelectionDenotes, Denotes, Item
<1> QED
  BY <1>1, <1>5, <1>6 DEF IInv, IdsUsed, ItemsDenote, SelectedProgram, Denotes

\* A try goes to a process of the table that the selection fits.
LEMMA TryHookStep ==
  ASSUME IInv, NEW seen \in Enumerations, TryHook(seen)
  PROVE  IInv'
<1>1. executable # None /\ UNCHANGED <<table, lives, used, items, disabled, choices>>
  BY DEF TryHook, systemVars, listVars
<1>2. CASE found' = None /\ UNCHANGED <<executable, selected>>
  BY <1>1, <1>2 DEF IInv, TypeOK, IdsUsed, ItemsDenote, SelectionDenotes, SelectedProgram, Item, Denotes
<1>3. ASSUME NEW p \in FindSelected(seen), found' = p, p.pid = executable.pid,
             UNCHANGED <<executable, selected>>
      PROVE  IInv'
  <2>1. p \in Processes /\ p.exe = executable.exe
    BY <1>1, FoundFacts DEF IInv, TypeOK
  <2> QED
    BY <1>1, <1>3, <2>1
       DEF IInv, TypeOK, IdsUsed, ItemsDenote, SelectionDenotes, SelectedProgram, Item, Denotes
<1>4. ASSUME NEW p \in FindSelected(seen), found' = p, p.pid # executable.pid,
             executable' = [executable EXCEPT !.pid = p.pid], selected' = p
      PROVE  IInv'
  <2>1. p \in table /\ p \in Processes /\ p.exe = executable.exe
    BY <1>1, FoundFacts DEF IInv, TypeOK
  <2>2. executable \in [exe : Exes \ Hidden, pid : Pids]
    BY <1>1 DEF IInv, TypeOK
  <2>3. executable' = Item(p) /\ executable' \in [exe : Exes \ Hidden, pid : Pids]
    BY <1>4, <2>1, <2>2 DEF Item, Processes
  <2>4. TypeOK'
    BY <1>1, <1>4, <2>1, <2>3 DEF IInv, TypeOK
  <2>5. SelectionDenotes'
    BY <1>1, <1>4, <2>1, <2>3, ItemDenotes DEF SelectionDenotes, Denotes, Item
  <2>6. SelectedProgram'
    BY <1>4, <2>3 DEF SelectedProgram, Item
  <2> QED
    BY <1>1, <2>4, <2>5, <2>6 DEF IInv, IdsUsed, ItemsDenote, Denotes
<1> QED
  BY <1>2, <1>3, <1>4 DEF TryHook
-----------------------------------------------------------------------------
\* Every step keeps the invariant, if no id is used again.
LEMMA Inductive ==
  ASSUME ~Reuse, IInv, [Next]_vars
  PROVE  IInv'
<1>1. CASE UNCHANGED vars
  BY <1>1 DEF vars, systemVars, listVars, sourceVars, IInv, TypeOK, IdsUsed, ItemsDenote,
              SelectionDenotes, SelectedProgram, Item, Denotes
<1>2. CASE Next
  BY <1>2, StartsStep, EndsStep, PropertiesStep, ChooseStep, TryHookStep DEF Next
<1> QED
  BY <1>1, <1>2

\* IInv, what is known of ids, items and selections, holds in every reachable
\* state, if no id is used again (windows-helpers.cpp 65-90).
THEOREM Invariance == ~Reuse => (Spec => []IInv)
<1> SUFFICES ASSUME ~Reuse PROVE Spec => []IInv
  OBVIOUS
<1> QED
  BY InitIInv, Inductive, PTL DEF Spec

\* The types are right, and what the user can choose has a name.
THEOREM TypeCorrect == ~Reuse => (Spec => []TypeOK)
<1>1. IInv => TypeOK
  BY DEF IInv
<1> QED
  BY <1>1, Invariance, PTL

\* A source captures the program that was chosen, if no id is used again.
THEOREM ProgramKept == ~Reuse => (Spec => []SelectedProgram)
<1>1. IInv => SelectedProgram
  BY DEF IInv
<1> QED
  BY <1>1, Invariance, PTL

\* A try finds the process selected while it runs, if the array holds them all.
THEOREM ProcessKept == ~Reuse => (Spec => KeepsSelected)
<1>1. IInv => [\A seen \in Enumerations :
                 TryHook(seen) /\ selected \in table /\ Cardinality(table) <= Limit
                   => found' = selected]_vars
  <2> SUFFICES ASSUME IInv, NEW seen \in Enumerations, TryHook(seen),
                      selected \in table, Cardinality(table) <= Limit
               PROVE  found' = selected
    OBVIOUS
  <2>1. seen = table
    BY Complete
  <2>2. selected # None
    BY NoneAssumption DEF IInv, TypeOK
  <2>3. selected.pid = executable.pid
    BY <2>2 DEF IInv, SelectionDenotes, Item
  <2>4. \A p \in table : p.pid = executable.pid => p = selected
    BY <2>3 DEF IInv, TypeOK
  <2>5. FindSelected(seen) = {selected}
    BY <2>1, <2>3, <2>4 DEF FindSelected
  <2> QED
    BY <2>5 DEF TryHook
<1> QED
  BY <1>1, Invariance, PTL DEF KeepsSelected
=============================================================================
