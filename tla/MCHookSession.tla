---------------------------- MODULE MCHookSession ----------------------------
(* Instances of HookSession for TLC. *)
EXTENDS HookSession, TLC

CONSTANTS s1, s2, p1, p2

OneSource == {s1}
TwoSources == {s1, s2}
OneProc == {p1}
TwoProcs == {p1, p2}
SameExe == [p \in TwoProcs |-> "a"]
OwnExe == (p1 :> "a") @@ (p2 :> "b")

ProcSymmetry == Permutations(TwoProcs)
SourceSymmetry == Permutations(TwoSources)
Symmetry == {f @@ g : f \in ProcSymmetry, g \in SourceSymmetry}

\* Bound: two sources on one process, or one source with two; a source for which
\* nothing was ever selected is not there.
There == {s \in Sources : exe[s] # None \/ processId[s] # None}

Narrow ==
  /\ Cardinality(There) <= 1 \/ \E p \in Procs : \A q \in Procs \ {p} :
       life[q] = "new" /\ \A s \in Sources : q \notin {exe[s], processId[s]}
  /\ \A s \in Sources \ There : phase[s] = "idle"
=============================================================================
