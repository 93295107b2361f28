---------------------------- MODULE MCProcessList ----------------------------
(* Instances of ProcessList for TLC. *)
EXTENDS ProcessList, TLC

CONSTANTS i1, i2, i3, i4, a, b, system

ThreePids == {i1, i2, i3}
ThreeExes == {a, b, system}
SystemOnly == {system}
FourPids == {i1, i2, i3, i4}
PidSymmetry == Permutations(FourPids)
=============================================================================
