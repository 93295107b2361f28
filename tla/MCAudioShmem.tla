---------------------------- MODULE MCAudioShmem ----------------------------
(* Instances of AudioShmem for TLC. *)
EXTENDS AudioShmem, TLC

CONSTANTS t1, t2, r1, r2

OneTarget == {t1}
TwoTargets == {t1, t2}
TwoRenderers == {r1, r2}
SameProcess == (r1 :> t1) @@ (r2 :> t1)
OwnProcess == (r1 :> t1) @@ (r2 :> t2)

RendererSymmetry == Permutations(TwoRenderers)
=============================================================================
