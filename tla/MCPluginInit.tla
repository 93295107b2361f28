---------------------------- MODULE MCPluginInit ----------------------------
(* Instances of PluginInit for TLC. *)
EXTENDS PluginInit

CONSTANTS t1, t2, p1, p2

TwoThreads == {t1, t2}
TwoProcs == {p1, p2}
BothArchs == {"x64", "x86"}
OneEach == [p \in TwoProcs |-> IF p = p1 THEN "x64" ELSE "x86"]
=============================================================================
