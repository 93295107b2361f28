------------------------------ MODULE MCMixer ------------------------------
(* Instances of Mixer for TLC. *)
EXTENDS Mixer

CONSTANTS c1, c2

TwoClients == {c1, c2}
AnyTime == {0, 1000}

\* One client, which plays without a pause in one session.
Playing == [clients |-> {c1}, steady |-> {c1}, quiet |-> FALSE, soon |-> 0, late |-> 0,
            lag |-> 0, sessions |-> 1, end |-> 12]

\* Another one comes and goes.
Guest == [Playing EXCEPT !.clients = TwoClients, !.end = 10]

\* A client comes and goes, and its packets are late,
Late == [Playing EXCEPT !.steady = {}, !.late = 3]

\* or so late that some time stamps are not taken as they are.
Later == [Late EXCEPT !.soon = 4, !.late = 5, !.end = 13]

\* The source is stopped and started again.
Restarted == [Playing EXCEPT !.sessions = 2, !.end = 13]

\* Besides, packets are late and the mix thread is.
Behind == [Restarted EXCEPT !.late = 1, !.lag = 1]

\* A second session meets ticks that the first one kept waiting.
Left == [Restarted EXCEPT !.steady = {}, !.end = 10]

Ordinary == {Guest, Late, Later, Behind, Left}
RestartedLater == {[Restarted EXCEPT !.end = 34]}

\* Those of the counterexamples
Pausing == {[Playing EXCEPT !.steady = {}]}
PausingRestarted == {Left}
RestartedSoon == {[Restarted EXCEPT !.end = 16]}
Jitter == {[Playing EXCEPT !.late = 3]}
Onset == {[Playing EXCEPT !.quiet = TRUE]}
SubFrame == {[Playing EXCEPT !.late = 8]}
Jittery == {[Playing EXCEPT !.steady = {}, !.late = 2, !.end = 16]}
=============================================================================
