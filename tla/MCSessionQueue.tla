---------------------------- MODULE MCSessionQueue ----------------------------
(* SessionQueue for TLC: up to four calls, two of which share a signal.     *)
EXTENDS SessionQueue, TLC

CONSTANTS c1, c2, c3, c4, s1

MCCommands == {c1, c2, c3, c4}
MCSignals == {s1}

\* The first and the third call share a signal, the others pass none.
MCSignalOf == [c \in Commands |-> IF c \in {c1, c3} THEN s1 ELSE NoSignal]
===============================================================================
