--------------------------- MODULE MCCommandRunner ---------------------------
(* CommandRunner for TLC: up to three commands, the first and the third on   *)
(* one signal, the second on its own, which is aborted with a timeout error. *)
EXTENDS CommandRunner

CONSTANTS c1, c2, c3, s1, s2

MCCommands == {c1, c2, c3}
MCPair == {c1, c2}
MCTwoSignals == {s1, s2}
MCOwnSignals == [c \in Commands |-> IF c \in {c1, c3} THEN s1 ELSE s2]
MCTimeoutSignals == {s2}
==============================================================================
