----------------------------- MODULE MCInvocation -----------------------------
(* Invocation for TLC: a call of two frames, a call of one, a forged call, a *)
(* call with bad input, one whose input selects no form, one on a client     *)
(* without a runner, and a raw command, on one session.                      *)
EXTENDS Invocation

CONSTANTS two, one, forged, bad, formless, bare, f1, f2, f3, f4, f5, raw

MCCalls == {two, one, forged, bad, formless, bare}
MCCanonical == MCCalls \ {forged}
MCWithRunner == MCCalls \ {bare}
MCBadInput == {bad}
MCCommands == {f1, f2, f3, f4, f5, raw}
MCFramesOf ==
    [i \in MCCalls |->
        CASE i = two -> <<f1, f2>>
          [] i = one -> <<f3>>
          [] i = forged -> <<f4>>
          [] i = bad -> <<f5>>
          [] i \in {formless, bare} -> <<>>]

\* "data" is a line of output, "ack" a "% ... done." line, "invalid" a failure.
MCExchanges ==
    {[stderr |-> FALSE, lines |-> <<"data">>],
     [stderr |-> FALSE, lines |-> <<"invalid", "data">>],
     [stderr |-> FALSE, lines |-> <<"data", "ack", "invalid">>],
     [stderr |-> TRUE, lines |-> <<"ack">>]}
===============================================================================
