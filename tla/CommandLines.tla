------------------------------ MODULE CommandLines ------------------------------
(***************************************************************************)
(* What a form of CommandForms stands for: the command lines it describes,  *)
(* token by token. Meets and Overlap compare slots and forms; here is what   *)
(* they compare. A token is what the router sees of one argument: a word, a  *)
(* flag, an integer, a value in a notation of its own, or a quoted text.      *)
(***************************************************************************)
EXTENDS CommandForms

Tokens == [sort : {"word", "flag", "value", "quoted"}, of : STRING]
            \union [sort : {"number"}, of : Int]

\* The validator of slot s lets token t through.
Fits(t, s) ==
  \/ t.sort = "word"   /\ (t.of \in s.words \/ Open(s))
  \/ t.sort = "flag"   /\ (t.of \in s.flags \/ AnyFlag(s))
  \/ t.sort = "number" /\ (t.of \in s.lo .. s.hi \/ Open(s))
  \/ t.sort = "value"  /\ Open(s)
  \/ t.sort = "quoted" /\ "quoted" \in s.kinds

Fitting(s) == {t \in Tokens : Fits(t, s)}

\* What a slot can hold: one token, or any number of them.
Held(s) == IF s.many THEN Seq(Fitting(s)) ELSE {<<t>> : t \in Fitting(s)}

\* Every one of lines followed by every one of rests.
Followed(lines, rests) == {line \o rest : line \in lines, rest \in rests}

\* The command lines of a form: what its slots hold, one after the other, with
\* or without the parts it leaves to the caller.
Lines(f) ==
  LET from[i \in 1 .. Len(f) + 1] ==
        IF i = Len(f) + 1
        THEN {<<>>}
        ELSE Followed(Held(f[i]), from[i + 1])
             \union (IF f[i].skip > 0 THEN from[i + f[i].skip] ELSE {})
  IN from[1]
===============================================================================
