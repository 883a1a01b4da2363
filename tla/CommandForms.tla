----------------------------- MODULE CommandForms -----------------------------
(***************************************************************************)
(* The commands an operation can build, as patterns over argument tokens.   *)
(* A form is a sequence of slots; a slot says which tokens the validators    *)
(* of internal/domain-support.ts let through at one place of the command.    *)
(* Texts are not spelled out: a token is a documented word, a flag, an       *)
(* integer, or a value of some kind.                                         *)
(***************************************************************************)
EXTENDS Integers, Sequences

\* Upper end of an integer the code leaves unbounded: no smaller than any bound
\* it sets.
AnyInt == 2147483647

\* The integers a slot takes are lo .. hi. A slot that is many takes any number
\* of its tokens; one that begins an optional part skips as many slots with it.
Slots == [words : SUBSET STRING, flags : SUBSET STRING, kinds : SUBSET STRING,
          lo    : -AnyInt .. AnyInt, hi : -AnyInt .. AnyInt,
          skip  : Nat, many : BOOLEAN]

Slot == [words |-> {}, flags |-> {}, lo |-> 1, hi |-> 0, kinds |-> {},
         skip  |-> 0,  many  |-> FALSE]

\* A form: no optional part is longer than what is left of the command, and
\* none begins with a slot that takes any number of tokens.
WellFormed(f) ==
  /\ f \in Seq(Slots)
  /\ \A i \in DOMAIN f : /\ i + f[i].skip <= Len(f) + 1
                         /\ f[i].many => f[i].skip <= 1

(***************************************************************************)
(* One token.                                                              *)
(***************************************************************************)
Say(words) == [i \in DOMAIN words |-> [Slot EXCEPT !.words = {words[i]}]]

\* Mutant of One: assertOneOf lets any value through.
OneUnchecked(words) == << [Slot EXCEPT !.kinds = {"value"}] >>

One(words) == << [Slot EXCEPT !.words = words] >>
F(flag)    == << [Slot EXCEPT !.flags = {flag}] >>
Flags(set) == << [Slot EXCEPT !.flags = set] >>
N(a, b)    == << [Slot EXCEPT !.lo = a, !.hi = b] >>

Bit    == N(0, 1)
PosInt == N(1, AnyInt)
NonNeg == N(0, AnyInt)
Int0   == N(-AnyInt, AnyInt)

\* A value in a fixed notation: "ipv4", "mac", "ipv6", "time", "list", ...
Kind(k) == << [Slot EXCEPT !.kinds = {k}] >>
Ip      == Kind("ipv4")
Mac     == Kind("mac")
OnOff   == One({"on", "off"})

\* A caller's text as one argument that cannot be read as a flag.
Name   == Kind("value")
\* A caller's text as one argument that may begin with a dash.
Token  == Kind("token")
\* A caller's text between double quotes: one argument for the router.
Quoted == Kind("quoted")

\* Either of two one-token forms.
Or(a, b) ==
  << [Slot EXCEPT !.words = a[1].words \union b[1].words,
                  !.flags = a[1].flags \union b[1].flags,
                  !.kinds = a[1].kinds \union b[1].kinds,
                  !.lo    = IF a[1].lo <= a[1].hi THEN a[1].lo ELSE b[1].lo,
                  !.hi    = IF a[1].lo <= a[1].hi THEN a[1].hi ELSE b[1].hi] >>

(***************************************************************************)
(* Several tokens.                                                         *)
(***************************************************************************)
\* The whole of form, or nothing.
Opt(form) == [form EXCEPT ![1].skip = Len(form)]

\* Any number of tokens of a one-token form.
Many(form) == [form EXCEPT ![1].many = TRUE]

\* Free text to the end of the line: words that cannot be read as flags.
Text == Name \o Many(Name)

\* An opaque tail: no token begins with a dash but the documented flags.
Tail0(flags) == Or(Name, Flags(flags)) \o Many(Or(Name, Flags(flags)))
\* A tail whose first token is one of first.
TailFrom(first, flags) == first \o Many(Or(Name, Flags(flags)))

\* A flag list as one array of tokens, beginning with a flag (or keyword).
FlagArgs(flags)          == Flags(flags) \o Many(Or(Name, Flags(flags)))
FlagArgsOr(words, flags) == Or(One(words), Flags(flags)) \o Many(Or(Name, Flags(flags)))

Joined(parts) ==
  LET first[n \in 0 .. Len(parts)] ==
        IF n = 0 THEN <<>> ELSE first[n - 1] \o parts[n]
  IN first[Len(parts)]

\* Any subset of the parts, in order.
AnyOf(parts) == Joined([i \in DOMAIN parts |-> Opt(parts[i])])
\* Any subset but the empty one: the first part present is the i-th.
Some(parts) ==
  { parts[i] \o AnyOf(SubSeq(parts, i + 1, Len(parts))) : i \in DOMAIN parts }

\* A slot that takes any number of the tokens the parts are made of.
SlotsOf(parts) == UNION {{parts[i][j] : j \in DOMAIN parts[i]} : i \in DOMAIN parts}
AnyToken(parts) ==
  LET digits == \E s \in SlotsOf(parts) : s.lo <= s.hi
  IN [words |-> UNION {s.words : s \in SlotsOf(parts)},
      flags |-> UNION {s.flags : s \in SlotsOf(parts)},
      kinds |-> UNION {s.kinds : s \in SlotsOf(parts)},
      lo    |-> IF digits THEN -AnyInt ELSE 1,
      hi    |-> IF digits THEN AnyInt ELSE 0,
      skip  |-> 0,
      many  |-> TRUE]

\* Settings the caller lists in any order and number: one of the parts, and
\* after it whatever the tokens of the parts can be put together to.
Listed(parts) == { parts[i] \o <<AnyToken(parts)>> : i \in DOMAIN parts }

\* Every form of a set, after (before) what is common to them.
After(prefix, forms)  == { prefix \o f : f \in forms }
Before(forms, suffix) == { f \o suffix : f \in forms }

\* The operations of a family: every form begins with the family's words.
Under(words, ops) == {[op EXCEPT !.forms = After(Say(words), op.forms)] : op \in ops}

Op(id, class, forms)   == [id |-> id, class |-> class, forms |-> forms]
Read(id, forms)        == Op(id, "read", forms)
Write(id, forms)       == Op(id, "write", forms)
Destructive(id, forms) == Op(id, "destructive", forms)

(***************************************************************************)
(* Which tokens two slots have in common, and whether two forms have a      *)
(* command in common: the product of the two patterns, walked from the left.*)
(***************************************************************************)
Numbers(s) == s.lo <= s.hi

\* A slot for a caller's value, which may turn out to be any token but a flag:
\* notations are not told apart, so no overlap is missed.
Open(s)  == s.kinds \ {"quoted", "letter flag"} # {}
Plain(s) == Open(s) \/ s.words # {} \/ Numbers(s)

\* A slot that has flags, and a slot that can hold any of them.
Dashed(s)   == s.flags # {} \/ "letter flag" \in s.kinds
AnyFlag(s)  == s.kinds \intersect {"token", "letter flag"} # {}

Meets(s, t) ==
  \/ s.words \intersect t.words # {}
  \/ s.flags \intersect t.flags # {}
  \/ "quoted" \in s.kinds \intersect t.kinds
  \/ Numbers(s) /\ Numbers(t) /\ s.lo <= t.hi /\ t.lo <= s.hi
  \/ Open(s) /\ Plain(t)
  \/ Open(t) /\ Plain(s)
  \/ AnyFlag(s) /\ Dashed(t)
  \/ AnyFlag(t) /\ Dashed(s)

\* Some command is an instance of f and of g.
Overlap(f, g) ==
  LET walk[at \in (1 .. Len(f) + 1) \X (1 .. Len(g) + 1)] ==
        LET i == at[1]
            j == at[2]
            atF == i <= Len(f)
            atG == j <= Len(g)
            manyF == atF /\ f[i].many
            manyG == atG /\ g[j].many
        IN \/ ~atF /\ ~atG
           \/ /\ atF /\ atG /\ ~manyF /\ ~manyG
              /\ Meets(f[i], g[j])
              /\ walk[<<i + 1, j + 1>>]
           \/ manyF /\ walk[<<i + 1, j>>]
           \/ manyG /\ walk[<<i, j + 1>>]
           \/ manyF /\ atG /\ ~manyG /\ Meets(f[i], g[j]) /\ walk[<<i, j + 1>>]
           \/ manyG /\ atF /\ ~manyF /\ Meets(f[i], g[j]) /\ walk[<<i + 1, j>>]
           \/ atF /\ f[i].skip > 0 /\ walk[<<i + f[i].skip, j>>]
           \/ atG /\ g[j].skip > 0 /\ walk[<<i, j + g[j].skip>>]
  IN walk[<<1, 1>>]

===============================================================================
