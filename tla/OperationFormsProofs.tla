------------------------- MODULE OperationFormsProofs -------------------------
(***************************************************************************)
(* Proofs about OperationForms: that comparing two forms slot by slot, as   *)
(* Overlap does, misses no command line the forms have in common and invents *)
(* none, and so that the two invariants on the classes of operations, which  *)
(* speak of forms, say of the command lines themselves what they should, for *)
(* any table of operations; and what the operators the tables are written    *)
(* with stand for.                                                           *)
(***************************************************************************)
EXTENDS OperationForms, CommandLines, SequenceTheorems, WellFoundedInduction,
        TLAPS

-----------------------------------------------------------------------------
(* Slots *)

\* Whatever passes the validators of two slots, Meets says so.
LEMMA MeetsIsSound ==
    ASSUME NEW s \in Slots, NEW u \in Slots, NEW t \in Tokens,
           Fits(t, s), Fits(t, u)
    PROVE  Meets(s, u)
<1>1. CASE t.sort = "word"
      BY <1>1 DEF Fits, Meets, Plain
<1>2. CASE t.sort = "flag"
      <2>1. CASE t.of \in s.flags \/ t.of \in u.flags
            BY <1>2, <2>1 DEF Fits, Meets, Dashed
      <2>2. CASE AnyFlag(s) /\ AnyFlag(u)
            <3>1. CASE "letter flag" \in s.kinds \/ "letter flag" \in u.kinds
                  BY <2>2, <3>1 DEF Meets, Dashed
            <3>2. CASE "letter flag" \notin s.kinds /\ "letter flag" \notin u.kinds
                  <4>1. "token" \in s.kinds /\ "token" \in u.kinds
                        BY <2>2, <3>2 DEF AnyFlag
                  <4>2. "token" \notin {"quoted", "letter flag"}
                        OBVIOUS
                  <4>3. Open(s) /\ Open(u)
                        BY <4>1, <4>2 DEF Open
                  <4> QED BY <4>3 DEF Meets, Plain
            <3> QED BY <3>1, <3>2
      <2> QED BY <1>2, <2>1, <2>2 DEF Fits
<1>3. CASE t.sort = "number"
      <2>1. CASE Open(s) \/ Open(u)
            <3>1. Numbers(s) \/ Open(s)
                  BY <1>3 DEF Fits, Numbers, Slots
            <3>2. Numbers(u) \/ Open(u)
                  BY <1>3 DEF Fits, Numbers, Slots
            <3> QED BY <2>1, <3>1, <3>2 DEF Meets, Plain
      <2>2. CASE ~Open(s) /\ ~Open(u)
            <3>1. t.of \in s.lo .. s.hi /\ t.of \in u.lo .. u.hi
                  BY <1>3, <2>2 DEF Fits
            <3>2. Numbers(s) /\ Numbers(u) /\ s.lo <= u.hi /\ u.lo <= s.hi
                  BY <3>1 DEF Numbers, Slots
            <3> QED BY <3>2 DEF Meets
      <2> QED BY <2>1, <2>2
<1>4. CASE t.sort = "value"
      BY <1>4 DEF Fits, Meets, Plain
<1>5. CASE t.sort = "quoted"
      BY <1>5 DEF Fits, Meets
<1> QED BY <1>1, <1>2, <1>3, <1>4, <1>5 DEF Fits

\* And when Meets says so, some token passes both.
LEMMA MeetsIsExact ==
    ASSUME NEW s \in Slots, NEW u \in Slots, Meets(s, u)
    PROVE  \E t \in Tokens : Fits(t, s) /\ Fits(t, u)
<1>1. \A w \in STRING, k \in {"word", "flag", "value", "quoted"} :
         /\ [sort |-> k, of |-> w] \in Tokens
         /\ [sort |-> k, of |-> w].sort = k
         /\ [sort |-> k, of |-> w].of = w
      BY DEF Tokens
<1>2. \A n \in Int : /\ [sort |-> "number", of |-> n] \in Tokens
                     /\ [sort |-> "number", of |-> n].sort = "number"
                     /\ [sort |-> "number", of |-> n].of = n
      BY DEF Tokens
<1>3. \A x \in {s, u} : /\ x.words \subseteq STRING /\ x.flags \subseteq STRING
                        /\ x.lo \in Int /\ x.hi \in Int
      BY DEF Slots
<1>0. \A x \in {s, u} : x.kinds \subseteq STRING
      BY DEF Slots
<1>4. ASSUME NEW w \in STRING, w \in s.words \/ Open(s), w \in u.words \/ Open(u)
      PROVE  \E t \in Tokens : Fits(t, s) /\ Fits(t, u)
      <2>1. PICK t \in Tokens : t.sort = "word" /\ t.of = w
            BY <1>1
      <2> QED BY <1>4, <2>1 DEF Fits
<1>5. ASSUME NEW w \in STRING, w \in s.flags \/ AnyFlag(s), w \in u.flags \/ AnyFlag(u)
      PROVE  \E t \in Tokens : Fits(t, s) /\ Fits(t, u)
      <2>1. PICK t \in Tokens : t.sort = "flag" /\ t.of = w
            BY <1>1
      <2> QED BY <1>5, <2>1 DEF Fits
<1>6. ASSUME NEW n \in Int, n \in s.lo .. s.hi \/ Open(s), n \in u.lo .. u.hi \/ Open(u)
      PROVE  \E t \in Tokens : Fits(t, s) /\ Fits(t, u)
      <2>1. PICK t \in Tokens : t.sort = "number" /\ t.of = n
            BY <1>2
      <2> QED BY <1>6, <2>1 DEF Fits
<1>7. CASE s.words \intersect u.words # {}
      BY <1>3, <1>4, <1>7
<1>8. CASE s.flags \intersect u.flags # {}
      BY <1>3, <1>5, <1>8
<1>9. CASE "quoted" \in s.kinds \intersect u.kinds
      <2>1. PICK t \in Tokens : t.sort = "quoted"
            BY <1>0, <1>1, <1>9
      <2> QED BY <1>9, <2>1 DEF Fits
<1>10. CASE Numbers(s) /\ Numbers(u) /\ s.lo <= u.hi /\ u.lo <= s.hi
      <2>1. PICK n \in Int : n \in s.lo .. s.hi /\ n \in u.lo .. u.hi
            <3>1. CASE s.lo <= u.lo
                  BY <1>3, <1>10, <3>1 DEF Numbers
            <3>2. CASE u.lo <= s.lo
                  BY <1>3, <1>10, <3>2 DEF Numbers
            <3> QED BY <1>3, <3>1, <3>2
      <2> QED BY <1>6, <2>1
<1>11. ASSUME NEW x \in {s, u}, NEW y \in {s, u}, Open(x), Plain(y), {x, y} = {s, u}
      PROVE  \E t \in Tokens : Fits(t, s) /\ Fits(t, u)
      <2>1. CASE Open(y)
            BY <1>0, <1>4, <1>11, <2>1 DEF Open
      <2>2. CASE y.words # {}
            BY <1>3, <1>4, <1>11, <2>2
      <2>3. CASE Numbers(y)
            <3>1. y.lo \in Int /\ y.lo \in y.lo .. y.hi
                  BY <1>3, <2>3 DEF Numbers
            <3> QED BY <1>6, <1>11, <3>1
      <2> QED BY <1>11, <2>1, <2>2, <2>3 DEF Plain
<1>12. ASSUME NEW x \in {s, u}, NEW y \in {s, u}, AnyFlag(x), Dashed(y), {x, y} = {s, u}
      PROVE  \E t \in Tokens : Fits(t, s) /\ Fits(t, u)
      <2>1. CASE y.flags # {}
            BY <1>3, <1>5, <1>12, <2>1
      <2>2. CASE "letter flag" \in y.kinds
            <3>1. AnyFlag(y)
                  BY <2>2 DEF AnyFlag
            <3> QED BY <1>0, <1>5, <1>12, <2>2, <3>1
      <2> QED BY <1>12, <2>1, <2>2 DEF Dashed
<1> QED BY <1>7, <1>8, <1>9, <1>10, <1>11, <1>12 DEF Meets

-----------------------------------------------------------------------------
(* Command lines *)

\* Induction over the naturals, about a set instead of a predicate.
LEMMA NaturalSetInduction ==
    ASSUME NEW T \in SUBSET Nat, 0 \in T, \A n \in T : n + 1 \in T
    PROVE  T = Nat
<1> DEFINE U == Nat \ T
<1> SUFFICES ASSUME U # {}
             PROVE  FALSE
    OBVIOUS
<1>1. PICK x \in U : \A y \in U : ~ (<<y, x>> \in OpToRel(<, Nat))
      <2>1. U \subseteq Nat
            OBVIOUS
      <2> HIDE DEF U
      <2> QED BY <2>1, NatLessThanWellFounded, WFMin
<1>2. x # 0 /\ x \in Nat
      OBVIOUS
<1>3. x - 1 \in Nat /\ x - 1 < x /\ (x - 1) + 1 = x
      BY <1>2
<1>4. <<x - 1, x>> \in OpToRel(<, Nat)
      BY <1>2, <1>3 DEF OpToRel
<1>5. x - 1 \notin U
      BY <1>1, <1>4
<1> QED BY <1>2, <1>3, <1>5

\* What the slots of a form are.
LEMMA FormSlots ==
    ASSUME NEW f, WellFormed(f)
    PROVE  /\ Len(f) \in Nat
           /\ \A i \in 1 .. Len(f) :
                 /\ f[i] \in Slots
                 /\ f[i].skip \in Nat
                 /\ i + 1 \in 1 .. Len(f) + 1
                 /\ i + f[i].skip \in 1 .. Len(f) + 1
                 /\ f[i].many => f[i].skip \in {0, 1}
<1>1. f \in Seq(Slots) /\ Len(f) \in Nat /\ DOMAIN f = 1 .. Len(f)
      BY LenProperties DEF WellFormed
<1>2. ASSUME NEW i \in 1 .. Len(f)
      PROVE  /\ f[i] \in Slots
             /\ f[i].skip \in Nat
             /\ i + 1 \in 1 .. Len(f) + 1
             /\ i + f[i].skip \in 1 .. Len(f) + 1
             /\ f[i].many => f[i].skip \in {0, 1}
      <2>1. f[i] \in Slots
            BY <1>1, ElementOfSeq
      <2>2. f[i].skip \in Nat
            BY <2>1 DEF Slots
      <2>3. i + f[i].skip <= Len(f) + 1 /\ (f[i].many => f[i].skip <= 1)
            BY <1>1 DEF WellFormed
      <2> QED BY <1>1, <2>1, <2>2, <2>3
<1> QED BY <1>1, <1>2

\* The lines that begin at the i-th slot of f, from those that begin later.
LinesAt(from, f, i) ==
    IF i = Len(f) + 1
    THEN {<<>>}
    ELSE Followed(Held(f[i]), from[i + 1])
         \union (IF f[i].skip > 0 THEN from[i + f[i].skip] ELSE {})

\* from gives the lines of every end of f.
LinesFrom(from, f) == from = [i \in 1 .. Len(f) + 1 |-> LinesAt(from, f, i)]

\* The lines from a slot on depend on those from later slots only.
LEMMA LinesAtAgree ==
    ASSUME NEW f, WellFormed(f), NEW a, NEW b, NEW i \in 1 .. Len(f) + 1,
           \A k \in i + 1 .. Len(f) + 1 : a[k] = b[k]
    PROVE  LinesAt(a, f, i) = LinesAt(b, f, i)
<1>1. CASE i = Len(f) + 1
      BY <1>1 DEF LinesAt
<1>2. CASE i # Len(f) + 1
      <2>1. i \in 1 .. Len(f)
            BY <1>2, FormSlots
      <2>2. f[i].skip \in Nat /\ i + 1 \in i + 1 .. Len(f) + 1
            BY <2>1, FormSlots
      <2>3. f[i].skip > 0 => i + f[i].skip \in i + 1 .. Len(f) + 1
            BY <2>1, <2>2, FormSlots
      <2>4. a[i + 1] = b[i + 1]
            BY <2>2
      <2>5. f[i].skip > 0 => a[i + f[i].skip] = b[i + f[i].skip]
            BY <2>3
      <2> QED BY <1>2, <2>4, <2>5 DEF LinesAt
<1> QED BY <1>1, <1>2

\* Every form has its lines.
LEMMA LinesExist ==
    ASSUME NEW f, WellFormed(f) PROVE \E from : LinesFrom(from, f)
<1>1. PICK l \in Nat : l = Len(f)
      BY FormSlots
<1> DEFINE T == {n \in Nat : n <= l =>
                   \E from : \A i \in l + 1 - n .. l + 1 : from[i] = LinesAt(from, f, i)}
<1>2. 0 \in T
      <2> DEFINE a == [i \in 1 .. l + 1 |-> {<<>>}]
      <2>1. \A i \in l + 1 - 0 .. l + 1 : i = l + 1 /\ i \in 1 .. l + 1
            OBVIOUS
      <2>2. \A i \in l + 1 - 0 .. l + 1 : a[i] = LinesAt(a, f, i)
            BY <1>1, <2>1 DEF LinesAt
      <2> QED BY <2>2
<1>3. ASSUME NEW n \in T
      PROVE  n + 1 \in T
      <2>1. n \in Nat /\ n + 1 \in Nat
            OBVIOUS
      <2>2. SUFFICES ASSUME n + 1 <= l
                     PROVE  \E from : \A i \in l + 1 - (n + 1) .. l + 1 :
                               from[i] = LinesAt(from, f, i)
            BY <2>1
      <2>3. PICK a : \A i \in l + 1 - n .. l + 1 : a[i] = LinesAt(a, f, i)
            BY <2>1, <2>2
      <2>4. PICK m \in 1 .. l : m = l - n
            BY <2>1, <2>2
      <2> DEFINE b == [i \in 1 .. l + 1 |-> IF i = m THEN LinesAt(a, f, i) ELSE a[i]]
      <2>5. \A i \in m + 1 .. l + 1 : b[i] = a[i]
            BY <2>4
      <2>6. b[m] = LinesAt(a, f, m)
            BY <2>4
      <2> HIDE DEF b
      <2>7. ASSUME NEW i \in m .. l + 1
            PROVE  b[i] = LinesAt(b, f, i)
            <3>1. i \in 1 .. l + 1 /\ \A k \in i + 1 .. l + 1 : a[k] = b[k]
                  BY <2>4, <2>5
            <3>2. LinesAt(a, f, i) = LinesAt(b, f, i)
                  BY <1>1, <3>1, LinesAtAgree
            <3>3. CASE i = m
                  BY <2>6, <3>2, <3>3
            <3>4. CASE i # m
                  BY <2>1, <2>3, <2>4, <2>5, <3>2, <3>4
            <3> QED BY <3>3, <3>4
      <2> QED BY <2>1, <2>4, <2>7
<1>4. T = Nat
      <2> HIDE DEF T
      <2>1. T \in SUBSET Nat
            BY DEF T
      <2> QED BY <1>2, <1>3, <2>1, NaturalSetInduction
<1>5. PICK a : \A i \in l + 1 - l .. l + 1 : a[i] = LinesAt(a, f, i)
      BY <1>4
<1> DEFINE b == [i \in 1 .. l + 1 |-> a[i]]
<1>6. ASSUME NEW i \in 1 .. l + 1
      PROVE  b[i] = LinesAt(b, f, i)
      <2>1. b[i] = LinesAt(a, f, i)
            BY <1>5
      <2>2. \A k \in i + 1 .. l + 1 : a[k] = b[k]
            OBVIOUS
      <2> HIDE DEF b
      <2> QED BY <1>1, <2>1, <2>2, LinesAtAgree
<1>7. b = [i \in 1 .. l + 1 |-> LinesAt(b, f, i)]
      <2>1. b = [i \in 1 .. l + 1 |-> b[i]]
            OBVIOUS
      <2> HIDE DEF b
      <2> QED BY <1>6, <2>1
<1>8. LinesFrom(b, f)
      <2> HIDE DEF b
      <2> QED BY <1>1, <1>7 DEF LinesFrom
<1> QED BY <1>8

\* Lines are what its definition says they are.
LEMMA LinesDef ==
    ASSUME NEW f, WellFormed(f)
    PROVE  \E from : LinesFrom(from, f) /\ Lines(f) = from[1]
<1> DEFINE from == CHOOSE a : LinesFrom(a, f)
<1>1. LinesFrom(from, f)
      BY LinesExist
<1>2. Lines(f) = from[1]
      BY DEF Lines, LinesFrom, LinesAt
<1> QED BY <1>1, <1>2

\* What a slot holds is made of tokens that fit it.
LEMMA HeldTokens ==
    ASSUME NEW s
    PROVE  /\ Fitting(s) \subseteq Tokens
           /\ Held(s) \subseteq Seq(Fitting(s))
           /\ Held(s) \subseteq Seq(Tokens)
<1>1. Fitting(s) \subseteq Tokens
      BY DEF Fitting
<1>2. Held(s) \subseteq Seq(Fitting(s))
      <2>1. \A t \in Fitting(s) : <<t>> \in Seq(Fitting(s))
            OBVIOUS
      <2> QED BY <2>1 DEF Held
<1>3. Seq(Fitting(s)) \subseteq Seq(Tokens)
      BY <1>1, SeqMonotonic
<1> QED BY <1>1, <1>2, <1>3

\* A line put together from two lines is a line.
LEMMA FollowedType ==
    ASSUME NEW A \in SUBSET Seq(Tokens), NEW B \in SUBSET Seq(Tokens)
    PROVE  Followed(A, B) \subseteq Seq(Tokens)
<1>1. \A a \in A, b \in B : a \o b \in Seq(Tokens)
      BY ConcatProperties
<1>2. ASSUME NEW x \in Followed(A, B)
      PROVE  x \in Seq(Tokens)
      <2>1. PICK a \in A, b \in B : x = a \o b
            BY DEF Followed
      <2> QED BY <1>1, <2>1
<1> QED BY <1>2

\* A line of the first set and one of the second make one line.
LEMMA FollowedHas ==
    ASSUME NEW A, NEW B, NEW a \in A, NEW b \in B
    PROVE  a \o b \in Followed(A, B)
BY DEF Followed

\* And there is no other line among them.
LEMMA FollowedSplits ==
    ASSUME NEW A, NEW B, NEW line \in Followed(A, B)
    PROVE  \E a \in A : \E b \in B : line = a \o b
BY DEF Followed

\* The lines of a form are sequences of tokens.
LEMMA LinesType ==
    ASSUME NEW f, WellFormed(f), NEW from, LinesFrom(from, f)
    PROVE  \A i \in 1 .. Len(f) + 1 : from[i] \subseteq Seq(Tokens)
<1>1. PICK l \in Nat : l = Len(f)
      BY FormSlots
<1>2. \A i \in 1 .. l + 1 : from[i] = LinesAt(from, f, i)
      BY <1>1 DEF LinesFrom
<1> DEFINE T == {n \in Nat : n <= l =>
                   \A i \in l + 1 - n .. l + 1 : from[i] \subseteq Seq(Tokens)}
<1>3. 0 \in T
      <2>1. \A i \in l + 1 - 0 .. l + 1 : i = l + 1 /\ i \in 1 .. l + 1
            OBVIOUS
      <2>2. from[l + 1] = {<<>>}
            <3>1. l + 1 \in 1 .. l + 1
                  OBVIOUS
            <3>2. from[l + 1] = LinesAt(from, f, l + 1)
                  BY <1>2, <3>1
            <3> QED BY <1>1, <3>2 DEF LinesAt
      <2>3. <<>> \in Seq(Tokens)
            BY EmptySeq
      <2> QED BY <2>1, <2>2, <2>3
<1>4. ASSUME NEW n \in T
      PROVE  n + 1 \in T
      <2>1. n \in Nat /\ n + 1 \in Nat
            OBVIOUS
      <2>2. SUFFICES ASSUME n + 1 <= l
                     PROVE  \A i \in l + 1 - (n + 1) .. l + 1 : from[i] \subseteq Seq(Tokens)
            BY <2>1
      <2>3. \A i \in l + 1 - n .. l + 1 : from[i] \subseteq Seq(Tokens)
            BY <2>1, <2>2
      <2>4. PICK m \in 1 .. l : m = l - n
            BY <2>1, <2>2
      <2>5. /\ m + 1 \in l + 1 - n .. l + 1
            /\ f[m].skip \in Nat
            /\ f[m].skip > 0 => m + f[m].skip \in l + 1 - n .. l + 1
            BY <1>1, <2>1, <2>4, FormSlots
      <2>6. from[m] = Followed(Held(f[m]), from[m + 1])
                      \union (IF f[m].skip > 0 THEN from[m + f[m].skip] ELSE {})
            <3>1. m \in 1 .. l + 1 /\ m # l + 1
                  OBVIOUS
            <3>2. from[m] = LinesAt(from, f, m)
                  BY <1>2, <3>1
            <3> QED BY <1>1, <3>1, <3>2 DEF LinesAt
      <2>7. Followed(Held(f[m]), from[m + 1]) \subseteq Seq(Tokens)
            BY <2>3, <2>5, HeldTokens, FollowedType
      <2>8. from[m] \subseteq Seq(Tokens)
            BY <2>3, <2>5, <2>6, <2>7
      <2> QED BY <2>1, <2>3, <2>4, <2>8
<1>5. T = Nat
      <2> HIDE DEF T
      <2>1. T \in SUBSET Nat
            BY DEF T
      <2> QED BY <1>3, <1>4, <2>1, NaturalSetInduction
<1> QED BY <1>1, <1>5

\* One token before a line: its head and its tail.
LEMMA FirstToken ==
    ASSUME NEW t \in Tokens, NEW line \in Seq(Tokens)
    PROVE  /\ <<t>> \o line \in Seq(Tokens)
           /\ <<t>> \o line # <<>>
           /\ Head(<<t>> \o line) = t
           /\ Tail(<<t>> \o line) = line
<1>1. <<t>> \in Seq(Tokens) /\ Len(<<t>>) = 1 /\ <<t>>[1] = t
      OBVIOUS
<1>2. PICK all : all = <<t>> \o line
      OBVIOUS
<1>3. all \in Seq(Tokens) /\ Len(all) = 1 + Len(line)
      BY <1>1, <1>2, ConcatProperties
<1>4. Len(line) \in Nat
      BY LenProperties
<1>5. all[1] = t /\ \A k \in 1 .. Len(line) : all[k + 1] = line[k]
      BY <1>1, <1>2, <1>4, ConcatProperties
<1>6. all # <<>>
      BY <1>3, <1>4
<1>7. Head(all) = t
      BY <1>3, <1>5, <1>6
<1>8. /\ Tail(all) \in Seq(Tokens)
      /\ Len(Tail(all)) = Len(line)
      /\ \A k \in 1 .. Len(line) : Tail(all)[k] = line[k]
      BY <1>3, <1>4, <1>5, <1>6, HeadTailProperties
<1>9. Tail(all) = line
      BY <1>8, SeqEqual
<1> QED BY <1>2, <1>3, <1>6, <1>7, <1>9

\* A line that is not empty is its first token before its tail.
LEMMA FirstAndRest ==
    ASSUME NEW S, NEW line \in Seq(S), line # <<>>
    PROVE  /\ Head(line) \in S
           /\ Tail(line) \in Seq(S)
           /\ Len(Tail(line)) = Len(line) - 1
           /\ line = <<Head(line)>> \o Tail(line)
<1>1. /\ Head(line) \in S /\ Tail(line) \in Seq(S)
      /\ Len(Tail(line)) = Len(line) - 1
      /\ \A k \in 1 .. Len(Tail(line)) : Tail(line)[k] = line[k + 1]
      BY HeadTailProperties
<1>2. Len(line) \in Nat /\ Len(line) > 0 /\ Head(line) = line[1]
      BY EmptySeq
<1>3. PICK h \in S : h = Head(line)
      BY <1>1
<1>4. <<h>> \in Seq(S) /\ Len(<<h>>) = 1 /\ <<h>>[1] = h
      OBVIOUS
<1>5. PICK all : all = <<h>> \o Tail(line)
      OBVIOUS
<1>6. /\ all \in Seq(S)
      /\ Len(all) = 1 + Len(Tail(line))
      /\ \A k \in 1 .. 1 + Len(Tail(line)) :
            all[k] = IF k <= 1 THEN <<h>>[k] ELSE Tail(line)[k - 1]
      BY <1>1, <1>4, <1>5, ConcatProperties
<1>7. Len(all) = Len(line)
      BY <1>1, <1>2, <1>6
<1>8. ASSUME NEW k \in 1 .. Len(line)
      PROVE  all[k] = line[k]
      <2>1. CASE k = 1
            BY <1>1, <1>2, <1>3, <1>4, <1>6, <2>1
      <2>2. CASE k # 1
            <3>1. k - 1 \in 1 .. Len(Tail(line)) /\ (k - 1) + 1 = k
                  BY <1>1, <1>2, <2>2
            <3>2. all[k] = Tail(line)[k - 1]
                  BY <1>1, <1>2, <1>6, <2>2
            <3>3. Tail(line)[k - 1] = line[k]
                  BY <1>1, <3>1
            <3> QED BY <3>2, <3>3
      <2> QED BY <2>1, <2>2
<1>9. all = line
      BY <1>6, <1>7, <1>8, SeqEqual
<1> QED BY <1>1, <1>3, <1>5, <1>9

\* The lines from a slot on: what it holds, then what comes after it.
LEMMA LinesAtSlot ==
    ASSUME NEW f, WellFormed(f), NEW from, LinesFrom(from, f), NEW i \in 1 .. Len(f)
    PROVE  from[i] = Followed(Held(f[i]), from[i + 1])
                     \union (IF f[i].skip > 0 THEN from[i + f[i].skip] ELSE {})
<1>1. i \in 1 .. Len(f) + 1 /\ i # Len(f) + 1
      BY FormSlots
<1>2. from[i] = LinesAt(from, f, i)
      BY <1>1 DEF LinesFrom
<1> QED BY <1>1, <1>2 DEF LinesAt

\* Only the empty line is left at the end of a form.
LEMMA LinesAtEnd ==
    ASSUME NEW f, WellFormed(f), NEW from, LinesFrom(from, f)
    PROVE  from[Len(f) + 1] = {<<>>}
<1>1. Len(f) + 1 \in 1 .. Len(f) + 1
      BY FormSlots
<1>2. from[Len(f) + 1] = LinesAt(from, f, Len(f) + 1)
      BY <1>1 DEF LinesFrom
<1> QED BY <1>2 DEF LinesAt

\* How a line can begin at a slot: with one token of it, with one of many and
\* more to come, or past it.
LEMMA LineAtSlot ==
    ASSUME NEW f, WellFormed(f), NEW from, LinesFrom(from, f),
           NEW i \in 1 .. Len(f), NEW line \in from[i]
    PROVE  /\ line \in Seq(Tokens)
           /\ \/ /\ ~f[i].many /\ line # <<>>
                 /\ Fits(Head(line), f[i]) /\ Tail(line) \in from[i + 1]
              \/ /\ f[i].many /\ line # <<>>
                 /\ Fits(Head(line), f[i]) /\ Tail(line) \in from[i]
              \/ f[i].many /\ line \in from[i + 1]
              \/ f[i].skip > 0 /\ line \in from[i + f[i].skip]
<1>1. from[i] = Followed(Held(f[i]), from[i + 1])
                \union (IF f[i].skip > 0 THEN from[i + f[i].skip] ELSE {})
      BY LinesAtSlot
<1>2. from[i] \subseteq Seq(Tokens) /\ from[i + 1] \subseteq Seq(Tokens)
      BY FormSlots, LinesType
<1>3. CASE line \in Followed(Held(f[i]), from[i + 1])
      <2>1. PICK held \in Held(f[i]), rest \in from[i + 1] : line = held \o rest
            BY <1>3 DEF Followed
      <2>2. CASE ~f[i].many
            <3>1. PICK t \in Fitting(f[i]) : held = <<t>>
                  BY <2>1, <2>2 DEF Held
            <3>2. t \in Tokens /\ Fits(t, f[i])
                  BY DEF Fitting
            <3>3. line # <<>> /\ Head(line) = t /\ Tail(line) = rest
                  BY <1>2, <2>1, <3>1, <3>2, FirstToken
            <3> QED BY <1>2, <2>1, <2>2, <3>2, <3>3
      <2>3. CASE f[i].many
            <3>1. held \in Seq(Fitting(f[i])) /\ Held(f[i]) = Seq(Fitting(f[i]))
                  BY <2>1, <2>3 DEF Held
            <3>2. rest \in Seq(Tokens) /\ Fitting(f[i]) \subseteq Tokens
                  BY <1>2, <2>1, HeldTokens
            <3>3. CASE held = <<>>
                  <4>1. line = rest
                        BY <2>1, <3>2, <3>3, ConcatEmptySeq
                  <4> QED BY <1>2, <2>1, <2>3, <4>1
            <3>4. CASE held # <<>>
                  <4>1. PICK t, more : t = Head(held) /\ more = Tail(held)
                        OBVIOUS
                  <4>2. /\ t \in Fitting(f[i]) /\ more \in Seq(Fitting(f[i]))
                        /\ held = <<t>> \o more
                        BY <3>1, <3>4, <4>1, FirstAndRest
                  <4>3. t \in Tokens /\ Fits(t, f[i])
                        BY <4>2 DEF Fitting
                  <4>4. more \in Seq(Tokens) /\ <<t>> \in Seq(Tokens)
                        BY <3>2, <4>2, <4>3, SeqMonotonic
                  <4>5. line = <<t>> \o (more \o rest)
                        BY <2>1, <3>2, <4>2, <4>4, ConcatAssociative
                  <4>6. more \o rest \in Seq(Tokens)
                        BY <3>2, <4>4, ConcatProperties
                  <4>7. line # <<>> /\ Head(line) = t /\ Tail(line) = more \o rest
                        BY <4>3, <4>5, <4>6, FirstToken
                  <4>8. more \o rest \in Followed(Held(f[i]), from[i + 1])
                        BY <2>1, <3>1, <4>2 DEF Followed
                  <4> QED BY <1>1, <1>2, <2>3, <4>3, <4>7, <4>8
            <3> QED BY <3>3, <3>4
      <2> QED BY <2>2, <2>3
<1>4. CASE line \in (IF f[i].skip > 0 THEN from[i + f[i].skip] ELSE {})
      BY <1>2, <1>4
<1> QED BY <1>1, <1>3, <1>4

\* And each of these beginnings makes a line.
LEMMA LineFromSlot ==
    ASSUME NEW f, WellFormed(f), NEW from, LinesFrom(from, f), NEW i \in 1 .. Len(f)
    PROVE  /\ \A t \in Fitting(f[i]), rest \in from[i + 1] :
                 ~f[i].many => <<t>> \o rest \in from[i]
           /\ \A t \in Fitting(f[i]), rest \in from[i] :
                 f[i].many => <<t>> \o rest \in from[i]
           /\ \A rest \in from[i + 1] : f[i].many => rest \in from[i]
           /\ \A rest \in from[i + f[i].skip] : f[i].skip > 0 => rest \in from[i]
<1>1. from[i] = Followed(Held(f[i]), from[i + 1])
                \union (IF f[i].skip > 0 THEN from[i + f[i].skip] ELSE {})
      BY LinesAtSlot
<1>2. from[i] \subseteq Seq(Tokens) /\ from[i + 1] \subseteq Seq(Tokens)
      BY FormSlots, LinesType
<1>3. Fitting(f[i]) \subseteq Tokens
      BY HeldTokens
<1>4. ASSUME NEW t \in Fitting(f[i]), NEW rest \in from[i + 1], ~f[i].many
      PROVE  <<t>> \o rest \in from[i]
      <2>1. <<t>> \in Held(f[i])
            BY <1>4 DEF Held
      <2>2. <<t>> \o rest \in Followed(Held(f[i]), from[i + 1])
            BY <2>1, FollowedHas
      <2> QED BY <1>1, <2>2
<1>5. ASSUME NEW rest \in from[i + 1], f[i].many
      PROVE  rest \in from[i]
      <2>1. <<>> \in Held(f[i])
            BY <1>5, EmptySeq DEF Held
      <2>2. rest = <<>> \o rest
            BY <1>2, ConcatEmptySeq
      <2>3. rest \in Followed(Held(f[i]), from[i + 1])
            <3>1. <<>> \o rest \in Followed(Held(f[i]), from[i + 1])
                  BY <2>1, FollowedHas
            <3> QED BY <2>2, <3>1
      <2> QED BY <1>1, <2>3
<1>6. ASSUME NEW t \in Fitting(f[i]), NEW rest \in from[i], f[i].many
      PROVE  <<t>> \o rest \in from[i]
      <2>1. Held(f[i]) = Seq(Fitting(f[i]))
            BY <1>6 DEF Held
      <2>2. <<t>> \in Seq(Fitting(f[i])) /\ <<t>> \in Seq(Tokens)
            BY <1>3
      <2>3. CASE rest \in Followed(Held(f[i]), from[i + 1])
            <3>1. PICK held \in Held(f[i]), more \in from[i + 1] : rest = held \o more
                  <4>1. PICK held \in Held(f[i]) : \E more \in from[i + 1] : rest = held \o more
                        BY <2>3, SMTT(60) DEF Followed
                  <4> QED BY <4>1
            <3>2. held \in Seq(Tokens) /\ more \in Seq(Tokens)
                  BY <1>2, HeldTokens
            <3>3. <<t>> \o rest = (<<t>> \o held) \o more
                  BY <2>2, <3>1, <3>2, ConcatAssociative
            <3>4. <<t>> \o held \in Held(f[i])
                  BY <2>1, <2>2, <3>1, ConcatProperties
            <3>5. <<t>> \o rest \in Followed(Held(f[i]), from[i + 1])
                  <4>1. (<<t>> \o held) \o more \in Followed(Held(f[i]), from[i + 1])
                        BY <3>4, FollowedHas
                  <4> QED BY <3>3, <4>1
            <3> QED BY <1>1, <3>5
      <2>4. CASE f[i].skip > 0 /\ rest \in from[i + f[i].skip]
            <3>1. f[i].skip = 1
                  BY <1>6, <2>4, FormSlots
            <3>2. rest \in from[i + 1]
                  BY <2>4, <3>1
            <3>3. <<t>> \in Held(f[i])
                  BY <2>1, <2>2
            <3>4. <<t>> \o rest \in Followed(Held(f[i]), from[i + 1])
                  BY <3>2, <3>3, FollowedHas
            <3> QED BY <1>1, <3>4
      <2> QED BY <1>1, <2>3, <2>4
<1>7. ASSUME NEW rest \in from[i + f[i].skip], f[i].skip > 0
      PROVE  rest \in from[i]
      BY <1>1, <1>7
<1> QED BY <1>4, <1>5, <1>6, <1>7

-----------------------------------------------------------------------------
(* The walk through two forms *)

\* Where the walk can be.
Places(f, g) == (1 .. Len(f) + 1) \X (1 .. Len(g) + 1)

\* What the walk finds at slot i of f and slot j of g, from what it finds later.
WalkAt(w, f, g, i, j) ==
  LET atF == i <= Len(f)
      atG == j <= Len(g)
      manyF == atF /\ f[i].many
      manyG == atG /\ g[j].many
  IN \/ ~atF /\ ~atG
     \/ /\ atF /\ atG /\ ~manyF /\ ~manyG
        /\ Meets(f[i], g[j])
        /\ w[<<i + 1, j + 1>>]
     \/ manyF /\ w[<<i + 1, j>>]
     \/ manyG /\ w[<<i, j + 1>>]
     \/ manyF /\ atG /\ ~manyG /\ Meets(f[i], g[j]) /\ w[<<i, j + 1>>]
     \/ manyG /\ atF /\ ~manyF /\ Meets(f[i], g[j]) /\ w[<<i + 1, j>>]
     \/ atF /\ f[i].skip > 0 /\ w[<<i + f[i].skip, j>>]
     \/ atG /\ g[j].skip > 0 /\ w[<<i, j + g[j].skip>>]

\* w is the walk through f and g.
Walks(w, f, g) == w = [at \in Places(f, g) |-> WalkAt(w, f, g, at[1], at[2])]

\* How far it is from slots i and j to the end of both forms.
Left(f, g, i, j) == (Len(f) + 1 - i) + (Len(g) + 1 - j)

\* a and b find the same wherever it is less than n to the end.
AgreeBelow(n, a, b, f, g) ==
  \A k \in 1 .. Len(f) + 1, l \in 1 .. Len(g) + 1 :
     Left(f, g, k, l) < n => a[<<k, l>>] = b[<<k, l>>]

\* What is found at a place depends on places nearer to the end only.
LEMMA WalkAtAgrees ==
    ASSUME NEW f, WellFormed(f), NEW g, WellFormed(g), NEW a, NEW b,
           NEW i \in 1 .. Len(f) + 1, NEW j \in 1 .. Len(g) + 1,
           AgreeBelow(Left(f, g, i, j), a, b, f, g)
    PROVE  WalkAt(a, f, g, i, j) = WalkAt(b, f, g, i, j)
<1>1. Len(f) \in Nat /\ Len(g) \in Nat
      BY FormSlots
<1>2. ASSUME NEW k \in i .. Len(f) + 1, NEW l \in j .. Len(g) + 1, k # i \/ l # j
      PROVE  a[<<k, l>>] = b[<<k, l>>]
      <2>1. k \in 1 .. Len(f) + 1 /\ l \in 1 .. Len(g) + 1
            BY <1>1
      <2>2. Left(f, g, k, l) < Left(f, g, i, j)
            BY <1>1, <1>2 DEF Left
      <2> QED BY <2>1, <2>2 DEF AgreeBelow
<1>3. i <= Len(f) => /\ i + 1 \in i .. Len(f) + 1 /\ i + 1 # i
                     /\ f[i].skip \in Nat /\ i + f[i].skip \in i .. Len(f) + 1
                     /\ f[i].skip > 0 => i + f[i].skip # i
      BY <1>1, FormSlots
<1>4. j <= Len(g) => /\ j + 1 \in j .. Len(g) + 1 /\ j + 1 # j
                     /\ g[j].skip \in Nat /\ j + g[j].skip \in j .. Len(g) + 1
                     /\ g[j].skip > 0 => j + g[j].skip # j
      BY <1>1, FormSlots
<1>5. i \in i .. Len(f) + 1 /\ j \in j .. Len(g) + 1
      BY <1>1
<1>6. i <= Len(f) /\ j <= Len(g) => a[<<i + 1, j + 1>>] = b[<<i + 1, j + 1>>]
      BY <1>2, <1>3, <1>4
<1>7. i <= Len(f) => a[<<i + 1, j>>] = b[<<i + 1, j>>]
      BY <1>2, <1>3, <1>5
<1>8. j <= Len(g) => a[<<i, j + 1>>] = b[<<i, j + 1>>]
      BY <1>2, <1>4, <1>5
<1>9. i <= Len(f) /\ f[i].skip > 0 => a[<<i + f[i].skip, j>>] = b[<<i + f[i].skip, j>>]
      BY <1>2, <1>3, <1>5
<1>10. j <= Len(g) /\ g[j].skip > 0 => a[<<i, j + g[j].skip>>] = b[<<i, j + g[j].skip>>]
      BY <1>2, <1>4, <1>5
<1>11. WalkAt(a, f, g, i, j) <=> WalkAt(b, f, g, i, j)
      BY <1>6, <1>7, <1>8, <1>9, <1>10, Zenon DEF WalkAt
<1> QED BY <1>11 DEF WalkAt

\* There is a walk through any two forms.
LEMMA WalkExists ==
    ASSUME NEW f, WellFormed(f), NEW g, WellFormed(g)
    PROVE  \E w : Walks(w, f, g)
<1>1. Len(f) \in Nat /\ Len(g) \in Nat
      BY FormSlots
<1> DEFINE Found(w, i, j) == w[<<i, j>>] = WalkAt(w, f, g, i, j)
           T == {k \in Nat : \E w : \A i \in 1 .. Len(f) + 1, j \in 1 .. Len(g) + 1 :
                               Left(f, g, i, j) < k => Found(w, i, j)}
<1>2. \A i \in 1 .. Len(f) + 1, j \in 1 .. Len(g) + 1 : Left(f, g, i, j) \in Nat
      BY <1>1 DEF Left
<1>3. 0 \in T
      <2>1. \A i \in 1 .. Len(f) + 1, j \in 1 .. Len(g) + 1 : ~(Left(f, g, i, j) < 0)
            BY <1>2
      <2> QED BY <2>1
<1>4. ASSUME NEW k \in T
      PROVE  k + 1 \in T
      <2>1. k \in Nat /\ k + 1 \in Nat
            OBVIOUS
      <2>2. PICK a : \A i \in 1 .. Len(f) + 1, j \in 1 .. Len(g) + 1 :
                        Left(f, g, i, j) < k => Found(a, i, j)
            OBVIOUS
      <2> DEFINE b == [at \in Places(f, g) |-> IF Left(f, g, at[1], at[2]) < k
                                               THEN a[at]
                                               ELSE WalkAt(a, f, g, at[1], at[2])]
      <2>3. ASSUME NEW i \in 1 .. Len(f) + 1, NEW j \in 1 .. Len(g) + 1
            PROVE  b[<<i, j>>] = IF Left(f, g, i, j) < k THEN a[<<i, j>>]
                                 ELSE WalkAt(a, f, g, i, j)
            <3>1. <<i, j>> \in Places(f, g) /\ <<i, j>>[1] = i /\ <<i, j>>[2] = j
                  BY <1>1 DEF Places
            <3> QED BY <3>1
      <2> HIDE DEF b
      <2>4. ASSUME NEW i \in 1 .. Len(f) + 1, NEW j \in 1 .. Len(g) + 1, Left(f, g, i, j) < k + 1
            PROVE  Found(b, i, j)
            <3>1. AgreeBelow(Left(f, g, i, j), a, b, f, g)
                  <4>1. \A p \in 1 .. Len(f) + 1, q \in 1 .. Len(g) + 1 :
                           Left(f, g, p, q) < Left(f, g, i, j) => Left(f, g, p, q) < k
                        BY <1>2, <2>1, <2>4
                  <4> QED BY <2>3, <4>1 DEF AgreeBelow
            <3>2. WalkAt(a, f, g, i, j) = WalkAt(b, f, g, i, j)
                  BY <1>1, <3>1, WalkAtAgrees
            <3>3. b[<<i, j>>] = WalkAt(a, f, g, i, j)
                  BY <2>2, <2>3
            <3> QED BY <3>2, <3>3
      <2> QED BY <2>1, <2>4
<1>5. T = Nat
      <2> HIDE DEF T
      <2>1. T \in SUBSET Nat
            BY DEF T
      <2> QED BY <1>3, <1>4, <2>1, NaturalSetInduction
<1>6. PICK a : \A i \in 1 .. Len(f) + 1, j \in 1 .. Len(g) + 1 : Found(a, i, j)
      <2>1. \A i \in 1 .. Len(f) + 1, j \in 1 .. Len(g) + 1 : Left(f, g, i, j) < Len(f) + Len(g) + 1
            BY <1>1 DEF Left
      <2>2. Len(f) + Len(g) + 1 \in Nat
            BY <1>1
      <2> QED BY <1>5, <2>1, <2>2
<1> DEFINE b == [at \in Places(f, g) |-> a[at]]
<1>7. ASSUME NEW i \in 1 .. Len(f) + 1, NEW j \in 1 .. Len(g) + 1
      PROVE  b[<<i, j>>] = a[<<i, j>>]
      BY <1>1 DEF Places
<1>8. ASSUME NEW at \in Places(f, g)
      PROVE  b[at] = WalkAt(b, f, g, at[1], at[2])
      <2>1. PICK i \in 1 .. Len(f) + 1, j \in 1 .. Len(g) + 1 : at = <<i, j>>
            BY <1>1 DEF Places
      <2>2. at[1] = i /\ at[2] = j
            BY <2>1
      <2> HIDE DEF b
      <2>3. AgreeBelow(Left(f, g, i, j), a, b, f, g)
            BY <1>7 DEF AgreeBelow
      <2>4. WalkAt(a, f, g, i, j) = WalkAt(b, f, g, i, j)
            BY <1>1, <2>3, WalkAtAgrees
      <2> QED BY <1>6, <1>7, <2>1, <2>2, <2>4
<1>9. Walks(b, f, g)
      <2>1. b = [at \in Places(f, g) |-> b[at]]
            OBVIOUS
      <2> HIDE DEF b
      <2> QED BY <1>8, <2>1 DEF Walks
<1> QED BY <1>9

\* Overlap is what its definition says it is.
LEMMA OverlapDef ==
    ASSUME NEW f, WellFormed(f), NEW g, WellFormed(g)
    PROVE  \E w : Walks(w, f, g) /\ (Overlap(f, g) <=> w[<<1, 1>>])
<1> DEFINE w == CHOOSE a : Walks(a, f, g)
<1>1. Walks(w, f, g)
      BY WalkExists
<1>2. Overlap(f, g) = w[<<1, 1>>]
      BY DEF Overlap, Walks, WalkAt, Places
<1> QED BY <1>1, <1>2

\* What the walk finds at a place, from what it finds later.
LEMMA WalkFinds ==
    ASSUME NEW f, NEW g, NEW w, Walks(w, f, g),
           NEW i \in 1 .. Len(f) + 1, NEW j \in 1 .. Len(g) + 1
    PROVE  w[<<i, j>>] <=> WalkAt(w, f, g, i, j)
<1>1. <<i, j>> \in Places(f, g) /\ <<i, j>>[1] = i /\ <<i, j>>[2] = j
      BY DEF Places
<1>2. w[<<i, j>>] = WalkAt(w, f, g, i, j)
      BY <1>1 DEF Walks
<1> QED BY <1>2

\* The walk misses nothing: wherever a line goes on in both forms, it is found.
LEMMA SharedLineIsFound ==
    ASSUME NEW f, WellFormed(f), NEW g, WellFormed(g), NEW w, Walks(w, f, g),
           NEW a, LinesFrom(a, f), NEW b, LinesFrom(b, g)
    PROVE  \A i \in 1 .. Len(f) + 1, j \in 1 .. Len(g) + 1 :
              \A line \in a[i] \intersect b[j] : w[<<i, j>>]
<1>1. Len(f) \in Nat /\ Len(g) \in Nat
      BY FormSlots
<1>2. \A i \in 1 .. Len(f) + 1 : a[i] \subseteq Seq(Tokens)
      BY LinesType
<1> DEFINE T == {n \in Nat :
                   \A i \in 1 .. Len(f) + 1, j \in 1 .. Len(g) + 1, line \in Seq(Tokens) :
                      Left(f, g, i, j) + Len(line) < n /\ line \in a[i] /\ line \in b[j]
                        => w[<<i, j>>]}
<1>3. \A i \in 1 .. Len(f) + 1, j \in 1 .. Len(g) + 1, line \in Seq(Tokens) :
         Left(f, g, i, j) \in Nat /\ Len(line) \in Nat
      BY <1>1, LenProperties DEF Left
<1>4. 0 \in T
      BY <1>3
<1>5. ASSUME NEW n \in T
      PROVE  n + 1 \in T
      <2>1. n \in Nat /\ n + 1 \in Nat
            OBVIOUS
      <2>2. SUFFICES ASSUME NEW i \in 1 .. Len(f) + 1, NEW j \in 1 .. Len(g) + 1,
                            NEW line \in Seq(Tokens),
                            Left(f, g, i, j) + Len(line) < n + 1,
                            line \in a[i], line \in b[j]
                     PROVE  WalkAt(w, f, g, i, j)
            BY <2>1, WalkFinds
      <2>3. \A p \in 1 .. Len(f) + 1, q \in 1 .. Len(g) + 1, rest \in Seq(Tokens) :
               Left(f, g, p, q) + Len(rest) < n /\ rest \in a[p] /\ rest \in b[q]
                 => w[<<p, q>>]
            OBVIOUS
      <2> HIDE DEF T
      <2>4. /\ line # <<>> => /\ Tail(line) \in Seq(Tokens)
                              /\ Head(line) \in Tokens
                              /\ Len(Tail(line)) = Len(line) - 1
            /\ Len(line) \in Nat
            BY <1>3, FirstAndRest
      <2>5. i <= Len(f) => /\ i \in 1 .. Len(f) /\ f[i] \in Slots
                           /\ i + 1 \in 1 .. Len(f) + 1
                           /\ f[i].skip \in Nat
                           /\ i + f[i].skip \in 1 .. Len(f) + 1
            BY <1>1, FormSlots
      <2>6. j <= Len(g) => /\ j \in 1 .. Len(g) /\ g[j] \in Slots
                           /\ j + 1 \in 1 .. Len(g) + 1
                           /\ g[j].skip \in Nat
                           /\ j + g[j].skip \in 1 .. Len(g) + 1
            BY <1>1, FormSlots
      <2>7. ASSUME NEW p \in i .. Len(f) + 1, NEW q \in j .. Len(g) + 1, p # i \/ q # j,
                   line \in a[p], line \in b[q]
            PROVE  w[<<p, q>>]
            <3>1. p \in 1 .. Len(f) + 1 /\ q \in 1 .. Len(g) + 1
                  BY <1>1
            <3>2. Left(f, g, p, q) + Len(line) < n
                  BY <1>1, <2>1, <2>2, <2>4, <2>7 DEF Left
            <3> QED BY <2>3, <2>7, <3>1, <3>2
      <2>8. ASSUME NEW p \in i .. Len(f) + 1, NEW q \in j .. Len(g) + 1, line # <<>>,
                   Tail(line) \in a[p], Tail(line) \in b[q]
            PROVE  w[<<p, q>>]
            <3>1. p \in 1 .. Len(f) + 1 /\ q \in 1 .. Len(g) + 1
                  BY <1>1
            <3>2. Left(f, g, p, q) + Len(Tail(line)) < n
                  BY <1>1, <2>1, <2>2, <2>4, <2>8 DEF Left
            <3> QED BY <2>3, <2>4, <2>8, <3>1, <3>2
      <2>9. CASE i <= Len(f) /\ f[i].many /\ line \in a[i + 1]
            <3>1. w[<<i + 1, j>>]
                  BY <1>1, <2>2, <2>5, <2>7, <2>9
            <3> QED BY <2>9, <3>1 DEF WalkAt
      <2>10. CASE j <= Len(g) /\ g[j].many /\ line \in b[j + 1]
            <3>1. w[<<i, j + 1>>]
                  BY <1>1, <2>2, <2>6, <2>7, <2>10
            <3> QED BY <2>10, <3>1 DEF WalkAt
      <2>11. CASE i <= Len(f) /\ f[i].skip > 0 /\ line \in a[i + f[i].skip]
            <3>1. w[<<i + f[i].skip, j>>]
                  BY <1>1, <2>2, <2>5, <2>7, <2>11
            <3> QED BY <2>11, <3>1 DEF WalkAt
      <2>12. CASE j <= Len(g) /\ g[j].skip > 0 /\ line \in b[j + g[j].skip]
            <3>1. w[<<i, j + g[j].skip>>]
                  BY <1>1, <2>2, <2>6, <2>7, <2>12
            <3> QED BY <2>12, <3>1 DEF WalkAt
      <2> DEFINE Takes(h, from, k, next) ==
                   /\ k <= Len(h) /\ line # <<>> /\ Fits(Head(line), h[k])
                   /\ next = IF h[k].many THEN k ELSE k + 1
                   /\ Tail(line) \in from[next]
      <2>13. \/ i = Len(f) + 1 /\ line = <<>>
             \/ \E p : Takes(f, a, i, p)
             \/ i <= Len(f) /\ f[i].many /\ line \in a[i + 1]
             \/ i <= Len(f) /\ f[i].skip > 0 /\ line \in a[i + f[i].skip]
            <3>1. CASE i = Len(f) + 1
                  BY <2>2, <3>1, LinesAtEnd
            <3>2. CASE i # Len(f) + 1
                  <4>1. i \in 1 .. Len(f) /\ i <= Len(f)
                        BY <1>1, <3>2
                  <4> QED BY <2>2, <4>1, LineAtSlot
            <3> QED BY <3>1, <3>2
      <2>14. \/ j = Len(g) + 1 /\ line = <<>>
             \/ \E q : Takes(g, b, j, q)
             \/ j <= Len(g) /\ g[j].many /\ line \in b[j + 1]
             \/ j <= Len(g) /\ g[j].skip > 0 /\ line \in b[j + g[j].skip]
            <3>1. CASE j = Len(g) + 1
                  BY <2>2, <3>1, LinesAtEnd
            <3>2. CASE j # Len(g) + 1
                  <4>1. j \in 1 .. Len(g) /\ j <= Len(g)
                        BY <1>1, <3>2
                  <4> QED BY <2>2, <4>1, LineAtSlot
            <3> QED BY <3>1, <3>2
      <2>15. CASE i = Len(f) + 1 /\ j = Len(g) + 1
            BY <1>1, <2>15 DEF WalkAt
      <2>16. ASSUME NEW p, NEW q, Takes(f, a, i, p), Takes(g, b, j, q)
            PROVE  WalkAt(w, f, g, i, j)
            <3>1. Meets(f[i], g[j])
                  BY <2>4, <2>5, <2>6, <2>16, MeetsIsSound
            <3>2. p \in i .. Len(f) + 1 /\ q \in j .. Len(g) + 1
                  <4>1. i <= Len(f) /\ p \in {i, i + 1} /\ j <= Len(g) /\ q \in {j, j + 1}
                        BY <2>16
                  <4> HIDE DEF Takes
                  <4> QED BY <1>1, <4>1
            <3>3. w[<<p, q>>]
                  BY <2>8, <2>16, <3>2
            <3>4. CASE ~f[i].many /\ ~g[j].many
                  BY <2>16, <3>1, <3>3, <3>4 DEF WalkAt
            <3>5. CASE f[i].many /\ ~g[j].many
                  BY <2>16, <3>1, <3>3, <3>5 DEF WalkAt
            <3>6. CASE ~f[i].many /\ g[j].many
                  BY <2>16, <3>1, <3>3, <3>6 DEF WalkAt
            <3>7. CASE f[i].many /\ g[j].many
                  <4>1. p = i /\ q = j
                        BY <2>16, <3>7
                  <4> QED BY <3>3, <4>1, WalkFinds
            <3> QED BY <3>4, <3>5, <3>6, <3>7
      <2>17. ASSUME NEW h, NEW from, NEW k, NEW next, Takes(h, from, k, next)
            PROVE  line # <<>>
            BY <2>17
      <2> HIDE DEF Takes
      <2> QED BY <2>9, <2>10, <2>11, <2>12, <2>13, <2>14, <2>15, <2>16, <2>17
<1>6. T = Nat
      <2> HIDE DEF T
      <2>1. T \in SUBSET Nat
            BY DEF T
      <2> QED BY <1>4, <1>5, <2>1, NaturalSetInduction
<1>7. SUFFICES ASSUME NEW i \in 1 .. Len(f) + 1, NEW j \in 1 .. Len(g) + 1,
                      NEW line \in a[i] \intersect b[j]
               PROVE  w[<<i, j>>]
      OBVIOUS
<1>8. line \in Seq(Tokens)
      BY <1>2
<1>9. PICK n \in Nat : Left(f, g, i, j) + Len(line) < n
      <2>1. Left(f, g, i, j) \in Nat /\ Len(line) \in Nat
            BY <1>3, <1>8
      <2>2. PICK x \in Nat, y \in Nat : x = Left(f, g, i, j) /\ y = Len(line)
            BY <2>1
      <2>3. x + y + 1 \in Nat /\ x + y < x + y + 1
            OBVIOUS
      <2> QED BY <2>2, <2>3
<1> QED BY <1>6, <1>8, <1>9

\* Nor does it invent any: where it finds one, a line goes on in both forms.
LEMMA FoundLineIsShared ==
    ASSUME NEW f, WellFormed(f), NEW g, WellFormed(g), NEW w, Walks(w, f, g),
           NEW a, LinesFrom(a, f), NEW b, LinesFrom(b, g)
    PROVE  \A i \in 1 .. Len(f) + 1, j \in 1 .. Len(g) + 1 :
              w[<<i, j>>] => a[i] \intersect b[j] # {}
<1>1. Len(f) \in Nat /\ Len(g) \in Nat
      BY FormSlots
<1>2. /\ \A i \in 1 .. Len(f) + 1 : a[i] \subseteq Seq(Tokens)
      /\ \A j \in 1 .. Len(g) + 1 : b[j] \subseteq Seq(Tokens)
      BY LinesType
<1> DEFINE Shared(i, j) == \E line : line \in a[i] /\ line \in b[j]
           T == {n \in Nat :
                   \A i \in 1 .. Len(f) + 1, j \in 1 .. Len(g) + 1 :
                      Left(f, g, i, j) < n /\ w[<<i, j>>] => Shared(i, j)}
<1>3. \A i \in 1 .. Len(f) + 1, j \in 1 .. Len(g) + 1 : Left(f, g, i, j) \in Nat
      BY <1>1 DEF Left
<1>4. 0 \in T
      BY <1>3
<1>5. ASSUME NEW n \in T
      PROVE  n + 1 \in T
      <2>1. n \in Nat /\ n + 1 \in Nat
            OBVIOUS
      <2>2. SUFFICES ASSUME NEW i \in 1 .. Len(f) + 1, NEW j \in 1 .. Len(g) + 1,
                            Left(f, g, i, j) < n + 1, w[<<i, j>>]
                     PROVE  Shared(i, j)
            BY <2>1
      <2>3. \A p \in 1 .. Len(f) + 1, q \in 1 .. Len(g) + 1 :
               Left(f, g, p, q) < n /\ w[<<p, q>>] => Shared(p, q)
            OBVIOUS
      <2> HIDE DEF T
      <2>4. ASSUME NEW p \in i .. Len(f) + 1, NEW q \in j .. Len(g) + 1, p # i \/ q # j,
                   w[<<p, q>>]
            PROVE  /\ Shared(p, q)
                   /\ \A line : line \in a[p] /\ line \in b[q] => line \in Seq(Tokens)
            <3>1. p \in 1 .. Len(f) + 1 /\ q \in 1 .. Len(g) + 1
                  BY <1>1
            <3>2. Left(f, g, p, q) < n
                  BY <1>1, <2>1, <2>2, <2>4 DEF Left
            <3> QED BY <1>2, <2>3, <2>4, <3>1, <3>2
      <2>5. i <= Len(f) => /\ i \in 1 .. Len(f) /\ f[i] \in Slots
                           /\ i + 1 \in i .. Len(f) + 1 /\ i + 1 # i
                           /\ i + f[i].skip \in i .. Len(f) + 1
                           /\ f[i].skip > 0 => i + f[i].skip # i
            BY <1>1, FormSlots
      <2>6. j <= Len(g) => /\ j \in 1 .. Len(g) /\ g[j] \in Slots
                           /\ j + 1 \in j .. Len(g) + 1 /\ j + 1 # j
                           /\ j + g[j].skip \in j .. Len(g) + 1
                           /\ g[j].skip > 0 => j + g[j].skip # j
            BY <1>1, FormSlots
      <2>7. i \in i .. Len(f) + 1 /\ j \in j .. Len(g) + 1
            BY <1>1
      <2>8. WalkAt(w, f, g, i, j)
            BY <2>2, WalkFinds
      <2>9. CASE ~(i <= Len(f)) /\ ~(j <= Len(g))
            <3>1. i = Len(f) + 1 /\ j = Len(g) + 1
                  BY <1>1, <2>9
            <3>2. <<>> \in a[i] /\ <<>> \in b[j]
                  BY <3>1, LinesAtEnd
            <3> QED BY <3>2
      <2>10. ASSUME i <= Len(f), j <= Len(g), Meets(f[i], g[j])
             PROVE  \E t \in Tokens : t \in Fitting(f[i]) /\ t \in Fitting(g[j])
            BY <2>5, <2>6, <2>10, MeetsIsExact DEF Fitting
      <2>11. CASE /\ i <= Len(f) /\ j <= Len(g) /\ ~f[i].many /\ ~g[j].many
                  /\ Meets(f[i], g[j]) /\ w[<<i + 1, j + 1>>]
            <3>1. PICK t : t \in Fitting(f[i]) /\ t \in Fitting(g[j])
                  BY <2>10, <2>11
            <3>2. PICK rest : rest \in a[i + 1] /\ rest \in b[j + 1]
                  BY <2>4, <2>5, <2>6, <2>11
            <3>3. <<t>> \o rest \in a[i] /\ <<t>> \o rest \in b[j]
                  BY <2>5, <2>6, <2>11, <3>1, <3>2, LineFromSlot
            <3> QED BY <3>3
      <2>12. CASE i <= Len(f) /\ f[i].many /\ w[<<i + 1, j>>]
            <3>1. PICK rest : rest \in a[i + 1] /\ rest \in b[j]
                  BY <2>4, <2>5, <2>7, <2>12
            <3>2. rest \in a[i]
                  BY <2>5, <2>12, <3>1, LineFromSlot
            <3> QED BY <3>1, <3>2
      <2>13. CASE j <= Len(g) /\ g[j].many /\ w[<<i, j + 1>>]
            <3>1. PICK rest : rest \in a[i] /\ rest \in b[j + 1]
                  BY <2>4, <2>6, <2>7, <2>13
            <3>2. rest \in b[j]
                  BY <2>6, <2>13, <3>1, LineFromSlot
            <3> QED BY <3>1, <3>2
      <2>14. CASE /\ i <= Len(f) /\ j <= Len(g) /\ f[i].many /\ ~g[j].many
                  /\ Meets(f[i], g[j]) /\ w[<<i, j + 1>>]
            <3>1. PICK t : t \in Fitting(f[i]) /\ t \in Fitting(g[j])
                  BY <2>10, <2>14
            <3>2. PICK rest : rest \in a[i] /\ rest \in b[j + 1]
                  BY <2>4, <2>6, <2>7, <2>14
            <3>3. <<t>> \o rest \in a[i] /\ <<t>> \o rest \in b[j]
                  BY <2>5, <2>6, <2>14, <3>1, <3>2, LineFromSlot
            <3> QED BY <3>3
      <2>15. CASE /\ i <= Len(f) /\ j <= Len(g) /\ ~f[i].many /\ g[j].many
                  /\ Meets(f[i], g[j]) /\ w[<<i + 1, j>>]
            <3>1. PICK t : t \in Fitting(f[i]) /\ t \in Fitting(g[j])
                  BY <2>10, <2>15
            <3>2. PICK rest : rest \in a[i + 1] /\ rest \in b[j]
                  BY <2>4, <2>5, <2>7, <2>15
            <3>3. <<t>> \o rest \in a[i] /\ <<t>> \o rest \in b[j]
                  BY <2>5, <2>6, <2>15, <3>1, <3>2, LineFromSlot
            <3> QED BY <3>3
      <2>16. CASE i <= Len(f) /\ f[i].skip > 0 /\ w[<<i + f[i].skip, j>>]
            <3>1. PICK rest : rest \in a[i + f[i].skip] /\ rest \in b[j]
                  BY <2>4, <2>5, <2>7, <2>16
            <3>2. rest \in a[i]
                  BY <2>5, <2>16, <3>1, LineFromSlot
            <3> QED BY <3>1, <3>2
      <2>17. CASE j <= Len(g) /\ g[j].skip > 0 /\ w[<<i, j + g[j].skip>>]
            <3>1. PICK rest : rest \in a[i] /\ rest \in b[j + g[j].skip]
                  BY <2>4, <2>6, <2>7, <2>17
            <3>2. rest \in b[j]
                  BY <2>6, <2>17, <3>1, LineFromSlot
            <3> QED BY <3>1, <3>2
      <2> HIDE DEF Shared
      <2> QED BY <2>8, <2>9, <2>11, <2>12, <2>13, <2>14, <2>15, <2>16, <2>17, Zenon
              DEF WalkAt
<1>6. T = Nat
      <2> HIDE DEF T
      <2>1. T \in SUBSET Nat
            BY DEF T
      <2> QED BY <1>4, <1>5, <2>1, NaturalSetInduction
<1>7. SUFFICES ASSUME NEW i \in 1 .. Len(f) + 1, NEW j \in 1 .. Len(g) + 1, w[<<i, j>>]
               PROVE  Shared(i, j)
      OBVIOUS
<1>8. PICK n \in Nat : Left(f, g, i, j) < n
      <2>1. PICK x \in Nat : x = Left(f, g, i, j)
            BY <1>3
      <2>2. x + 1 \in Nat /\ x < x + 1
            OBVIOUS
      <2> QED BY <2>1, <2>2
<1> QED BY <1>6, <1>7, <1>8

\* Overlap finds two forms to overlap exactly when some command line is a line
\* of both: the comparison of an operation's forms with another's, slot by
\* slot, misses no command the two can share, and reports none they do not.
THEOREM OverlapIsExact ==
    ASSUME NEW f, WellFormed(f), NEW g, WellFormed(g)
    PROVE  Overlap(f, g) <=> Lines(f) \intersect Lines(g) # {}
<1>1. PICK w : Walks(w, f, g) /\ (Overlap(f, g) <=> w[<<1, 1>>])
      BY OverlapDef
<1>2. PICK a : LinesFrom(a, f) /\ Lines(f) = a[1]
      BY LinesDef
<1>3. PICK b : LinesFrom(b, g) /\ Lines(g) = b[1]
      BY LinesDef
<1>4. 1 \in 1 .. Len(f) + 1 /\ 1 \in 1 .. Len(g) + 1
      BY FormSlots
<1>5. w[<<1, 1>>] => a[1] \intersect b[1] # {}
      BY <1>1, <1>2, <1>3, <1>4, FoundLineIsShared
<1>6. \A line \in a[1] \intersect b[1] : w[<<1, 1>>]
      BY <1>1, <1>2, <1>3, <1>4, SharedLineIsFound
<1> QED BY <1>1, <1>2, <1>3, <1>5, <1>6

-----------------------------------------------------------------------------
(* The classes of operations *)

\* The command at hand is one of the forms of the operation being run.
CommandIsBuilt ==
    called # Nothing => called \in Operations /\ command \in called.forms

\* Only what buildFrames renders for an operation of the registry is ever at
\* hand, from the moment it is built until the answer is in.
THEOREM CommandStaysBuilt == Spec => []CommandIsBuilt
<1>1. Init => CommandIsBuilt
      BY DEF Init, CommandIsBuilt
<1>2. CommandIsBuilt /\ [Next]_vars => CommandIsBuilt'
      <2> SUFFICES ASSUME CommandIsBuilt, [Next]_vars
                   PROVE  CommandIsBuilt'
          OBVIOUS
      <2>1. ASSUME NEW op \in Operations, NEW form \in op.forms, BuildFrames(op, form)
            PROVE  CommandIsBuilt'
            BY <2>1 DEF BuildFrames, CommandIsBuilt
      <2>2. CASE Answered
            BY <2>2 DEF Answered, CommandIsBuilt
      <2>3. CASE UNCHANGED vars
            BY <2>3 DEF vars, CommandIsBuilt
      <2> QED BY <2>1, <2>2, <2>3 DEF Next
<1> QED BY <1>1, <1>2, PTL DEF Spec

\* Some input of op gives this command line.
Sends(op, line) == \E form \in op.forms : line \in Lines(form)

\* No command line the command at hand can come out as is one that op sends.
NoLineInCommon(op) == \A line \in Lines(command) : ~Sends(op, line)

\* ReadStaysRead and DestructiveStaysDestructive, of the command lines the
\* router gets in place of the forms they are compared by.
ReadLinesStayRead ==
    called # Nothing /\ "read" \in Classes(called) =>
      \A op \in Changing :
        <<called.id, op.id>> \notin RepeatedShows => NoLineInCommon(op)
DestructiveLinesStayDestructive ==
    called # Nothing /\ "write" \in Classes(called) =>
      \A op \in Irreversible : NoLineInCommon(op)

\* CouldComeFrom compares forms, and by that says whether op can send one of
\* the lines of the command at hand.
LEMMA CouldComeFromIsExact ==
    ASSUME CommandIsBuilt, called # Nothing, NEW op \in Operations
    PROVE  CouldComeFrom(op) <=> ~NoLineInCommon(op)
<1>1. called \in Operations /\ command \in called.forms
      BY DEF CommandIsBuilt
<1>2. WellFormed(command) /\ \A form \in op.forms : WellFormed(form)
      BY <1>1, OperationsAssumption
<1>3. \A form \in op.forms :
         Overlap(command, form) <=> Lines(command) \intersect Lines(form) # {}
      BY <1>2, OverlapIsExact
<1>4. CouldComeFrom(op) <=>
         \E form \in op.forms : \E line \in Lines(command) : line \in Lines(form)
      BY <1>3 DEF CouldComeFrom
<1> QED BY <1>4 DEF NoLineInCommon, Sends

\* What ReadStaysRead says of forms is what it should say of command lines: in
\* every state it holds exactly when no command line that goes out for a read
\* is one that an operation taken for something else could have sent.
THEOREM ReadStaysReadIsExact == Spec => [](ReadStaysRead <=> ReadLinesStayRead)
<1>1. CommandIsBuilt => (ReadStaysRead <=> ReadLinesStayRead)
      <2> SUFFICES ASSUME CommandIsBuilt, called # Nothing
                   PROVE  ReadStaysRead <=> ReadLinesStayRead
          BY DEF ReadStaysRead, ReadLinesStayRead
      <2>1. \A op \in Changing : CouldComeFrom(op) <=> ~NoLineInCommon(op)
            BY CouldComeFromIsExact DEF Changing
      <2> QED BY <2>1 DEF ReadStaysRead, ReadLinesStayRead
<1> QED BY <1>1, CommandStaysBuilt, PTL

\* And DestructiveStaysDestructive holds exactly when no command line that goes
\* out for a write is one that a destructive operation could have sent.
THEOREM DestructiveStaysDestructiveIsExact ==
    Spec => [](DestructiveStaysDestructive <=> DestructiveLinesStayDestructive)
<1>1. CommandIsBuilt =>
         (DestructiveStaysDestructive <=> DestructiveLinesStayDestructive)
      <2> SUFFICES ASSUME CommandIsBuilt, called # Nothing
                   PROVE  DestructiveStaysDestructive <=> DestructiveLinesStayDestructive
          BY DEF DestructiveStaysDestructive, DestructiveLinesStayDestructive
      <2>1. \A op \in Irreversible : CouldComeFrom(op) <=> ~NoLineInCommon(op)
            BY CouldComeFromIsExact DEF Irreversible
      <2> QED BY <2>1 DEF DestructiveStaysDestructive, DestructiveLinesStayDestructive
<1> QED BY <1>1, CommandStaysBuilt, PTL

-----------------------------------------------------------------------------
(* Putting forms together *)

\* Induction from the end of a form back to its first slot.
LEMMA BackToFront ==
    ASSUME NEW l \in Nat, NEW S \in SUBSET (1 .. l + 1), l + 1 \in S,
           \A i \in 1 .. l : i + 1 .. l + 1 \subseteq S => i \in S
    PROVE  S = 1 .. l + 1
<1> DEFINE T == {n \in Nat : n <= l => l + 1 - n .. l + 1 \subseteq S}
<1>1. 0 \in T
      <2>1. l + 1 - 0 .. l + 1 = {l + 1}
            OBVIOUS
      <2> QED BY <2>1
<1>2. ASSUME NEW n \in T
      PROVE  n + 1 \in T
      <2>1. n \in Nat /\ n + 1 \in Nat
            OBVIOUS
      <2>2. SUFFICES ASSUME n + 1 <= l
                     PROVE  l + 1 - (n + 1) .. l + 1 \subseteq S
            BY <2>1
      <2>3. l - n \in 1 .. l /\ (l - n) + 1 = l + 1 - n /\ l + 1 - (n + 1) = l - n
            BY <2>1, <2>2
      <2>4. l + 1 - n .. l + 1 \subseteq S
            BY <2>1, <2>2
      <2>5. l - n \in S
            BY <2>3, <2>4
      <2>6. \A i \in l - n .. l + 1 : i = l - n \/ i \in l + 1 - n .. l + 1
            BY <2>1, <2>2
      <2> QED BY <2>3, <2>4, <2>5, <2>6
<1>3. T = Nat
      <2> HIDE DEF T
      <2>1. T \in SUBSET Nat
            BY DEF T
      <2> QED BY <1>1, <1>2, <2>1, NaturalSetInduction
<1>4. l <= l /\ \A i \in 1 .. l + 1 : i \in l + 1 - l .. l + 1
      OBVIOUS
<1>5. l + 1 - l .. l + 1 \subseteq S
      BY <1>3, <1>4
<1>6. \A i \in 1 .. l + 1 : i \in S
      BY <1>4, <1>5
<1> QED BY <1>6

\* Nothing before a line, and nothing after it.
LEMMA FollowedEmpty ==
    ASSUME NEW A \in SUBSET Seq(Tokens)
    PROVE  Followed({<<>>}, A) = A /\ Followed(A, {<<>>}) = A
<1>1. \A line \in A : <<>> \o line = line /\ line \o <<>> = line
      BY ConcatEmptySeq
<1>2. ASSUME NEW line \in A
      PROVE  line \in Followed({<<>>}, A) /\ line \in Followed(A, {<<>>})
      <2>1. <<>> \o line \in Followed({<<>>}, A) /\ line \o <<>> \in Followed(A, {<<>>})
            BY FollowedHas
      <2> QED BY <1>1, <2>1
<1>3. ASSUME NEW line \in Followed({<<>>}, A)
      PROVE  line \in A
      <2>1. PICK u \in {<<>>}, v \in A : line = u \o v
            BY FollowedSplits
      <2> QED BY <1>1, <2>1
<1>4. ASSUME NEW line \in Followed(A, {<<>>})
      PROVE  line \in A
      <2>1. PICK u \in A, v \in {<<>>} : line = u \o v
            BY FollowedSplits
      <2> QED BY <1>1, <2>1
<1> QED BY <1>2, <1>3, <1>4

\* It does not matter how lines of the three sets are grouped.
Groups(A, B, C) ==
    \A u \in A : \A v \in B : \A x \in C : (u \o v) \o x = u \o (v \o x)

\* Then it does not matter how the sets are grouped.
LEMMA FollowedGrouping ==
    ASSUME NEW A, NEW B, NEW C, Groups(A, B, C)
    PROVE  Followed(A, Followed(B, C)) = Followed(Followed(A, B), C)
<1>1. ASSUME NEW line \in Followed(A, Followed(B, C))
      PROVE  line \in Followed(Followed(A, B), C)
      <2>1. PICK u \in A : \E r \in Followed(B, C) : line = u \o r
            BY FollowedSplits
      <2>2. PICK r \in Followed(B, C) : line = u \o r
            BY <2>1
      <2>3. PICK v \in B : \E x \in C : r = v \o x
            BY FollowedSplits
      <2>4. PICK x \in C : r = v \o x
            BY <2>3
      <2>5. line = (u \o v) \o x
            BY <2>2, <2>4 DEF Groups
      <2>6. u \o v \in Followed(A, B)
            BY FollowedHas
      <2>7. (u \o v) \o x \in Followed(Followed(A, B), C)
            BY <2>6, FollowedHas
      <2> QED BY <2>5, <2>7
<1>2. ASSUME NEW line \in Followed(Followed(A, B), C)
      PROVE  line \in Followed(A, Followed(B, C))
      <2>1. PICK r \in Followed(A, B) : \E x \in C : line = r \o x
            BY FollowedSplits
      <2>2. PICK x \in C : line = r \o x
            BY <2>1
      <2>3. PICK u \in A : \E v \in B : r = u \o v
            BY FollowedSplits
      <2>4. PICK v \in B : r = u \o v
            BY <2>3
      <2>5. line = u \o (v \o x)
            BY <2>2, <2>4 DEF Groups
      <2>6. v \o x \in Followed(B, C)
            BY FollowedHas
      <2>7. u \o (v \o x) \in Followed(A, Followed(B, C))
            BY <2>6, FollowedHas
      <2> QED BY <2>5, <2>7
<1> QED BY <1>1, <1>2

\* Lines of tokens one after the other can be grouped either way.
LEMMA FollowedAssociative ==
    ASSUME NEW A \in SUBSET Seq(Tokens), NEW B \in SUBSET Seq(Tokens),
           NEW C \in SUBSET Seq(Tokens)
    PROVE  Followed(A, Followed(B, C)) = Followed(Followed(A, B), C)
<1>1. Groups(A, B, C)
      BY ConcatAssociative DEF Groups
<1> QED BY <1>1, FollowedGrouping

\* What follows one set of lines or another.
LEMMA FollowedUnion ==
    ASSUME NEW A, NEW B, NEW C
    PROVE  Followed(A \union B, C) = Followed(A, C) \union Followed(B, C)
<1>1. ASSUME NEW line \in Followed(A \union B, C)
      PROVE  line \in Followed(A, C) \union Followed(B, C)
      <2>1. PICK u \in A \union B, v \in C : line = u \o v
            BY FollowedSplits
      <2> QED BY <2>1, FollowedHas
<1>2. ASSUME NEW line \in Followed(A, C)
      PROVE  line \in Followed(A \union B, C)
      <2>1. PICK u \in A, v \in C : line = u \o v
            BY FollowedSplits
      <2> QED BY <2>1, FollowedHas
<1>3. ASSUME NEW line \in Followed(B, C)
      PROVE  line \in Followed(A \union B, C)
      <2>1. PICK u \in B, v \in C : line = u \o v
            BY FollowedSplits
      <2> QED BY <2>1, FollowedHas
<1> QED BY <1>1, <1>2, <1>3

\* One form after another is a form.
LEMMA ConcatForms ==
    ASSUME NEW f, WellFormed(f), NEW g, WellFormed(g)
    PROVE  /\ WellFormed(f \o g)
           /\ Len(f \o g) = Len(f) + Len(g)
           /\ \A i \in 1 .. Len(f) : (f \o g)[i] = f[i]
           /\ \A j \in 1 .. Len(g) : (f \o g)[Len(f) + j] = g[j]
<1>1. f \in Seq(Slots) /\ g \in Seq(Slots) /\ Len(f) \in Nat /\ Len(g) \in Nat
      BY FormSlots DEF WellFormed
<1>2. PICK h : h = f \o g
      OBVIOUS
<1>3. /\ h \in Seq(Slots) /\ Len(h) = Len(f) + Len(g)
      /\ \A i \in 1 .. Len(f) + Len(g) : h[i] = IF i <= Len(f) THEN f[i] ELSE g[i - Len(f)]
      BY <1>1, <1>2, ConcatProperties
<1>4. \A i \in 1 .. Len(f) : h[i] = f[i]
      BY <1>1, <1>3
<1>5. ASSUME NEW j \in 1 .. Len(g)
      PROVE  h[Len(f) + j] = g[j]
      <2>1. /\ Len(f) + j \in 1 .. Len(f) + Len(g) /\ ~(Len(f) + j <= Len(f))
            /\ (Len(f) + j) - Len(f) = j
            BY <1>1
      <2> QED BY <1>3, <2>1
<1>6. ASSUME NEW k \in DOMAIN h
      PROVE  k + h[k].skip <= Len(h) + 1 /\ (h[k].many => h[k].skip <= 1)
      <2>1. k \in 1 .. Len(f) + Len(g)
            BY <1>3, LenProperties
      <2>2. CASE k <= Len(f)
            <3>1. k \in 1 .. Len(f) /\ h[k] = f[k]
                  BY <1>1, <1>4, <2>1, <2>2
            <3>2. f[k].skip \in Nat /\ k + f[k].skip <= Len(f) + 1 /\ (f[k].many => f[k].skip <= 1)
                  <4>1. /\ f[k].skip \in Nat /\ k + f[k].skip \in 1 .. Len(f) + 1
                        /\ f[k].many => f[k].skip \in {0, 1}
                        BY <3>1, FormSlots
                  <4> QED BY <1>1, <4>1
            <3> QED BY <1>1, <1>3, <3>1, <3>2
      <2>3. CASE ~(k <= Len(f))
            <3>1. PICK j \in 1 .. Len(g) : k = Len(f) + j
                  <4>1. k - Len(f) \in 1 .. Len(g) /\ k = Len(f) + (k - Len(f))
                        BY <1>1, <2>1, <2>3
                  <4> QED BY <4>1
            <3>2. h[k] = g[j]
                  BY <1>5, <3>1
            <3>3. g[j].skip \in Nat /\ j + g[j].skip <= Len(g) + 1 /\ (g[j].many => g[j].skip <= 1)
                  <4>1. /\ g[j].skip \in Nat /\ j + g[j].skip \in 1 .. Len(g) + 1
                        /\ g[j].many => g[j].skip \in {0, 1}
                        BY FormSlots
                  <4> QED BY <1>1, <4>1
            <3> QED BY <1>1, <1>3, <3>1, <3>2, <3>3
      <2> QED BY <2>2, <2>3
<1>7. WellFormed(h)
      BY <1>3, <1>6 DEF WellFormed
<1> QED BY <1>2, <1>3, <1>4, <1>5, <1>7

\* The lines of one form after another: a line of the first, then one of the
\* second. An optional part of the first never reaches into the second.
THEOREM LinesOfConcat ==
    ASSUME NEW f, WellFormed(f), NEW g, WellFormed(g)
    PROVE  Lines(f \o g) = Followed(Lines(f), Lines(g))
<1>1. PICK h : h = f \o g
      OBVIOUS
<1>2. /\ WellFormed(h) /\ Len(h) = Len(f) + Len(g)
      /\ \A i \in 1 .. Len(f) : h[i] = f[i]
      /\ \A j \in 1 .. Len(g) : h[Len(f) + j] = g[j]
      BY <1>1, ConcatForms
<1>3. PICK a : LinesFrom(a, f) /\ Lines(f) = a[1]
      BY LinesDef
<1>4. PICK b : LinesFrom(b, g) /\ Lines(g) = b[1]
      BY LinesDef
<1>5. PICK c : LinesFrom(c, h) /\ Lines(h) = c[1]
      BY <1>2, LinesDef
<1>6. PICK m \in Nat, n \in Nat : m = Len(f) /\ n = Len(g)
      BY FormSlots
<1>7. /\ \A i \in 1 .. m + 1 : a[i] \subseteq Seq(Tokens)
      /\ \A j \in 1 .. n + 1 : b[j] \subseteq Seq(Tokens)
      BY <1>3, <1>4, <1>6, LinesType
<1>8. \A j \in 1 .. n + 1 : c[m + j] = b[j]
      <2> DEFINE S == {j \in 1 .. n + 1 : c[m + j] = b[j]}
      <2>1. n + 1 \in S
            <3>1. c[Len(h) + 1] = {<<>>} /\ b[Len(g) + 1] = {<<>>}
                  BY <1>2, <1>4, <1>5, LinesAtEnd
            <3>2. Len(h) + 1 = m + (n + 1) /\ Len(g) + 1 = n + 1 /\ n + 1 \in 1 .. n + 1
                  BY <1>2, <1>6
            <3>3. c[m + (n + 1)] = b[n + 1]
                  BY <3>1, <3>2
            <3> QED BY <3>2, <3>3
      <2>2. ASSUME NEW j \in 1 .. n, j + 1 .. n + 1 \subseteq S
            PROVE  j \in S
            <3>1. m + j \in 1 .. Len(h) /\ h[m + j] = g[j] /\ j \in 1 .. Len(g)
                  BY <1>2, <1>6
            <3>2. j + 1 \in S /\ (m + j) + 1 = m + (j + 1)
                  BY <2>2
            <3>3. /\ g[j].skip \in Nat
                  /\ g[j].skip > 0 => j + g[j].skip \in j + 1 .. n + 1
                  /\ (m + j) + g[j].skip = m + (j + g[j].skip)
                  <4>1. g[j].skip \in Nat /\ j + g[j].skip \in 1 .. Len(g) + 1
                        BY <3>1, FormSlots
                  <4>2. PICK k \in Nat : k = g[j].skip
                        BY <4>1
                  <4>3. j + k <= n + 1
                        BY <1>6, <4>1, <4>2
                  <4>4. (k > 0 => j + k \in j + 1 .. n + 1) /\ (m + j) + k = m + (j + k)
                        BY <4>3
                  <4> QED BY <4>2, <4>4
            <3>4. g[j].skip > 0 => c[(m + j) + g[j].skip] = b[j + g[j].skip]
                  BY <2>2, <3>3
            <3>5. c[(m + j) + 1] = b[j + 1]
                  BY <3>2
            <3>6. c[m + j] = Followed(Held(g[j]), c[(m + j) + 1])
                     \union (IF g[j].skip > 0 THEN c[(m + j) + g[j].skip] ELSE {})
                  <4>1. PICK p \in 1 .. Len(h) : p = m + j
                        BY <3>1
                  <4>2. c[p] = Followed(Held(h[p]), c[p + 1])
                           \union (IF h[p].skip > 0 THEN c[p + h[p].skip] ELSE {})
                        BY <1>2, <1>5, LinesAtSlot
                  <4> QED BY <3>1, <4>1, <4>2
            <3>7. b[j] = Followed(Held(g[j]), b[j + 1])
                     \union (IF g[j].skip > 0 THEN b[j + g[j].skip] ELSE {})
                  BY <1>4, <3>1, LinesAtSlot
            <3> HIDE DEF S
            <3>8. c[m + j] = b[j]
                  BY <3>4, <3>5, <3>6, <3>7
            <3> QED BY <3>8 DEF S
      <2>3. S = 1 .. n + 1
            <3> HIDE DEF S
            <3>1. S \in SUBSET (1 .. n + 1)
                  BY DEF S
            <3> QED BY <2>1, <2>2, <3>1, BackToFront
      <2> QED BY <2>3
<1>9. \A i \in 1 .. m + 1 : c[i] = Followed(a[i], b[1])
      <2> DEFINE S == {i \in 1 .. m + 1 : c[i] = Followed(a[i], b[1])}
      <2>0. b[1] \subseteq Seq(Tokens)
            BY <1>7
      <2>1. m + 1 \in S
            <3>1. a[m + 1] = {<<>>}
                  BY <1>3, <1>6, LinesAtEnd
            <3>2. c[m + 1] = b[1]
                  BY <1>8
            <3>3. c[m + 1] = Followed(a[m + 1], b[1])
                  BY <2>0, <3>1, <3>2, FollowedEmpty
            <3>4. m + 1 \in 1 .. m + 1
                  OBVIOUS
            <3> QED BY <3>3, <3>4
      <2>2. ASSUME NEW i \in 1 .. m, i + 1 .. m + 1 \subseteq S
            PROVE  i \in S
            <3>1. i \in 1 .. Len(h) /\ h[i] = f[i] /\ i \in 1 .. Len(f)
                  BY <1>2, <1>6
            <3>2. i + 1 \in S /\ i + 1 \in 1 .. m + 1
                  BY <2>2
            <3>3. /\ f[i].skip \in Nat
                  /\ f[i].skip > 0 => i + f[i].skip \in i + 1 .. m + 1
                  BY <1>6, <3>1, FormSlots
            <3>4. f[i].skip > 0 => c[i + f[i].skip] = Followed(a[i + f[i].skip], b[1])
                  BY <2>2, <3>3
            <3>5. c[i + 1] = Followed(a[i + 1], b[1])
                  BY <3>2
            <3>6. c[i] = Followed(Held(f[i]), c[i + 1])
                     \union (IF f[i].skip > 0 THEN c[i + f[i].skip] ELSE {})
                  BY <1>2, <1>5, <3>1, LinesAtSlot
            <3>7. a[i] = Followed(Held(f[i]), a[i + 1])
                     \union (IF f[i].skip > 0 THEN a[i + f[i].skip] ELSE {})
                  BY <1>3, <3>1, LinesAtSlot
            <3> HIDE DEF S
            <3>8. Followed(Held(f[i]), c[i + 1]) = Followed(Followed(Held(f[i]), a[i + 1]), b[1])
                  <4>1. Held(f[i]) \subseteq Seq(Tokens) /\ a[i + 1] \subseteq Seq(Tokens)
                        BY <1>7, <3>2, HeldTokens
                  <4> QED BY <2>0, <3>5, <4>1, FollowedAssociative
            <3>9. c[i] = Followed(a[i], b[1])
                  <4>1. CASE f[i].skip > 0
                        BY <3>4, <3>6, <3>7, <3>8, <4>1, FollowedUnion
                  <4>2. CASE ~(f[i].skip > 0)
                        BY <3>6, <3>7, <3>8, <4>2
                  <4> QED BY <4>1, <4>2
            <3> QED BY <3>9 DEF S
      <2>3. S = 1 .. m + 1
            <3> HIDE DEF S
            <3>1. S \in SUBSET (1 .. m + 1)
                  BY DEF S
            <3> QED BY <2>1, <2>2, <3>1, BackToFront
      <2> QED BY <2>3
<1> QED BY <1>1, <1>3, <1>4, <1>5, <1>9

\* Every line of a form is made of tokens that fit its slots.
LEMMA LinesWithin ==
    ASSUME NEW f, WellFormed(f), NEW S,
           \A i \in 1 .. Len(f) : Fitting(f[i]) \subseteq S
    PROVE  Lines(f) \subseteq Seq(S)
<1>1. PICK a : LinesFrom(a, f) /\ Lines(f) = a[1]
      BY LinesDef
<1>2. PICK l \in Nat : l = Len(f)
      BY FormSlots
<1> DEFINE U == {i \in 1 .. l + 1 : a[i] \subseteq Seq(S)}
<1>3. l + 1 \in U
      <2>1. a[l + 1] = {<<>>} /\ l + 1 \in 1 .. l + 1
            BY <1>1, <1>2, LinesAtEnd
      <2> QED BY <2>1, EmptySeq
<1>4. ASSUME NEW i \in 1 .. l, i + 1 .. l + 1 \subseteq U
      PROVE  i \in U
      <2>1. i \in 1 .. Len(f) /\ i + 1 \in U /\ a[i + 1] \subseteq Seq(S)
            BY <1>2, <1>4
      <2>2. f[i].skip \in Nat /\ i + f[i].skip \in 1 .. Len(f) + 1
            BY <2>1, FormSlots
      <2>3. f[i].skip > 0 => i + f[i].skip \in i + 1 .. l + 1
            BY <1>2, <2>2
      <2>4. f[i].skip > 0 => a[i + f[i].skip] \subseteq Seq(S)
            BY <1>4, <2>3
      <2>5. Held(f[i]) \subseteq Seq(S)
            <3>1. Held(f[i]) \subseteq Seq(Fitting(f[i]))
                  BY HeldTokens
            <3>2. Fitting(f[i]) \subseteq S
                  BY <2>1
            <3> QED BY <3>1, <3>2, SeqMonotonic
      <2>6. ASSUME NEW line \in Followed(Held(f[i]), a[i + 1])
            PROVE  line \in Seq(S)
            <3>1. PICK u \in Held(f[i]) : \E v \in a[i + 1] : line = u \o v
                  <4> HIDE DEF U
                  <4> QED BY SMTT(60) DEF Followed
            <3>2. PICK v \in a[i + 1] : line = u \o v
                  BY <3>1
            <3>3. u \in Seq(S) /\ v \in Seq(S)
                  BY <2>1, <2>5
            <3> QED BY <3>2, <3>3, ConcatProperties
      <2>7. a[i] = Followed(Held(f[i]), a[i + 1])
                   \union (IF f[i].skip > 0 THEN a[i + f[i].skip] ELSE {})
            BY <1>1, <2>1, LinesAtSlot
      <2> HIDE DEF U
      <2>8. a[i] \subseteq Seq(S)
            BY <2>4, <2>6, <2>7
      <2> QED BY <2>8 DEF U
<1>5. U = 1 .. l + 1
      <2> HIDE DEF U
      <2>1. U \in SUBSET (1 .. l + 1)
            BY DEF U
      <2> QED BY <1>3, <1>4, <2>1, BackToFront
<1>6. 1 \in 1 .. l + 1
      OBVIOUS
<1> QED BY <1>1, <1>5, <1>6

\* A form of one slot holds what the slot holds.
LEMMA LinesOfOne ==
    ASSUME NEW s \in Slots, s.skip = 0
    PROVE  WellFormed(<<s>>) /\ Lines(<<s>>) = Held(s)
<1>1. <<s>> \in Seq(Slots) /\ Len(<<s>>) = 1 /\ <<s>>[1] = s /\ DOMAIN <<s>> = 1 .. 1
      OBVIOUS
<1>2. PICK f : f = <<s>>
      OBVIOUS
<1>3. WellFormed(f)
      BY <1>1, <1>2 DEF WellFormed
<1>4. PICK a : LinesFrom(a, f) /\ Lines(f) = a[1]
      BY <1>3, LinesDef
<1>5. a[1 + 1] = {<<>>}
      BY <1>1, <1>2, <1>3, <1>4, LinesAtEnd
<1>6. a[1] = Followed(Held(f[1]), a[1 + 1])
             \union (IF f[1].skip > 0 THEN a[1 + f[1].skip] ELSE {})
      <2>1. 1 \in 1 .. Len(f)
            BY <1>1, <1>2
      <2> QED BY <1>3, <1>4, <2>1, LinesAtSlot
<1>7. a[1] = Followed(Held(s), {<<>>})
      BY <1>1, <1>2, <1>5, <1>6
<1>8. Followed(Held(s), {<<>>}) = Held(s)
      BY HeldTokens, FollowedEmpty
<1> QED BY <1>2, <1>3, <1>4, <1>7, <1>8

\* Opt leaves a part to the caller: its lines, and nothing at all.
THEOREM LinesOfOpt ==
    ASSUME NEW f, WellFormed(f), f # <<>>, f[1].skip = 0, f[1].many => Len(f) = 1
    PROVE  WellFormed(Opt(f)) /\ Lines(Opt(f)) = Lines(f) \union {<<>>}
<1>1. f \in Seq(Slots) /\ Len(f) \in Nat /\ Len(f) # 0 /\ DOMAIN f = 1 .. Len(f)
      BY EmptySeq, LenProperties DEF WellFormed
<1>2. PICK l \in Nat \ {0} : l = Len(f)
      BY <1>1
<1>3. PICK h : h = Opt(f)
      OBVIOUS
<1>4. f[1] \in Slots /\ 1 \in 1 .. l
      BY <1>1, <1>2, ElementOfSeq
<1>5. PICK s : s = [f[1] EXCEPT !.skip = l]
      OBVIOUS
<1>6. /\ s \in Slots /\ s.skip = l /\ s.many = f[1].many
      /\ s.words = f[1].words /\ s.flags = f[1].flags /\ s.kinds = f[1].kinds
      /\ s.lo = f[1].lo /\ s.hi = f[1].hi
      BY <1>4, <1>5 DEF Slots
<1>7. h = [f EXCEPT ![1] = s]
      BY <1>2, <1>3, <1>5 DEF Opt
<1>8. h \in Seq(Slots) /\ Len(h) = l
      BY <1>1, <1>2, <1>4, <1>6, <1>7, ExceptSeq
<1>9. h[1] = s /\ \A i \in 1 .. l : i # 1 => h[i] = f[i]
      BY <1>1, <1>2, <1>4, <1>7
<1>10. Held(s) = Held(f[1])
      <2>1. \A t \in Tokens : Fits(t, s) <=> Fits(t, f[1])
            BY <1>6 DEF Fits, Open, AnyFlag
      <2>2. Fitting(s) = Fitting(f[1])
            BY <2>1 DEF Fitting
      <2> QED BY <1>6, <2>2 DEF Held
<1>11. WellFormed(h)
      <2>1. ASSUME NEW i \in 1 .. l
            PROVE  i + h[i].skip <= l + 1 /\ (h[i].many => h[i].skip <= 1)
            <3>1. CASE i = 1
                  BY <1>2, <1>6, <1>9, <3>1
            <3>2. CASE i # 1
                  <4>1. h[i] = f[i]
                        BY <1>9, <3>2
                  <4> QED BY <1>1, <1>2, <4>1 DEF WellFormed
            <3> QED BY <3>1, <3>2
      <2>2. DOMAIN h = 1 .. l
            BY <1>8, LenProperties
      <2> QED BY <1>8, <2>1, <2>2 DEF WellFormed
<1>12. PICK a : LinesFrom(a, f) /\ Lines(f) = a[1]
      BY LinesDef
<1>13. PICK c : LinesFrom(c, h) /\ Lines(h) = c[1]
      BY <1>11, LinesDef
<1>14. a[l + 1] = {<<>>} /\ c[l + 1] = {<<>>}
      BY <1>2, <1>8, <1>11, <1>12, <1>13, LinesAtEnd
<1> DEFINE U == {i \in 1 .. l + 1 : i = 1 \/ a[i] = c[i]}
<1>15. l + 1 \in U
      <2>1. l + 1 \in 1 .. l + 1 /\ a[l + 1] = c[l + 1]
            BY <1>14
      <2> QED BY <2>1
<1>16. ASSUME NEW i \in 1 .. l, i + 1 .. l + 1 \subseteq U
       PROVE  i \in U
      <2>1. CASE i = 1
            BY <2>1
      <2>2. CASE i # 1
            <3>1. i \in 1 .. Len(f) /\ i \in 1 .. Len(h) /\ h[i] = f[i]
                  BY <1>2, <1>8, <1>9, <2>2
            <3>2. f[i].skip \in Nat /\ i + f[i].skip \in 1 .. Len(f) + 1
                  BY <3>1, FormSlots
            <3>3. f[i].skip > 0 => i + f[i].skip \in i + 1 .. l + 1 /\ i + f[i].skip # 1
                  BY <1>2, <3>2
            <3>4. i + 1 \in i + 1 .. l + 1 /\ i + 1 # 1
                  OBVIOUS
            <3>5. a[i + 1] = c[i + 1]
                  BY <1>16, <3>4
            <3>6. f[i].skip > 0 => a[i + f[i].skip] = c[i + f[i].skip]
                  BY <1>16, <3>3
            <3> HIDE DEF U
            <3>7. a[i] = Followed(Held(f[i]), a[i + 1])
                         \union (IF f[i].skip > 0 THEN a[i + f[i].skip] ELSE {})
                  BY <1>12, <3>1, LinesAtSlot
            <3>8. c[i] = Followed(Held(h[i]), c[i + 1])
                         \union (IF h[i].skip > 0 THEN c[i + h[i].skip] ELSE {})
                  BY <1>11, <1>13, <3>1, LinesAtSlot
            <3>9. a[i] = c[i]
                  BY <3>1, <3>5, <3>6, <3>7, <3>8
            <3> QED BY <3>9 DEF U
      <2> QED BY <2>1, <2>2
<1>17. U = 1 .. l + 1
      <2> HIDE DEF U
      <2>1. U \in SUBSET (1 .. l + 1)
            BY DEF U
      <2> QED BY <1>15, <1>16, <2>1, BackToFront
<1>18. a[1 + 1] = c[1 + 1]
      <2>1. 1 + 1 \in 1 .. l + 1 /\ 1 + 1 # 1
            OBVIOUS
      <2> QED BY <1>17, <2>1
<1>19. a[1] = Followed(Held(f[1]), a[1 + 1])
      <2>1. PICK i \in 1 .. Len(f) : i = 1
            BY <1>2
      <2>2. a[i] = Followed(Held(f[i]), a[i + 1])
                   \union (IF f[i].skip > 0 THEN a[i + f[i].skip] ELSE {})
            BY <1>12, LinesAtSlot
      <2>3. ~(f[1].skip > 0)
            OBVIOUS
      <2> QED BY <2>1, <2>2, <2>3
<1>20. c[1] = Followed(Held(s), c[1 + 1]) \union c[1 + l]
      <2>1. 1 \in 1 .. Len(h)
            BY <1>8
      <2>2. c[1] = Followed(Held(h[1]), c[1 + 1])
                   \union (IF h[1].skip > 0 THEN c[1 + h[1].skip] ELSE {})
            BY <1>11, <1>13, <2>1, LinesAtSlot
      <2> QED BY <1>2, <1>6, <1>9, <2>2
<1>21. c[1 + l] = {<<>>}
      <2>1. 1 + l = l + 1
            OBVIOUS
      <2> QED BY <1>14, <2>1
<1> QED BY <1>3, <1>10, <1>11, <1>12, <1>13, <1>18, <1>19, <1>20, <1>21

\* first joins the first n of parts, for every n.
JoinsFirst(first, parts) ==
    first = [n \in 0 .. Len(parts) |->
               IF n = 0 THEN <<>> ELSE first[n - 1] \o parts[n]]

\* a joins the first k of parts, for every k up to n.
JoinsUpTo(a, parts, n) ==
    a[0] = <<>> /\ \A k \in 1 .. n : a[k] = a[k - 1] \o parts[k]

\* Any sequence of parts can be joined.
LEMMA JoinExists ==
    ASSUME NEW parts, Len(parts) \in Nat
    PROVE  \E first : JoinsFirst(first, parts)
<1>1. PICK l \in Nat : l = Len(parts)
      OBVIOUS
<1> DEFINE T == {n \in Nat : n <= l => \E a : JoinsUpTo(a, parts, n)}
<1>2. 0 \in T
      <2>1. PICK a : a = [k \in 0 .. 0 |-> <<>>]
            OBVIOUS
      <2>2. JoinsUpTo(a, parts, 0)
            BY <2>1 DEF JoinsUpTo
      <2> QED BY <2>2
<1>3. ASSUME NEW n \in T
      PROVE  n + 1 \in T
      <2>1. n \in Nat /\ n + 1 \in Nat
            OBVIOUS
      <2>2. SUFFICES ASSUME n + 1 <= l
                     PROVE  \E a : JoinsUpTo(a, parts, n + 1)
            BY <2>1
      <2>3. PICK a : JoinsUpTo(a, parts, n)
            <3>1. n <= l
                  BY <2>1, <2>2
            <3> QED BY <3>1
      <2> DEFINE b == [k \in 0 .. n + 1 |-> IF k = n + 1 THEN a[n] \o parts[n + 1] ELSE a[k]]
      <2>4. \A k \in 0 .. n : b[k] = a[k]
            BY <2>1
      <2>5. b[n + 1] = a[n] \o parts[n + 1]
            <3>1. n + 1 \in 0 .. n + 1
                  BY <2>1
            <3> QED BY <3>1
      <2> HIDE DEF b
      <2>6. b[0] = <<>>
            <3>1. 0 \in 0 .. n
                  BY <2>1
            <3> QED BY <2>3, <2>4, <3>1 DEF JoinsUpTo
      <2>7. ASSUME NEW k \in 1 .. n + 1
            PROVE  b[k] = b[k - 1] \o parts[k]
            <3>1. CASE k = n + 1
                  <4>1. k - 1 = n /\ n \in 0 .. n
                        BY <2>1, <3>1
                  <4> QED BY <2>4, <2>5, <3>1, <4>1
            <3>2. CASE k # n + 1
                  <4>1. k \in 1 .. n /\ k \in 0 .. n /\ k - 1 \in 0 .. n
                        BY <2>1, <3>2
                  <4> QED BY <2>3, <2>4, <4>1 DEF JoinsUpTo
            <3> QED BY <3>1, <3>2
      <2>8. JoinsUpTo(b, parts, n + 1)
            BY <2>6, <2>7 DEF JoinsUpTo
      <2> QED BY <2>8
<1>4. T = Nat
      <2> HIDE DEF T
      <2>1. T \in SUBSET Nat
            BY DEF T
      <2> QED BY <1>2, <1>3, <2>1, NaturalSetInduction
<1>5. PICK a : JoinsUpTo(a, parts, l)
      <2>1. l \in T
            <3> HIDE DEF T
            <3> QED BY <1>4
      <2>2. l <= l
            OBVIOUS
      <2> QED BY <2>1, <2>2
<1> DEFINE b == [n \in 0 .. l |-> a[n]]
<1>6. ASSUME NEW n \in 0 .. l
      PROVE  b[n] = IF n = 0 THEN <<>> ELSE b[n - 1] \o parts[n]
      <2>1. CASE n = 0
            BY <1>5, <2>1 DEF JoinsUpTo
      <2>2. CASE n # 0
            <3>1. n \in 1 .. l /\ n - 1 \in 0 .. l
                  BY <2>2
            <3> QED BY <1>5, <2>2, <3>1 DEF JoinsUpTo
      <2> QED BY <2>1, <2>2
<1>7. b = [n \in 0 .. l |-> b[n]]
      OBVIOUS
<1> HIDE DEF b
<1>8. b = [n \in 0 .. l |-> IF n = 0 THEN <<>> ELSE b[n - 1] \o parts[n]]
      BY <1>6, <1>7
<1>9. JoinsFirst(b, parts)
      BY <1>1, <1>8 DEF JoinsFirst
<1> QED BY <1>9

\* Joined joins all of them.
LEMMA JoinedDef ==
    ASSUME NEW parts, Len(parts) \in Nat
    PROVE  \E first : JoinsFirst(first, parts) /\ Joined(parts) = first[Len(parts)]
<1> DEFINE first == CHOOSE a : JoinsFirst(a, parts)
<1>1. JoinsFirst(first, parts)
      BY JoinExists
<1>2. Joined(parts) = first[Len(parts)]
      BY DEF Joined, JoinsFirst
<1> QED BY <1>1, <1>2

\* One part at a time.
LEMMA JoinedStep ==
    ASSUME NEW parts, Len(parts) \in Nat, NEW first, JoinsFirst(first, parts)
    PROVE  /\ first[0] = <<>>
           /\ \A n \in 1 .. Len(parts) : first[n] = first[n - 1] \o parts[n]
<1>1. \A n \in 0 .. Len(parts) :
         first[n] = IF n = 0 THEN <<>> ELSE first[n - 1] \o parts[n]
      BY DEF JoinsFirst
<1>2. 0 \in 0 .. Len(parts) /\ \A n \in 1 .. Len(parts) : n \in 0 .. Len(parts) /\ n # 0
      OBVIOUS
<1> QED BY <1>1, <1>2

\* What is joined is the first part and what is left of the others.
LEMMA JoinedBegins ==
    ASSUME NEW S, NEW given, Len(given) \in Nat \ {0},
           \A k \in 1 .. Len(given) : given[k] \in Seq(S)
    PROVE  \E rest \in Seq(S) : Joined(given) = given[1] \o rest
<1>1. PICK a : JoinsFirst(a, given) /\ Joined(given) = a[Len(given)]
      BY JoinedDef
<1>2. a[0] = <<>> /\ \A k \in 1 .. Len(given) : a[k] = a[k - 1] \o given[k]
      BY <1>1, JoinedStep
<1>3. 1 \in 1 .. Len(given) /\ given[1] \in Seq(S)
      OBVIOUS
<1> DEFINE T == {n \in Nat : n + 1 <= Len(given) =>
                   \E rest : rest \in Seq(S) /\ a[n + 1] = given[1] \o rest}
<1>4. 0 \in T
      <2>1. a[1] = <<>> \o given[1]
            <3>1. 1 - 1 = 0
                  OBVIOUS
            <3> QED BY <1>2, <1>3, <3>1
      <2>2. <<>> \o given[1] = given[1] /\ given[1] \o <<>> = given[1] /\ <<>> \in Seq(S)
            BY <1>3, ConcatEmptySeq, EmptySeq
      <2>3. a[0 + 1] = given[1] \o <<>>
            BY <2>1, <2>2
      <2>4. \E rest : rest \in Seq(S) /\ a[0 + 1] = given[1] \o rest
            BY <2>2, <2>3
      <2> QED BY <2>4
<1>5. ASSUME NEW n \in T
      PROVE  n + 1 \in T
      <2>1. n \in Nat /\ n + 1 \in Nat
            OBVIOUS
      <2>2. SUFFICES ASSUME (n + 1) + 1 <= Len(given)
                     PROVE  \E rest : rest \in Seq(S) /\ a[(n + 1) + 1] = given[1] \o rest
            BY <2>1
      <2>3. PICK rest : rest \in Seq(S) /\ a[n + 1] = given[1] \o rest
            BY <2>1, <2>2
      <2>4. PICK k \in 1 .. Len(given) : k = (n + 1) + 1 /\ k - 1 = n + 1
            BY <2>1, <2>2
      <2>5. a[k] = (given[1] \o rest) \o given[k] /\ given[k] \in Seq(S)
            BY <1>2, <2>3, <2>4
      <2>6. (given[1] \o rest) \o given[k] = given[1] \o (rest \o given[k])
            <3> HIDE DEF T
            <3>1. PICK u \in Seq(S), v \in Seq(S) : u = given[1] /\ v = given[k]
                  BY <1>3, <2>5
            <3>2. PICK r \in Seq(S) : r = rest
                  BY <2>3
            <3>3. (u \o r) \o v = u \o (r \o v)
                  BY ConcatAssociative, SMTT(60)
            <3> QED BY <3>1, <3>2, <3>3
      <2>7. rest \o given[k] \in Seq(S)
            BY <2>3, <2>5, ConcatProperties
      <2> QED BY <2>4, <2>5, <2>6, <2>7
<1>6. T = Nat
      <2> HIDE DEF T
      <2>1. T \in SUBSET Nat
            BY DEF T
      <2> QED BY <1>4, <1>5, <2>1, NaturalSetInduction
<1>7. PICK n \in Nat : n + 1 = Len(given)
      <2>1. Len(given) - 1 \in Nat /\ (Len(given) - 1) + 1 = Len(given)
            OBVIOUS
      <2> QED BY <2>1
<1>8. n \in T /\ n + 1 <= Len(given)
      <2> HIDE DEF T
      <2> QED BY <1>6, <1>7
<1>9. \E rest : rest \in Seq(S) /\ a[n + 1] = given[1] \o rest
      BY <1>8
<1> QED BY <1>1, <1>7, <1>9

\* A slot that takes in whatever another does.
LEMMA WiderSlot ==
    ASSUME NEW s \in Slots, NEW e \in Slots,
           s.words \subseteq e.words, s.flags \subseteq e.flags, s.kinds \subseteq e.kinds,
           Numbers(s) => e.lo <= s.lo /\ s.hi <= e.hi
    PROVE  Fitting(s) \subseteq Fitting(e)
<1>1. ASSUME Open(s)
      PROVE  Open(e)
      <2>1. PICK k : k \in s.kinds /\ k \notin {"quoted", "letter flag"}
            BY <1>1 DEF Open
      <2>2. k \in e.kinds \ {"quoted", "letter flag"}
            BY <2>1
      <2> QED BY <2>2 DEF Open
<1>2. ASSUME AnyFlag(s)
      PROVE  AnyFlag(e)
      <2>1. PICK k : k \in s.kinds /\ k \in {"token", "letter flag"}
            BY <1>2 DEF AnyFlag
      <2>2. k \in e.kinds \intersect {"token", "letter flag"}
            BY <2>1
      <2> QED BY <2>2 DEF AnyFlag
<1>3. \A n \in Int : n \in s.lo .. s.hi => n \in e.lo .. e.hi
      BY DEF Numbers, Slots
<1>4. ASSUME NEW t \in Tokens, Fits(t, s)
      PROVE  Fits(t, e)
      <2>1. CASE t.sort = "word"
            BY <1>1, <1>4, <2>1 DEF Fits
      <2>2. CASE t.sort = "flag"
            BY <1>2, <1>4, <2>2 DEF Fits
      <2>3. CASE t.sort = "number"
            <3>1. t.of \in s.lo .. s.hi => t.of \in Int
                  BY DEF Slots
            <3> QED BY <1>1, <1>3, <1>4, <2>3, <3>1 DEF Fits
      <2>4. CASE t.sort = "value"
            BY <1>1, <1>4, <2>4 DEF Fits
      <2>5. CASE t.sort = "quoted"
            BY <1>4, <2>5 DEF Fits
      <2> QED BY <1>4, <2>1, <2>2, <2>3, <2>4, <2>5 DEF Fits
<1> QED BY <1>4 DEF Fitting

\* The bound the unbounded integers of a form have.
LEMMA AnyIntIsPositive == AnyInt \in Nat /\ 1 <= AnyInt
BY DEF AnyInt

\* A slot put together from its fields.
LEMMA SlotOf ==
    ASSUME NEW words, NEW flags, NEW kinds, NEW lo, NEW hi,
           words \subseteq STRING, flags \subseteq STRING, kinds \subseteq STRING,
           lo \in -AnyInt .. AnyInt, hi \in -AnyInt .. AnyInt
    PROVE  /\ [words |-> words, flags |-> flags, kinds |-> kinds, lo |-> lo, hi |-> hi,
               skip |-> 0, many |-> TRUE] \in Slots
           /\ [words |-> words, flags |-> flags, kinds |-> kinds, lo |-> lo, hi |-> hi,
               skip |-> 0, many |-> FALSE] \in Slots
<1>1. words \in SUBSET STRING /\ flags \in SUBSET STRING /\ kinds \in SUBSET STRING
      OBVIOUS
<1>2. 0 \in Nat /\ TRUE \in BOOLEAN /\ FALSE \in BOOLEAN
      OBVIOUS
<1> QED BY <1>1, <1>2, Zenon DEF Slots

\* The slot Listed ends its forms with takes in what any slot of the parts does.
LEMMA AnyTokenIsWide ==
    ASSUME NEW parts \in Seq(Seq(Slots))
    PROVE  /\ AnyToken(parts) \in Slots
           /\ AnyToken(parts).skip = 0
           /\ AnyToken(parts).many
           /\ \A s \in SlotsOf(parts) :
                 s \in Slots /\ Fitting(s) \subseteq Fitting(AnyToken(parts))
<1>1. ASSUME NEW s \in SlotsOf(parts)
      PROVE  s \in Slots
      <2>1. PICK i \in DOMAIN parts : s \in {parts[i][j] : j \in DOMAIN parts[i]}
            BY DEF SlotsOf
      <2>2. PICK j \in DOMAIN parts[i] : s = parts[i][j]
            BY <2>1
      <2>3. parts[i] \in Seq(Slots)
            BY LenProperties
      <2>4. parts[i] \in [1 .. Len(parts[i]) -> Slots]
            BY <2>3, LenProperties
      <2> QED BY <2>2, <2>4
<1>2. PICK e : e = AnyToken(parts)
      OBVIOUS
<1>3. /\ e.words = UNION {s.words : s \in SlotsOf(parts)}
      /\ e.flags = UNION {s.flags : s \in SlotsOf(parts)}
      /\ e.kinds = UNION {s.kinds : s \in SlotsOf(parts)}
      /\ e.skip = 0 /\ e.many = TRUE
      /\ e = [words |-> e.words, flags |-> e.flags, kinds |-> e.kinds, lo |-> e.lo,
              hi |-> e.hi, skip |-> 0, many |-> TRUE]
      BY <1>2 DEF AnyToken
<1>4. /\ (\E s \in SlotsOf(parts) : s.lo <= s.hi) => e.lo = -AnyInt /\ e.hi = AnyInt
      /\ ~(\E s \in SlotsOf(parts) : s.lo <= s.hi) => e.lo = 1 /\ e.hi = 0
      BY <1>2 DEF AnyToken
<1>5. e.lo \in -AnyInt .. AnyInt /\ e.hi \in -AnyInt .. AnyInt
      BY <1>4, AnyIntIsPositive
<1>6. \A s \in SlotsOf(parts) : /\ s.words \subseteq STRING
                                /\ s.flags \subseteq STRING
                                /\ s.kinds \subseteq STRING
                                /\ s.lo \in -AnyInt .. AnyInt
                                /\ s.hi \in -AnyInt .. AnyInt
      BY <1>1 DEF Slots
<1>7. e.words \subseteq STRING /\ e.flags \subseteq STRING /\ e.kinds \subseteq STRING
      BY <1>3, <1>6
<1>8. e \in Slots
      <2>1. [words |-> e.words, flags |-> e.flags, kinds |-> e.kinds, lo |-> e.lo,
             hi |-> e.hi, skip |-> 0, many |-> TRUE] \in Slots
            BY <1>5, <1>7, SlotOf
      <2> QED BY <1>3, <2>1
<1>9. ASSUME NEW s \in SlotsOf(parts)
      PROVE  Fitting(s) \subseteq Fitting(e)
      <2>1. s.words \subseteq e.words /\ s.flags \subseteq e.flags /\ s.kinds \subseteq e.kinds
            BY <1>3
      <2>2. Numbers(s) => e.lo <= s.lo /\ s.hi <= e.hi
            BY <1>4, <1>6, AnyIntIsPositive DEF Numbers
      <2> QED BY <1>1, <1>8, <2>1, <2>2, WiderSlot
<1> QED BY <1>1, <1>2, <1>3, <1>8, <1>9

\* Listed stands for settings in whatever order and number the caller gives
\* them: a line of one part, and of another, or of the same one again, are
\* together a line of one of its forms. So no command of a setting list is
\* outside the forms the invariants compare.
THEOREM ListedCoversEveryOrder ==
    ASSUME NEW parts \in Seq(Seq(Slots)), \A i \in 1 .. Len(parts) : WellFormed(parts[i]),
           NEW given, Len(given) \in Nat \ {0},
           \A k \in 1 .. Len(given) : \E i \in 1 .. Len(parts) : given[k] \in Lines(parts[i])
    PROVE  \E form \in Listed(parts) : WellFormed(form) /\ Joined(given) \in Lines(form)
<1>1. PICK e : e = AnyToken(parts)
      OBVIOUS
<1>2. /\ e \in Slots /\ e.skip = 0 /\ e.many
      /\ \A s \in SlotsOf(parts) : Fitting(s) \subseteq Fitting(e)
      BY <1>1, AnyTokenIsWide
<1>3. ASSUME NEW i \in 1 .. Len(parts)
      PROVE  Lines(parts[i]) \subseteq Seq(Fitting(e))
      <2>1. parts[i] \in Seq(Slots) /\ i \in DOMAIN parts
            BY LenProperties
      <2>2. \A j \in 1 .. Len(parts[i]) : parts[i][j] \in SlotsOf(parts)
            <3>1. DOMAIN parts[i] = 1 .. Len(parts[i])
                  BY <2>1, LenProperties
            <3> QED BY <2>1, <3>1 DEF SlotsOf
      <2>3. \A j \in 1 .. Len(parts[i]) : Fitting(parts[i][j]) \subseteq Fitting(e)
            BY <1>2, <2>2
      <2> QED BY <2>3, LinesWithin
<1>4. \A k \in 1 .. Len(given) : given[k] \in Seq(Fitting(e))
      BY <1>3
<1>5. PICK rest \in Seq(Fitting(e)) : Joined(given) = given[1] \o rest
      BY <1>4, JoinedBegins
<1>6. PICK i \in 1 .. Len(parts) : given[1] \in Lines(parts[i])
      OBVIOUS
<1>7. WellFormed(<<e>>) /\ Lines(<<e>>) = Seq(Fitting(e))
      <2>1. WellFormed(<<e>>) /\ Lines(<<e>>) = Held(e)
            BY <1>2, LinesOfOne
      <2> QED BY <1>2, <2>1 DEF Held
<1>8. /\ WellFormed(parts[i] \o <<e>>)
      /\ Lines(parts[i] \o <<e>>) = Followed(Lines(parts[i]), Seq(Fitting(e)))
      BY <1>7, ConcatForms, LinesOfConcat
<1>9. Joined(given) \in Lines(parts[i] \o <<e>>)
      BY <1>5, <1>6, <1>8, FollowedHas
<1>10. parts[i] \o <<e>> \in Listed(parts)
      <2>1. i \in DOMAIN parts
            BY LenProperties
      <2> QED BY <1>1, <2>1 DEF Listed
<1> QED BY <1>8, <1>9, <1>10
\* A word of the command's own: one token, and no other.
LEMMA WordSlot ==
    ASSUME NEW w \in STRING, NEW s, s = [Slot EXCEPT !.words = {w}]
    PROVE  /\ s \in Slots
           /\ s.skip = 0
           /\ ~s.many
           /\ \A t \in Tokens : Fits(t, s) => t.of = w
<1>1. s = [words |-> {w}, flags |-> {}, lo |-> 1, hi |-> 0, kinds |-> {},
           skip |-> 0, many |-> FALSE]
      BY DEF Slot
<1>2. 1 \in -AnyInt .. AnyInt /\ 0 \in -AnyInt .. AnyInt
      BY AnyIntIsPositive
<1>3. {w} \subseteq STRING /\ {} \subseteq STRING
      OBVIOUS
<1>4. s \in Slots
      <2>1. [words |-> {w}, flags |-> {}, kinds |-> {}, lo |-> 1, hi |-> 0, skip |-> 0,
             many |-> FALSE] \in Slots
            BY <1>2, <1>3, SlotOf
      <2> QED BY <1>1, <2>1
<1>5. s.words = {w} /\ s.flags = {} /\ s.kinds = {} /\ s.lo = 1 /\ s.hi = 0
      BY <1>1
<1>6. ~Open(s) /\ ~AnyFlag(s)
      BY <1>5 DEF Open, AnyFlag
<1>7. ASSUME NEW t \in Tokens, Fits(t, s)
      PROVE  t.of = w
      <2>1. t.of \notin s.lo .. s.hi
            BY <1>5
      <2>2. t.of \in s.words
            BY <1>5, <1>6, <1>7, <2>1 DEF Fits
      <2> QED BY <1>5, <2>2
<1> QED BY <1>1, <1>4, <1>7

\* A form that begins with words.
LEMMA SayForms ==
    ASSUME NEW words \in Seq(STRING), NEW f, WellFormed(f)
    PROVE  /\ WellFormed(Say(words) \o f)
           /\ Len(words) <= Len(Say(words) \o f)
           /\ \A i \in 1 .. Len(words) :
                 /\ ~(Say(words) \o f)[i].many
                 /\ (Say(words) \o f)[i].skip = 0
                 /\ \A t \in Tokens : Fits(t, (Say(words) \o f)[i]) => t.of = words[i]
<1>1. PICK p : p = Say(words)
      OBVIOUS
<1>2. p = [i \in 1 .. Len(words) |-> [Slot EXCEPT !.words = {words[i]}]]
      BY <1>1, LenProperties DEF Say
<1>3. \A i \in 1 .. Len(words) : /\ p[i] \in Slots
                                 /\ p[i].skip = 0
                                 /\ ~p[i].many
                                 /\ \A t \in Tokens : Fits(t, p[i]) => t.of = words[i]
      <2> TAKE i \in 1 .. Len(words)
      <2>1. words[i] \in STRING
            BY ElementOfSeq
      <2>2. p[i] = [Slot EXCEPT !.words = {words[i]}]
            BY <1>2
      <2> QED BY <2>1, <2>2, WordSlot
<1>4. p \in Seq(Slots) /\ Len(p) = Len(words)
      <2>1. Len(words) \in Nat
            BY LenProperties
      <2>2. p \in [1 .. Len(words) -> Slots]
            BY <1>2, <1>3
      <2> QED BY <2>1, <2>2
<1>5. WellFormed(p)
      <2>1. DOMAIN p = 1 .. Len(words)
            BY <1>2
      <2> QED BY <1>3, <1>4, <2>1 DEF WellFormed
<1>6. /\ WellFormed(p \o f)
      /\ Len(p \o f) = Len(p) + Len(f)
      /\ \A i \in 1 .. Len(p) : (p \o f)[i] = p[i]
      BY <1>5, ConcatForms
<1>7. Len(f) \in Nat /\ Len(words) \in Nat
      BY FormSlots, LenProperties
<1>8. Len(words) <= Len(p \o f)
      BY <1>4, <1>6, <1>7
<1>9. \A i \in 1 .. Len(words) : (p \o f)[i] = p[i]
      BY <1>4, <1>6
<1> QED BY <1>1, <1>3, <1>6, <1>8, <1>9

\* As long as both forms take one token at a time, what is left of a line they
\* share is shared.
LEMMA SharedRest ==
    ASSUME NEW f, WellFormed(f), NEW g, WellFormed(g),
           NEW a, LinesFrom(a, f), NEW b, LinesFrom(b, g),
           NEW i, i \in 1 .. Len(f), i \in 1 .. Len(g),
           ~f[i].many, ~g[i].many, f[i].skip = 0, g[i].skip = 0,
           NEW line, line \in a[i], line \in b[i]
    PROVE  /\ \E t \in Tokens : Fits(t, f[i]) /\ Fits(t, g[i])
           /\ a[i + 1] \intersect b[i + 1] # {}
<1>1. /\ line \in Seq(Tokens) /\ line # <<>>
      /\ Fits(Head(line), f[i]) /\ Tail(line) \in a[i + 1]
      BY LineAtSlot
<1>2. Fits(Head(line), g[i]) /\ Tail(line) \in b[i + 1]
      BY LineAtSlot
<1>3. Head(line) \in Tokens
      BY <1>1, FirstAndRest
<1> QED BY <1>1, <1>2, <1>3

\* Commands of two families are never taken for each other: wherever the words
\* two families begin with differ, no command line is of a form of the one and
\* of a form of the other, whatever comes after the words.
THEOREM FamiliesApart ==
    ASSUME NEW own \in Seq(STRING), NEW other \in Seq(STRING),
           NEW f, WellFormed(f), NEW g, WellFormed(g),
           NEW i \in 1 .. Len(own), i \in 1 .. Len(other), own[i] # other[i]
    PROVE  ~Overlap(Say(own) \o f, Say(other) \o g)
<1>1. PICK p : p = Say(own) \o f
      OBVIOUS
<1>2. PICK q : q = Say(other) \o g
      OBVIOUS
<1>3. /\ WellFormed(p) /\ Len(own) <= Len(p)
      /\ \A k \in 1 .. Len(own) : /\ ~p[k].many /\ p[k].skip = 0
                                  /\ \A t \in Tokens : Fits(t, p[k]) => t.of = own[k]
      BY <1>1, SayForms
<1>4. /\ WellFormed(q) /\ Len(other) <= Len(q)
      /\ \A k \in 1 .. Len(other) : /\ ~q[k].many /\ q[k].skip = 0
                                    /\ \A t \in Tokens : Fits(t, q[k]) => t.of = other[k]
      BY <1>2, SayForms
<1>5. PICK a : LinesFrom(a, p) /\ Lines(p) = a[1]
      BY <1>3, LinesDef
<1>6. PICK b : LinesFrom(b, q) /\ Lines(q) = b[1]
      BY <1>4, LinesDef
<1>7. /\ Len(own) \in Nat /\ Len(other) \in Nat /\ Len(p) \in Nat /\ Len(q) \in Nat
      BY <1>3, <1>4, FormSlots, LenProperties
<1>8. \A k \in 1 .. i : /\ k \in 1 .. Len(own) /\ k \in 1 .. Len(other)
                        /\ k \in 1 .. Len(p) /\ k \in 1 .. Len(q)
      BY <1>3, <1>4, <1>7
<1>9. ASSUME NEW k \in 1 .. i, a[k] \intersect b[k] # {}
      PROVE  own[k] = other[k] /\ a[k + 1] \intersect b[k + 1] # {}
      <2>1. PICK line : line \in a[k] /\ line \in b[k]
            BY <1>9
      <2>2. /\ ~p[k].many /\ ~q[k].many /\ p[k].skip = 0 /\ q[k].skip = 0
            /\ k \in 1 .. Len(p) /\ k \in 1 .. Len(q)
            BY <1>3, <1>4, <1>8
      <2>3. /\ \E t \in Tokens : Fits(t, p[k]) /\ Fits(t, q[k])
            /\ a[k + 1] \intersect b[k + 1] # {}
            <3>1. WellFormed(p) /\ WellFormed(q) /\ LinesFrom(a, p) /\ LinesFrom(b, q)
                  BY <1>3, <1>4, <1>5, <1>6
            <3> QED BY <2>1, <2>2, <3>1, SharedRest
      <2>4. PICK t \in Tokens : Fits(t, p[k]) /\ Fits(t, q[k])
            BY <2>3
      <2>5. t.of = own[k] /\ t.of = other[k]
            BY <1>3, <1>4, <1>8, <2>4
      <2> QED BY <2>3, <2>5
<1>10. ASSUME a[1] \intersect b[1] # {}
       PROVE  FALSE
      <2> DEFINE T == {n \in Nat : n + 1 \in 1 .. i => a[n + 1] \intersect b[n + 1] # {}}
      <2>1. 0 \in T
            BY <1>10
      <2>2. ASSUME NEW n \in T
            PROVE  n + 1 \in T
            <3>1. CASE (n + 1) + 1 \in 1 .. i
                  <4>1. n \in Nat /\ n + 1 \in 1 .. i
                        BY <3>1
                  <4>2. PICK k \in 1 .. i : k = n + 1
                        BY <4>1
                  <4>3. a[k + 1] \intersect b[k + 1] # {}
                        BY <1>9, <4>1, <4>2
                  <4> QED BY <4>1, <4>2, <4>3
            <3>2. CASE (n + 1) + 1 \notin 1 .. i
                  BY <3>2
            <3> QED BY <3>1, <3>2
      <2>3. T = Nat
            <3> HIDE DEF T
            <3>1. T \in SUBSET Nat
                  BY DEF T
            <3> QED BY <2>1, <2>2, <3>1, NaturalSetInduction
      <2>4. PICK n \in Nat : n + 1 = i
            <3>1. i - 1 \in Nat /\ (i - 1) + 1 = i
                  BY <1>7
            <3> QED BY <3>1
      <2>5. n \in T
            <3> HIDE DEF T
            <3> QED BY <2>3, <2>4
      <2>6. i \in 1 .. i /\ a[i] \intersect b[i] # {}
            BY <1>7, <2>4, <2>5
      <2> QED BY <1>9, <2>6
<1>11. Overlap(p, q) <=> Lines(p) \intersect Lines(q) # {}
      BY <1>3, <1>4, OverlapIsExact
<1> QED BY <1>1, <1>2, <1>5, <1>6, <1>10, <1>11
\* A form of no slots says nothing.
LEMMA LinesOfNone == WellFormed(<<>>) /\ <<>> \in Lines(<<>>)
<1>1. Len(<<>>) = 0 /\ <<>> \in Seq(Slots) /\ DOMAIN <<>> = {}
      OBVIOUS
<1>2. WellFormed(<<>>)
      BY <1>1 DEF WellFormed
<1>3. PICK from : LinesFrom(from, <<>>) /\ Lines(<<>>) = from[1]
      BY <1>2, LinesDef
<1>4. from[Len(<<>>) + 1] = {<<>>}
      BY <1>2, <1>3, LinesAtEnd
<1> QED BY <1>1, <1>2, <1>3, <1>4

\* A line of every part, put together, is a line of the parts put together.
LEMMA JoinedLines ==
    ASSUME NEW parts, Len(parts) \in Nat, \A i \in 1 .. Len(parts) : WellFormed(parts[i]),
           NEW given, Len(given) = Len(parts),
           \A i \in 1 .. Len(parts) : given[i] \in Lines(parts[i])
    PROVE  WellFormed(Joined(parts)) /\ Joined(given) \in Lines(Joined(parts))
<1>1. PICK p : JoinsFirst(p, parts) /\ Joined(parts) = p[Len(parts)]
      BY JoinedDef
<1>2. PICK a : JoinsFirst(a, given) /\ Joined(given) = a[Len(given)]
      BY JoinedDef
<1>3. p[0] = <<>> /\ \A n \in 1 .. Len(parts) : p[n] = p[n - 1] \o parts[n]
      BY <1>1, JoinedStep
<1>4. a[0] = <<>> /\ \A n \in 1 .. Len(parts) : a[n] = a[n - 1] \o given[n]
      <2>1. a[0] = <<>> /\ \A n \in 1 .. Len(given) : a[n] = a[n - 1] \o given[n]
            BY <1>2, JoinedStep
      <2> QED BY <2>1
<1> DEFINE T == {n \in Nat : n <= Len(parts) => WellFormed(p[n]) /\ a[n] \in Lines(p[n])}
<1>5. 0 \in T
      BY <1>3, <1>4, LinesOfNone
<1>6. ASSUME NEW n \in T
      PROVE  n + 1 \in T
      <2>1. CASE n + 1 <= Len(parts)
            <3>1. PICK k \in 1 .. Len(parts) : k = n + 1 /\ k - 1 = n
                  BY <2>1
            <3>2. WellFormed(p[n]) /\ a[n] \in Lines(p[n])
                  BY <2>1
            <3>3. p[k] = p[n] \o parts[k] /\ a[k] = a[n] \o given[k]
                  BY <1>3, <1>4, <3>1
            <3>4. WellFormed(parts[k]) /\ given[k] \in Lines(parts[k])
                  OBVIOUS
            <3>5. /\ WellFormed(p[n] \o parts[k])
                  /\ Lines(p[n] \o parts[k]) = Followed(Lines(p[n]), Lines(parts[k]))
                  BY <3>2, <3>4, ConcatForms, LinesOfConcat
            <3>6. a[n] \o given[k] \in Followed(Lines(p[n]), Lines(parts[k]))
                  BY <3>2, <3>4, FollowedHas
            <3>7. WellFormed(p[k]) /\ a[k] \in Lines(p[k])
                  <4> HIDE DEF T
                  <4> QED BY <3>3, <3>5, <3>6
            <3> QED BY <3>1, <3>7
      <2>2. CASE ~(n + 1 <= Len(parts))
            BY <2>2
      <2> QED BY <2>1, <2>2
<1>7. T = Nat
      <2> HIDE DEF T
      <2>1. T \in SUBSET Nat
            BY DEF T
      <2> QED BY <1>5, <1>6, <2>1, NaturalSetInduction
<1>8. Len(parts) \in T
      <2> HIDE DEF T
      <2> QED BY <1>7
<1>9. WellFormed(p[Len(parts)]) /\ a[Len(parts)] \in Lines(p[Len(parts)])
      BY <1>8
<1> QED BY <1>1, <1>2, <1>9

\* AnyOf stands for every choice among the settings of a command: whichever of
\* them the caller gives, in the order the code renders them, the line is one of
\* its form.
THEOREM AnyOfCoversEveryChoice ==
    ASSUME NEW parts \in Seq(Seq(Slots)), NEW given, Len(given) = Len(parts),
           \A i \in 1 .. Len(parts) : /\ WellFormed(parts[i])
                                      /\ parts[i] # <<>>
                                      /\ parts[i][1].skip = 0
                                      /\ parts[i][1].many => Len(parts[i]) = 1
                                      /\ given[i] \in Lines(parts[i]) \union {<<>>}
    PROVE  WellFormed(AnyOf(parts)) /\ Joined(given) \in Lines(AnyOf(parts))
<1>1. PICK offered : offered = [i \in 1 .. Len(parts) |-> Opt(parts[i])]
      OBVIOUS
<1>2. AnyOf(parts) = Joined(offered)
      <2>1. DOMAIN parts = 1 .. Len(parts)
            BY LenProperties
      <2> QED BY <1>1, <2>1 DEF AnyOf
<1>3. Len(parts) \in Nat /\ Len(offered) = Len(parts)
      BY <1>1, LenProperties
<1>4. ASSUME NEW i \in 1 .. Len(parts)
      PROVE  WellFormed(offered[i]) /\ given[i] \in Lines(offered[i])
      <2>1. offered[i] = Opt(parts[i])
            BY <1>1
      <2>2. /\ WellFormed(Opt(parts[i]))
            /\ Lines(Opt(parts[i])) = Lines(parts[i]) \union {<<>>}
            BY LinesOfOpt
      <2> QED BY <2>1, <2>2
<1>5. WellFormed(Joined(offered)) /\ Joined(given) \in Lines(Joined(offered))
      BY <1>3, <1>4, JoinedLines
<1> QED BY <1>2, <1>5
===============================================================================
