--------------------------- MODULE FixtureRedaction ---------------------------
(***************************************************************************)
(* src/internal/fixture-redaction.ts: six passes over one text, each run    *)
(* on what the ones before it left.                                         *)
(*                                                                         *)
(* A text is a sequence of fields: a value, and the label in front of it.   *)
(* A value is what the patterns tell apart: its kind, its text (two         *)
(* spellings, in lower and in mixed case, of one name), and whether it has  *)
(* the shape of a replacement. SHA-256 is taken to be injective: a digest   *)
(* is what was digested.                                                    *)
(***************************************************************************)
EXTENDS Integers, Sequences

Labels == {"none", "secret", "host"}
Addresses == {"ipv4", "ipv6", "mac", "domain"}
\* "mixed" is an IPv6 address that ends in an IPv4 one.
Kinds == Addresses \cup {"mixed", "word"}

Raw(kind, text) == [kind |-> kind, text |-> text, fake |-> FALSE]
Lower(name)     == <<name>>
MixedCase(name) == <<name, "mixed case">>

\* String.toLowerCase; a text that holds a replacement is in lower case.
LowerCase(text) == IF Len(text) = 2 THEN <<text[1]>> ELSE text

\* createReplacement: all that decides which replacement a value gets.
Replacement(type, key, seed) ==
    [kind |-> IF type = "labeledValue" THEN "word" ELSE type,
     text |-> <<type, key, seed>>,
     fake |-> TRUE]

\* A text the passes may be given: what begins as it is written has one of two
\* spellings, and what has the shape of a replacement is one.
WellWritten(content) ==
    /\ DOMAIN content = 1..Len(content)
    /\ \A i \in DOMAIN content :
          LET field == content[i]
              value == field.value
          IN /\ field = [label |-> field.label, value |-> value]
             /\ value = [kind |-> value.kind, text |-> value.text, fake |-> value.fake]
             /\ field.label \in Labels /\ value.kind \in Kinds /\ value.fake \in BOOLEAN
             /\ IF value.fake THEN Len(value.text) = 3 ELSE Len(value.text) \in {1, 2}

Put(field, value) == [field EXCEPT !.value = value]

\* replaceLabeledValues: the seed is the content this pass is given, and the
\* value is looked up as it is written.
LabelPass(content, label, type) ==
    [i \in DOMAIN content |->
        LET field == content[i]
        IN IF field.label = label /\ ~field.value.fake
           THEN Put(field, Replacement(type, field.value.text, content))
           ELSE field]

\* The texts for which the host labels left an entry in maps.domain.
Labelled(content) ==
    {content[i].value.text :
        i \in {j \in DOMAIN content : content[j].label = "host" /\ ~content[j].value.fake}}

MacPass(content, seed) ==
    [i \in DOMAIN content |->
        LET field == content[i]
        IN IF field.value.kind = "mac" /\ ~field.value.fake
           THEN Put(field, Replacement("mac", field.value.text, seed))
           ELSE field]

\* The IPv4 address at the end of an IPv6 one is replaced as well.
Ipv4Pass(content, seed) ==
    [i \in DOMAIN content |->
        LET field == content[i]
            fake  == Replacement("ipv4", field.value.text, seed)
        IN IF field.value.kind \in {"ipv4", "mixed"} /\ ~field.value.fake
           THEN Put(field, IF field.value.kind = "ipv4" THEN fake ELSE Raw("mixed", fake.text))
           ELSE field]

Ipv6Pass(content, seed) ==
    [i \in DOMAIN content |->
        LET field == content[i]
        IN IF field.value.kind \in {"ipv6", "mixed"} /\ ~field.value.fake
           THEN Put(field, Replacement("ipv6", LowerCase(field.value.text), seed))
           ELSE field]

\* Mutant of DomainPass: a bare domain is looked up with the spelling it has.
DomainPassAsWritten(content, labelled, labelSeed, seed) ==
    [i \in DOMAIN content |->
        LET field == content[i]
        IN IF field.value.kind = "domain" /\ ~field.value.fake
           THEN Put(field, Replacement("domain", field.value.text,
                           IF field.value.text \in labelled THEN labelSeed ELSE seed))
           ELSE field]

\* A domain the host labels have met keeps the replacement it got there.
DomainPass(content, labelled, labelSeed, seed) ==
    [i \in DOMAIN content |->
        LET field == content[i]
            key   == LowerCase(field.value.text)
        IN IF field.value.kind = "domain" /\ ~field.value.fake
           THEN Put(field, Replacement("domain", key,
                           IF key \in labelled THEN labelSeed ELSE seed))
           ELSE field]

\* The content redactFixture returns, if it validates.
Redacted(input) ==
    LET secrets == LabelPass(input, "secret", "labeledValue")
        hosts   == LabelPass(secrets, "host", "domain")
        bare    == Ipv6Pass(Ipv4Pass(MacPass(hosts, input), input), input)
    IN DomainPass(bare, Labelled(secrets), secrets, input)

\* validateRedactedFixture finds nothing.
Clean(content) ==
    \A i \in DOMAIN content :
        LET field == content[i]
        IN field.label # "none" \/ field.value.kind # "word" => field.value.fake
===============================================================================
