------------------------------ MODULE MCFixtures ------------------------------
(* FixtureImport for TLC. Paths: the source in tmp, and tests/fixtures (here *)
(* one directory, "fixtures") with a file, a directory, and in each a name   *)
(* that begins with two dots. Sources: one to three fields.                  *)
EXTENDS FixtureImport

MCPaths ==
    {<<"tmp">>, <<"tmp", "source">>, <<"fixtures">>,
     <<"fixtures", "out">>, <<"fixtures", "..out">>,
     <<"fixtures", "out", "prov">>, <<"fixtures", "out", "..prov">>,
     <<"fixtures", "prov">>}
MCGiven == {path \in MCPaths : Len(path) > 1}
MCRoot  == <<"fixtures">>
MCInput == <<"tmp", "source">>

MCValues ==
    {Raw("word", Lower("w")), Raw("domain", Lower("h")), Raw("domain", MixedCase("h")),
     Raw("ipv4", Lower("i")), Raw("mixed", Lower("x")), Raw("ipv6", MixedCase("x")),
     Raw("mac", Lower("m")),
     Replacement("ipv4", Lower("i"), <<>>), Replacement("labeledValue", Lower("w"), <<>>)}
MCFields == [label : Labels, value : MCValues]
\* One value twice, or two of one kind, the second bare.
MCPairs  == {<<a, [label |-> "none", value |-> v]>> : a \in MCFields, v \in MCValues}
MCAlike  == {pair \in MCPairs : pair[1].value.kind = pair[2].value.kind}
\* A secret in front changes what the pass over the host labels is given.
MCSecret == [label |-> "secret", value |-> Raw("word", Lower("s"))]
MCHosts  == {pair \in MCAlike : pair[1].value.kind = "domain"}
\* A later capture holds one address.
MCEdits == {<<[label |-> "none", value |-> Raw("ipv4", Lower("i"))]>>}
MCSources == MCAlike \cup {<<MCSecret>> \o pair : pair \in MCHosts} \cup MCEdits
===============================================================================
