---------------------------- MODULE FixtureImport ----------------------------
(***************************************************************************)
(* src/internal/fixture-importer.ts: `npm run fixtures:import` checks three *)
(* paths, reads a source, redacts it, makes two directories and writes two  *)
(* files. A read or a write may fail, and the process may be killed at any  *)
(* point; imports follow one another, over the files earlier ones left, and *)
(* the source may change at any moment.                                     *)
(*                                                                         *)
(* A path is the sequence of its names below the project, as resolve()      *)
(* gives it. Symbolic links are left out: resolve() and relative() compare  *)
(* names only.                                                              *)
(***************************************************************************)
EXTENDS FixtureRedaction, SequencesExt

CONSTANTS
    Paths,      \* the places in the file system
    Given,      \* those a caller may name
    Root,       \* fixturesRoot
    Input,      \* where the source lies
    DotNames,   \* names that begin with two dots
    Sources,    \* what the source may hold
    Edits,      \* what it may come to hold later
    MaxImports  \* bound: imports that pass the path checks

\* path is root or lies below it.
Below(path, root) == IsPrefix(root, path)

\* relative(root, path) is not empty and does not begin with "..".
Descends(root, path) ==
    Below(path, root) /\ path # root /\ path[Len(root) + 1] \notin DotNames

ASSUME ImportAssumption ==
    /\ Root \in Paths /\ Input \in Paths /\ Given \subseteq Paths
    /\ ~Descends(Root, Input)
    /\ Edits \subseteq Sources
    /\ \A path \in Paths : Len(path) > 1 => Front(path) \in Paths
    /\ MaxImports \in Nat
    /\ \A content \in Sources : WellWritten(content)

VARIABLES
    fs,         \* the files and directories, by path
    phase, outcome,         \* of the current or last import
    source,     \* what it read
    log,        \* history: the arguments of every import past the path checks
    writer      \* history: the number of the import that wrote a file last

vars == <<fs, phase, outcome, source, log, writer>>

Arguments == [input : Given, output : Given, provenance : Given]

\* The arguments of the current or last import.
args == log[Len(log)]

(***************************************************************************)
(* What may lie at a path.                                                 *)
(***************************************************************************)
Nothing   == [type |-> "nothing"]
Directory == [type |-> "directory"]
\* A file whose write was cut short.
Torn == [type |-> "torn"]
TextNode(content) == [type |-> "text", content |-> content]
\* Digests and counts: nothing a pattern would find.
ProvenanceNode(from, content) ==
    [type |-> "provenance", content |-> <<>>,
     sourceSha256 |-> from, outputSha256 |-> content]

(***************************************************************************)
(* The path checks.                                                        *)
(***************************************************************************)

\* assertPathInside, assertPathOutside and assertDistinctPaths do not throw.
PathInside(path, root) == Descends(root, path)
PathOutside(path, root) == path # root /\ ~Descends(root, path)
DistinctPaths(p, q) == p # q /\ ~Descends(p, q) /\ ~Descends(q, p)

\* Mutant of Accepts: the provenance is checked where the output should be.
AcceptsAnyOutput(a) ==
    /\ PathOutside(a.input, Root)
    /\ PathInside(a.provenance, Root)
    /\ DistinctPaths(a.input, a.output)
    /\ DistinctPaths(a.input, a.provenance)
    /\ DistinctPaths(a.output, a.provenance)

Accepts(a) ==
    /\ PathOutside(a.input, Root)
    /\ PathInside(a.output, Root) /\ PathInside(a.provenance, Root)
    /\ DistinctPaths(a.input, a.output)
    /\ DistinctPaths(a.input, a.provenance)
    /\ DistinctPaths(a.output, a.provenance)

(***************************************************************************)
(* The file system, as node:fs/promises uses it.                           *)
(***************************************************************************)
Above(path) == {p \in Paths : Below(path, p) /\ p # path}

\* mkdir(dirname(path), { recursive: true })
CanMakeRoom(path) == \A p \in Above(path) : fs[p] \in {Nothing, Directory}
MakeRoom(path) ==
    fs' = [p \in Paths |-> IF p \in Above(path) THEN Directory ELSE fs[p]]

\* writeFile(path)
CanWrite(path) == fs[path] # Directory /\ \A p \in Above(path) : fs[p] = Directory

(***************************************************************************)
(* The import.                                                             *)
(***************************************************************************)
Init ==
    /\ \E content \in Sources :
          fs = [p \in Paths |->
                   IF p = Input THEN TextNode(content)
                   ELSE IF p \in {Root} \cup Above(Root) \cup Above(Input) THEN Directory
                   ELSE Nothing]
    /\ phase = "idle" /\ outcome = "none" /\ source = <<>>
    /\ log = <<>> /\ writer = [p \in Paths |-> 0]

\* The developer captures the source again: another text, at any moment.
SourceChanges ==
    /\ \E content \in Edits : fs' = [fs EXCEPT ![Input] = TextNode(content)]
    /\ UNCHANGED <<phase, outcome, source, log, writer>>

End(result) == phase' = "idle" /\ outcome' = result

\* importRedactedFixture is called: paths are resolved and checked.
Import(a) ==
    /\ phase = "idle" /\ Len(log) < MaxImports
    /\ IF Accepts(a)
       THEN /\ log' = Append(log, a) /\ source' = <<>>
            /\ phase' = "read" /\ outcome' = "none"
       ELSE End("refused") /\ UNCHANGED <<log, source>>
    /\ UNCHANGED <<fs, writer>>

\* readSource, redactFixture and its validation.
ReadSource ==
    /\ phase = "read"
    /\ LET node == fs[args.input]
       IN IF node \in {Nothing, Directory, Torn} \/ ~Clean(Redacted(node.content))
          THEN End("failed") /\ UNCHANGED source
          ELSE source' = node.content /\ phase' = "room" /\ UNCHANGED outcome
    /\ UNCHANGED <<fs, log, writer>>

\* The directory of one of the two files is made.
Mkdir(path, before, after) ==
    /\ phase = before
    /\ IF CanMakeRoom(path)
       THEN MakeRoom(path) /\ phase' = after /\ UNCHANGED outcome
       ELSE End("failed") /\ UNCHANGED fs
    /\ UNCHANGED <<source, log, writer>>

MakeDirectories ==
    \/ Mkdir(args.output, "room", "more room")
    \/ Mkdir(args.provenance, "more room", "output")

\* writeFile(path), in full or in part.
Write(path, node) ==
    /\ CanWrite(path)
    /\ fs' = [fs EXCEPT ![path] = node]
    /\ writer' = [writer EXCEPT ![path] = Len(log)]

WriteFails(path) == ~CanWrite(path) /\ End("failed") /\ UNCHANGED <<fs, writer>>

\* Mutant of WriteOutput: the provenance is written in its place.
WriteProvenanceFirst ==
    /\ phase = "output"
    /\ \/ /\ Write(args.provenance, ProvenanceNode(source, Redacted(source)))
          /\ phase' = "provenance" /\ UNCHANGED outcome
       \/ WriteFails(args.provenance)
    /\ UNCHANGED <<source, log>>

WriteOutput ==
    /\ phase = "output"
    /\ \/ /\ Write(args.output, TextNode(Redacted(source)))
          /\ phase' = "provenance" /\ UNCHANGED outcome
       \/ WriteFails(args.output)
    /\ UNCHANGED <<source, log>>

WriteProvenance ==
    /\ phase = "provenance"
    /\ \/ /\ Write(args.provenance, ProvenanceNode(source, Redacted(source)))
          /\ End("imported")
       \/ WriteFails(args.provenance)
    /\ UNCHANGED <<source, log>>

\* The process is killed, or a read or write fails; a write may be cut short.
Break ==
    /\ phase # "idle"
    /\ End("broken")
    /\ \/ UNCHANGED <<fs, writer>>
       \/ phase = "output" /\ Write(args.output, Torn)
       \/ phase = "provenance" /\ Write(args.provenance, Torn)
    /\ UNCHANGED <<source, log>>

Next ==
    \/ \E a \in Arguments : Import(a)
    \/ ReadSource \/ MakeDirectories \/ WriteOutput \/ WriteProvenance \/ Break
    \/ SourceChanges

Spec == Init /\ [][Next]_vars

(***************************************************************************)
(* Properties.                                                             *)
(***************************************************************************)

\* The provenance at p, whichever import it is from, names a source and its
\* redaction, and the output beside it is that redaction, unless a later import
\* has written or torn that file.
NotAhead(p) ==
    LET output  == log[writer[p]].output
        content == fs[p].outputSha256
    IN /\ content = Redacted(fs[p].sourceSha256) /\ Clean(content)
       /\ fs[output] = TextNode(content) \/ writer[output] > writer[p]

\* No provenance on the disk is ever ahead of its output, wherever this import or
\* an earlier one broke off and however the source has changed since: it can only
\* be behind. An import that says it is done leaves the pair it has read.
ProvenanceNeverAhead ==
    /\ \A p \in Paths : fs[p].type = "provenance" => NotAhead(p)
    /\ outcome = "imported" =>
          fs[args.provenance] = ProvenanceNode(source, Redacted(source))

\* Whatever paths are given, an import changes no file outside tests/fixtures,
\* not its own source, and no file but the two it was told to write.
OnlyFixturesChange ==
    [][\/ SourceChanges
       \/ \A p \in Paths : fs'[p] # fs[p] /\ fs'[p] # Directory =>
              /\ p \in {args.output, args.provenance}
              /\ Below(p, Root) /\ p # args.input]_vars

\* Fields i and j show one value, j with no label in front of it, and i either
\* with none or as the host name it is, written in lower case.
ShowOneValue(content, i, j) ==
    LET v == content[i].value
        w == content[j].value
    IN /\ v.kind = w.kind
       /\ IF v.kind \in {"domain", "ipv6"}
          THEN LowerCase(v.text) = LowerCase(w.text)
          ELSE v.text = w.text
       /\ content[j].label = "none"
       /\ \/ content[i].label = "none"
          \/ content[i].label = "host" /\ v.kind = "domain" /\ v.text = LowerCase(v.text)

\* The six passes do not get in one another's way: the result of every source
\* passes the validation, redacting it again changes nothing, and one value
\* keeps one replacement all over the text.
PassesAgree ==
    log = <<>> =>
        LET content  == fs[Input].content
            redacted == Redacted(content)
        IN /\ Clean(redacted)
           /\ Redacted(redacted) = redacted
           /\ \A i, j \in DOMAIN content :
                 ShowOneValue(content, i, j) => redacted[i].value = redacted[j].value
===============================================================================
