-------------------------- MODULE FixtureImportProofs --------------------------
(***************************************************************************)
(* What FixtureImport promises, for all paths, sources and numbers of       *)
(* imports. The invariant has two parts. One is about the files: every      *)
(* provenance was written by an import past the checks, whose output is     *)
(* there or was written again by a later import. The other follows the      *)
(* current import from its checks to its last write: whatever else lies on  *)
(* the disk was written before it began.                                    *)
(***************************************************************************)
EXTENDS FixtureImport, TLAPS

\* The phases between the checks and the end, and those past the validation.
Under == {"read", "room", "more room", "output", "provenance"}
Validated == {"room", "more room", "output", "provenance"}

PathArguments == [input : Paths, output : Paths, provenance : Paths]

\* What the files and the history say together.
FilesInv ==
    /\ fs = [p \in Paths |-> fs[p]]
    /\ log \in Seq(PathArguments)
    /\ writer \in [Paths -> 0 .. Len(log)]
    /\ \A i \in 1 .. Len(log) : Accepts(log[i])
    /\ \A p \in Paths : fs[p].type = "provenance" => writer[p] # 0 /\ NotAhead(p)

\* The files but path were written before the current import.
OlderBut(path) == \A p \in Paths : p # path => writer[p] < Len(log)

\* How far the current import has come.
PhaseInv ==
    /\ phase \in Under \cup {"idle"}
    /\ phase \in Under => outcome # "imported"
    /\ phase \in Under \/ outcome = "imported" => Len(log) # 0
    /\ phase \in Validated => Clean(Redacted(source))
    /\ phase \in Under => OlderBut(args.output)
    /\ phase \in Under \ {"provenance"} => writer[args.output] < Len(log)
    /\ phase = "provenance" => fs[args.output] = TextNode(Redacted(source))
    /\ outcome = "imported" =>
          fs[args.provenance] = ProvenanceNode(source, Redacted(source))

ImportInv == FilesInv /\ PhaseInv

\* The state before the first import satisfies the invariant.
LEMMA InitInv == Init => ImportInv
  <1> SUFFICES ASSUME Init PROVE ImportInv
    OBVIOUS
  <1>1. PICK content \in Sources :
           fs = [p \in Paths |->
                   IF p = Input THEN TextNode(content)
                   ELSE IF p \in {Root} \cup Above(Root) \cup Above(Input) THEN Directory
                   ELSE Nothing]
    BY DEF Init
  <1>2. \A p \in Paths : fs[p].type # "provenance"
    BY <1>1 DEF TextNode, Directory, Nothing
  <1>3. log \in Seq(PathArguments) /\ Len(log) = 0
    BY DEF Init
  <1>4. writer \in [Paths -> 0 .. Len(log)]
    BY <1>3 DEF Init
  <1>5. FilesInv
    BY <1>1, <1>2, <1>3, <1>4 DEF FilesInv
  <1>6. PhaseInv
    BY DEF Init, PhaseInv, Under, Validated
  <1>7. QED
    BY <1>5, <1>6 DEF ImportInv

\* Paths that pass the checks are three different ones, and the two to be
\* written lie below the root, where no source is captured.
LEMMA Checked ==
    ASSUME NEW a, Accepts(a)
    PROVE  /\ a.output # a.provenance
           /\ a.output # a.input /\ a.provenance # a.input
           /\ Below(a.output, Root) /\ Below(a.provenance, Root)
           /\ a.output # Input /\ a.provenance # Input
  BY ImportAssumption DEF Accepts, DistinctPaths, PathInside, Descends

\* What the log holds.
LEMMA Logged ==
    ASSUME FilesInv, NEW i \in 1 .. Len(log)
    PROVE  /\ log[i].output \in Paths /\ log[i].provenance \in Paths
           /\ Accepts(log[i])
           /\ log[i].output # log[i].provenance
           /\ log[i].output # Input /\ log[i].provenance # Input
  <1>1. log[i] \in PathArguments
    BY DEF FilesInv
  <1>2. log[i].output \in Paths /\ log[i].provenance \in Paths
    BY <1>1 DEF PathArguments
  <1>3. Accepts(log[i])
    BY DEF FilesInv
  <1>4. QED
    BY <1>2, <1>3, Checked

\* The output beside a file some import wrote.
LEMMA Beside ==
    ASSUME FilesInv, NEW p \in Paths, writer[p] # 0
    PROVE  log[writer[p]].output \in Paths /\ log[writer[p]].output # Input
  <1>1. writer[p] \in 1 .. Len(log)
    <2>1. Len(log) \in Nat /\ writer[p] \in 0 .. Len(log)
      BY DEF FilesInv
    <2>2. QED
      BY <2>1
  <1>2. QED
    BY <1>1, Logged

\* The arguments of an import under way, or done.
LEMMA Current ==
    ASSUME ImportInv, phase \in Under \/ outcome = "imported"
    PROVE  /\ Len(log) \in Nat /\ Len(log) # 0
           /\ args.output \in Paths /\ args.provenance \in Paths
           /\ Accepts(args)
           /\ args.output # args.provenance
           /\ args.output # Input /\ args.provenance # Input
  <1>1. Len(log) \in Nat /\ Len(log) # 0
    BY DEF ImportInv, FilesInv, PhaseInv
  <1>2. Len(log) \in 1 .. Len(log)
    BY <1>1
  <1>3. FilesInv
    BY DEF ImportInv
  <1>4. QED
    BY <1>1, <1>2, <1>3, Logged DEF args

\* A provenance stays not ahead as long as its import, the paths and their
\* writers do, whatever is written over the output by a later import.
LEMMA StaysBehind ==
    ASSUME NEW p, NotAhead(p), NEW output, output = log[writer[p]].output,
           fs'[p] = fs[p], writer'[p] = writer[p], log'[writer[p]] = log[writer[p]],
           \/ fs'[output] = fs[output] /\ writer'[output] = writer[output]
           \/ writer'[output] > writer[p]
    PROVE  NotAhead(p)'
  BY DEF NotAhead

\* Nothing is written when an import ends early.
LEMMA EndKeeps ==
    ASSUME ImportInv, phase \in Under, NEW result, result # "imported", End(result),
           UNCHANGED <<fs, log, source, writer>>
    PROVE  ImportInv'
  <1>1. FilesInv'
    BY DEF ImportInv, FilesInv, NotAhead
  <1>2. PhaseInv'
    BY DEF PhaseInv, End, Under, Validated
  <1>3. QED
    BY <1>1, <1>2 DEF ImportInv

\* A write puts a node in one place, as the work of the current import.
LEMMA Written ==
    ASSUME FilesInv, NEW path \in Paths, NEW node, Write(path, node)
    PROVE  /\ fs' = [p \in Paths |-> fs'[p]]
           /\ fs'[path] = node
           /\ writer' = [p \in Paths |-> IF p = path THEN Len(log) ELSE writer[p]]
           /\ \A p \in Paths : p # path => fs'[p] = fs[p]
  BY DEF FilesInv, Write

\* A write leaves every provenance but its own not ahead of its output: what it
\* writes over is older.
LEMMA WriteKeeps ==
    ASSUME FilesInv, NEW path \in Paths, NEW node, Write(path, node),
           Len(log) # 0, UNCHANGED log,
           \A p \in Paths : p # path /\ fs[p].type = "provenance" => writer[p] < Len(log),
           node.type = "provenance" => NotAhead(path)'
    PROVE  FilesInv'
  <1>1. /\ fs' = [p \in Paths |-> fs'[p]]
        /\ fs'[path] = node
        /\ writer' = [p \in Paths |-> IF p = path THEN Len(log) ELSE writer[p]]
        /\ \A p \in Paths : p # path => fs'[p] = fs[p]
    BY Written
  <1>2. Len(log) \in Nat /\ \A p \in Paths : writer[p] \in 0 .. Len(log)
    BY DEF FilesInv
  <1>3. writer' \in [Paths -> 0 .. Len(log')]
    BY <1>1, <1>2
  <1>4. ASSUME NEW p \in Paths, fs'[p].type = "provenance"
        PROVE  writer'[p] # 0 /\ NotAhead(p)'
    <2>1. CASE p = path
      <3>1. NotAhead(path)' /\ writer'[path] = Len(log)
        BY <1>1, <1>4, <2>1
      <3>2. QED
        BY <2>1, <3>1 DEF NotAhead
    <2>2. CASE p # path
      <3>1. fs'[p] = fs[p] /\ writer'[p] = writer[p]
        BY <1>1, <2>2
      <3>2. writer[p] # 0 /\ NotAhead(p) /\ writer[p] < Len(log)
        BY <1>4, <2>2, <3>1 DEF FilesInv
      <3> DEFINE output == log[writer[p]].output
      <3>3. output \in Paths
        BY <3>2, Beside
      <3>4. \/ fs'[output] = fs[output] /\ writer'[output] = writer[output]
            \/ writer'[output] > writer[p]
        BY <1>1, <1>2, <3>2, <3>3
      <3> HIDE DEF output
      <3>5. output = log[writer[p]].output
        BY DEF output
      <3>6. QED
        BY <3>1, <3>2, <3>4, <3>5, StaysBehind
    <2>3. QED
      BY <2>1, <2>2
  <1>5. log' \in Seq(PathArguments) /\ \A i \in 1 .. Len(log') : Accepts(log'[i])
    BY DEF FilesInv
  <1>6. (\A i \in 1 .. Len(log) : Accepts(log[i]))'
    BY <1>5 DEF Accepts
  <1>7. QED
    BY <1>1, <1>3, <1>4, <1>6, <1>5 DEF FilesInv

\* The output is written before its provenance, over older files only.
LEMMA WriteOutputKeeps == ImportInv /\ WriteOutput => ImportInv'
  <1> SUFFICES ASSUME ImportInv, WriteOutput PROVE ImportInv'
    OBVIOUS
  <1>1. phase = "output" /\ phase \in Under
    BY DEF WriteOutput, Under
  <1>2. /\ Len(log) \in Nat /\ Len(log) # 0
        /\ args.output \in Paths /\ args.provenance \in Paths
    BY <1>1, Current
  <1> DEFINE node == TextNode(Redacted(source))
  <1>3. CASE Write(args.output, node) /\ phase' = "provenance" /\ UNCHANGED outcome
    <2>1. UNCHANGED <<source, log>> /\ UNCHANGED args
      BY DEF WriteOutput, args
    <2>2. node.type # "provenance"
      BY DEF TextNode
    <2>3. OlderBut(args.output) /\ outcome # "imported" /\ Clean(Redacted(source))
      BY <1>1 DEF ImportInv, PhaseInv, Validated
    <2> HIDE DEF node
    <2>4. FilesInv'
      BY <1>2, <1>3, <2>1, <2>2, <2>3, WriteKeeps DEF ImportInv, OlderBut
    <2>5. /\ fs'[args.output] = node
          /\ writer' = [p \in Paths |-> IF p = args.output THEN Len(log) ELSE writer[p]]
      BY <1>2, <1>3, Written DEF ImportInv
    <2>6. OlderBut(args.output)'
      BY <2>1, <2>3, <2>5 DEF OlderBut
    <2>7. PhaseInv'
      BY <1>2, <1>3, <2>1, <2>3, <2>5, <2>6 DEF PhaseInv, Under, Validated, node
    <2>8. QED
      BY <2>4, <2>7 DEF ImportInv
  <1>4. CASE WriteFails(args.output)
    BY <1>1, <1>4, EndKeeps DEF WriteOutput, WriteFails
  <1>5. QED
    BY <1>3, <1>4 DEF WriteOutput

\* The provenance is written beside the output, not over it.
LEMMA WriteProvenanceKeeps == ImportInv /\ WriteProvenance => ImportInv'
  <1> SUFFICES ASSUME ImportInv, WriteProvenance PROVE ImportInv'
    OBVIOUS
  <1>1. phase = "provenance" /\ phase \in Under
    BY DEF WriteProvenance, Under
  <1>2. /\ Len(log) \in Nat /\ Len(log) # 0
        /\ args.output \in Paths /\ args.provenance \in Paths
        /\ args.output # args.provenance
    BY <1>1, Current
  <1> DEFINE redacted == Redacted(source)
             node == ProvenanceNode(source, redacted)
  <1>3. CASE Write(args.provenance, node) /\ End("imported")
    <2>1. UNCHANGED <<source, log>> /\ UNCHANGED args
      BY DEF WriteProvenance, args
    <2>2. /\ fs[args.output] = TextNode(redacted) /\ Clean(redacted)
          /\ OlderBut(args.output)
      BY <1>1 DEF ImportInv, PhaseInv, Validated
    <2>3. fs[args.output].type # "provenance"
      BY <2>2 DEF TextNode
    <2>4. \A p \in Paths : p # args.provenance /\ fs[p].type = "provenance" =>
              writer[p] < Len(log)
      BY <2>2, <2>3 DEF OlderBut
    <2>5. /\ fs'[args.provenance] = node
          /\ fs'[args.output] = fs[args.output]
          /\ writer'[args.provenance] = Len(log)
      BY <1>2, <1>3, Written DEF ImportInv
    <2>6. node.sourceSha256 = source /\ node.outputSha256 = redacted
      BY DEF ProvenanceNode
    <2>7. log'[writer'[args.provenance]] = args
      BY <2>1, <2>5 DEF args
    <2> HIDE DEF redacted, node
    <2>8. redacted = Redacted(source)
      BY DEF redacted
    <2>9. PICK provenance \in Paths : provenance = args.provenance
      BY <1>2
    <2>10. NotAhead(provenance)'
      BY <2>2, <2>5, <2>6, <2>7, <2>8, <2>9 DEF NotAhead
    <2>11. FilesInv'
      <3>1. Write(provenance, node)
        BY <1>3, <2>9
      <3>2. \A p \in Paths : p # provenance /\ fs[p].type = "provenance" =>
              writer[p] < Len(log)
        BY <2>4, <2>9
      <3>3. QED
        BY <1>2, <2>1, <2>10, <3>1, <3>2, WriteKeeps DEF ImportInv
    <2>12. PhaseInv'
      BY <1>2, <1>3, <2>1, <2>5 DEF PhaseInv, End, Under, Validated, node, redacted
    <2>13. QED
      BY <2>11, <2>12 DEF ImportInv
  <1>4. CASE WriteFails(args.provenance)
    BY <1>1, <1>4, EndKeeps DEF WriteProvenance, WriteFails
  <1>5. QED
    BY <1>3, <1>4 DEF WriteProvenance

\* A directory is made where nothing lies.
LEMMA MkdirKeeps == ImportInv /\ MakeDirectories => ImportInv'
  <1> SUFFICES ASSUME ImportInv, NEW STATE path,
                      NEW before \in {"room", "more room"},
                      NEW after \in {"more room", "output"},
                      Mkdir(path, before, after)
               PROVE  ImportInv'
    BY DEF MakeDirectories
  <1>1. phase \in {"room", "more room"} /\ phase \in Under
    BY DEF Mkdir, Under
  <1>2. CASE CanMakeRoom(path)
    <2>1. /\ fs' = [p \in Paths |-> IF p \in Above(path) THEN Directory ELSE fs[p]]
          /\ UNCHANGED <<outcome, source, log, writer>> /\ phase' = after
      BY <1>2 DEF Mkdir, MakeRoom
    <2>2. UNCHANGED args
      BY <2>1 DEF args
    <2>t. Nothing.type = "nothing" /\ Directory.type = "directory"
      BY DEF Nothing, Directory
    <2>3. \A p \in Above(path) : fs[p].type \in {"nothing", "directory"}
      BY <1>2, <2>t DEF CanMakeRoom
    <2>4. \A p \in Paths : fs'[p] # fs[p] =>
              fs'[p] = Directory /\ fs[p].type \in {"nothing", "directory"}
      BY <2>1, <2>3
    <2>5. ASSUME NEW p \in Paths, fs'[p].type = "provenance"
          PROVE  writer'[p] # 0 /\ NotAhead(p)'
      <3>1. fs'[p] = fs[p]
        BY <2>4, <2>5, <2>t
      <3>2. writer[p] # 0 /\ NotAhead(p)
        BY <2>5, <3>1 DEF ImportInv, FilesInv
      <3> DEFINE output == log[writer[p]].output
      <3>3. output \in Paths
        BY <3>2, Beside DEF ImportInv
      <3>4. fs[output] = TextNode(fs[p].outputSha256) \/ writer[output] > writer[p]
        BY <3>2 DEF NotAhead
      <3>5. fs'[output] = fs[output] \/ writer'[output] > writer[p]
        <4>1. \A content : TextNode(content).type = "text"
          BY DEF TextNode
        <4>2. QED
          BY <2>1, <2>4, <3>3, <3>4, <4>1
      <3> HIDE DEF output
      <3>6. output = log[writer[p]].output
        BY DEF output
      <3>7. QED
        BY <2>1, <3>1, <3>2, <3>5, <3>6, StaysBehind
    <2>6. (\A i \in 1 .. Len(log) : Accepts(log[i]))'
      BY <2>1 DEF ImportInv, FilesInv, Accepts
    <2>7. FilesInv'
      BY <2>1, <2>5, <2>6 DEF ImportInv, FilesInv
    <2>8. (OlderBut(args.output))'
      BY <1>1, <2>1, <2>2 DEF ImportInv, PhaseInv, OlderBut
    <2>9. PhaseInv'
      BY <1>1, <2>1, <2>2, <2>8 DEF ImportInv, PhaseInv, Under, Validated
    <2>10. QED
      BY <2>7, <2>9 DEF ImportInv
  <1>3. CASE ~CanMakeRoom(path)
    BY <1>1, <1>3, EndKeeps DEF Mkdir
  <1>4. QED
    BY <1>2, <1>3

\* A kill may tear the file being written, and leaves the others.
LEMMA BreakKeeps == ImportInv /\ Break => ImportInv'
  <1> SUFFICES ASSUME ImportInv, Break PROVE ImportInv'
    OBVIOUS
  <1>1. phase \in Under /\ End("broken") /\ UNCHANGED <<source, log>>
    BY DEF Break, ImportInv, PhaseInv
  <1>2. /\ Len(log) \in Nat /\ Len(log) # 0
        /\ args.output \in Paths /\ args.provenance \in Paths
    BY <1>1, Current
  <1>3. CASE UNCHANGED <<fs, writer>>
    BY <1>1, <1>3, EndKeeps
  <1>4. ASSUME NEW path \in Paths, Write(path, Torn),
               \A p \in Paths : p # path /\ fs[p].type = "provenance" => writer[p] < Len(log)
        PROVE  ImportInv'
    <2>1. Torn.type # "provenance"
      BY DEF Torn
    <2>2. FilesInv'
      BY <1>1, <1>2, <1>4, <2>1, WriteKeeps DEF ImportInv
    <2>3. PhaseInv'
      BY <1>1 DEF PhaseInv, End, Under, Validated
    <2>4. QED
      BY <2>2, <2>3 DEF ImportInv
  <1>5. CASE phase = "output" /\ Write(args.output, Torn)
    <2>1. OlderBut(args.output)
      BY <1>1 DEF ImportInv, PhaseInv
    <2>2. QED
      BY <1>2, <1>4, <1>5, <2>1 DEF OlderBut
  <1>6. CASE phase = "provenance" /\ Write(args.provenance, Torn)
    <2>1. OlderBut(args.output) /\ fs[args.output] = TextNode(Redacted(source))
      BY <1>1, <1>6 DEF ImportInv, PhaseInv
    <2>2. fs[args.output].type # "provenance"
      BY <2>1 DEF TextNode
    <2>3. QED
      BY <1>2, <1>4, <1>6, <2>1, <2>2 DEF OlderBut
  <1>7. QED
    BY <1>3, <1>5, <1>6 DEF Break

\* The log only grows, and what is on the disk was written before the new import.
LEMMA ImportKeeps == \A a \in Arguments : ImportInv /\ Import(a) => ImportInv'
  <1> SUFFICES ASSUME NEW a \in Arguments, ImportInv, Import(a) PROVE ImportInv'
    OBVIOUS
  <1>1. a \in PathArguments
    BY ImportAssumption DEF Arguments, PathArguments
  <1>2. UNCHANGED <<fs, writer>>
    BY DEF Import
  <1>3. /\ log \in Seq(PathArguments) /\ Len(log) \in Nat
        /\ writer \in [Paths -> 0 .. Len(log)]
    BY DEF ImportInv, FilesInv
  <1>4. CASE Accepts(a)
    <2>1. /\ log' = Append(log, a) /\ phase' = "read" /\ outcome' = "none"
      BY <1>4 DEF Import
    <2>2. /\ log' \in Seq(PathArguments) /\ Len(log') = Len(log) + 1
          /\ log'[Len(log) + 1] = a
          /\ \A i \in 1 .. Len(log) : log'[i] = log[i]
      BY <1>1, <1>3, <2>1
    <2>3. \A i \in 1 .. Len(log') : Accepts(log'[i])
      <3> SUFFICES ASSUME NEW i \in 1 .. Len(log') PROVE Accepts(log'[i])
        OBVIOUS
      <3>1. CASE i = Len(log) + 1
        BY <1>4, <2>2, <3>1
      <3>2. CASE i # Len(log) + 1
        <4>1. i \in 1 .. Len(log)
          BY <1>3, <2>2, <3>2
        <4>2. QED
          BY <2>2, <4>1 DEF ImportInv, FilesInv
      <3>3. QED
        BY <3>1, <3>2
    <2>4. (\A i \in 1 .. Len(log) : Accepts(log[i]))'
      BY <2>3 DEF Accepts
    <2>5. ASSUME NEW p \in Paths, fs'[p].type = "provenance"
          PROVE  writer'[p] # 0 /\ NotAhead(p)'
      <3>1. writer[p] # 0 /\ NotAhead(p)
        BY <1>2, <2>5 DEF ImportInv, FilesInv
      <3>2. log'[writer[p]] = log[writer[p]]
        BY <1>3, <2>2, <3>1
      <3>3. QED
        BY <1>2, <3>1, <3>2 DEF NotAhead
    <2>6. writer' \in [Paths -> 0 .. Len(log')]
      BY <1>2, <1>3, <2>2
    <2>7. FilesInv'
      BY <1>2, <2>2, <2>4, <2>5, <2>6 DEF ImportInv, FilesInv
    <2>8. \A p \in Paths : writer'[p] < Len(log')
      BY <1>2, <1>3, <2>2
    <2>9. args' = a /\ a.output \in Paths
      BY <1>1, <1>3, <2>2 DEF args, PathArguments
    <2>10. OlderBut(args.output)' /\ writer'[args'.output] < Len(log')
      BY <2>8, <2>9 DEF OlderBut
    <2>11. PhaseInv'
      BY <1>3, <2>1, <2>2, <2>10 DEF PhaseInv, Under, Validated
    <2>12. QED
      BY <2>7, <2>11 DEF ImportInv
  <1>5. CASE ~Accepts(a)
    <2>1. UNCHANGED <<log, source>> /\ phase' = "idle" /\ outcome' = "refused"
      BY <1>5 DEF Import, End
    <2>2. FilesInv'
      BY <1>2, <2>1 DEF ImportInv, FilesInv, NotAhead, Accepts
    <2>3. PhaseInv'
      BY <2>1 DEF PhaseInv, Under, Validated
    <2>4. QED
      BY <2>2, <2>3 DEF ImportInv
  <1>6. QED
    BY <1>4, <1>5

\* Only what passes the validation is read in.
LEMMA ReadKeeps == ImportInv /\ ReadSource => ImportInv'
  <1> SUFFICES ASSUME ImportInv, ReadSource PROVE ImportInv'
    OBVIOUS
  <1>1. phase = "read" /\ phase \in Under
    BY DEF ReadSource, Under
  <1> DEFINE node == fs[args.input]
             refused == node \in {Nothing, Directory, Torn} \/ ~Clean(Redacted(node.content))
  <1>2. CASE refused
    BY <1>1, <1>2, EndKeeps DEF ReadSource
  <1>3. CASE ~refused
    <2>1. /\ source' = node.content /\ phase' = "room"
          /\ UNCHANGED <<fs, outcome, log, writer>>
          /\ Clean(Redacted(node.content))
      BY <1>3 DEF ReadSource
    <2>2. UNCHANGED args
      BY <2>1 DEF args
    <2>3. FilesInv'
      BY <2>1 DEF ImportInv, FilesInv, NotAhead, Accepts
    <2>4. OlderBut(args.output)'
      BY <1>1, <2>1, <2>2 DEF ImportInv, PhaseInv, OlderBut
    <2>5. PhaseInv'
      BY <1>1, <2>1, <2>2, <2>4 DEF ImportInv, PhaseInv, Under, Validated
    <2>6. QED
      BY <2>3, <2>5 DEF ImportInv
  <1>4. QED
    BY <1>2, <1>3

\* The source lies where no import writes.
LEMMA SourceKeeps == ImportInv /\ SourceChanges => ImportInv'
  <1> SUFFICES ASSUME ImportInv, SourceChanges PROVE ImportInv'
    OBVIOUS
  <1>1. PICK content \in Edits : fs' = [fs EXCEPT ![Input] = TextNode(content)]
    BY DEF SourceChanges
  <1>2. UNCHANGED <<phase, outcome, source, log, writer>> /\ UNCHANGED args
    BY DEF SourceChanges, args
  <1>3. /\ fs' = [p \in Paths |-> fs'[p]]
        /\ fs'[Input].type # "provenance"
        /\ \A p \in Paths : p # Input => fs'[p] = fs[p]
    BY <1>1, ImportAssumption DEF ImportInv, FilesInv, TextNode
  <1>4. ASSUME NEW p \in Paths, fs'[p].type = "provenance"
        PROVE  writer'[p] # 0 /\ NotAhead(p)'
    <2>1. fs'[p] = fs[p]
      BY <1>3, <1>4
    <2>2. writer[p] # 0 /\ NotAhead(p)
      BY <1>4, <2>1 DEF ImportInv, FilesInv
    <2> DEFINE output == log[writer[p]].output
    <2>3. output \in Paths /\ output # Input
      BY <2>2, Beside DEF ImportInv
    <2>4. fs'[output] = fs[output]
      BY <1>3, <2>3
    <2> HIDE DEF output
    <2>5. output = log[writer[p]].output
      BY DEF output
    <2>6. QED
      BY <1>2, <2>1, <2>2, <2>4, <2>5, StaysBehind
  <1>5. (\A i \in 1 .. Len(log) : Accepts(log[i]))'
    BY <1>2 DEF ImportInv, FilesInv, Accepts
  <1>6. FilesInv'
    BY <1>2, <1>3, <1>4, <1>5 DEF ImportInv, FilesInv
  <1>7. /\ phase \in Under => fs'[args.output] = fs[args.output]
        /\ outcome = "imported" => fs'[args.provenance] = fs[args.provenance]
    BY <1>3, Current
  <1>8. phase \in Under => OlderBut(args.output)'
    BY <1>2 DEF ImportInv, PhaseInv, OlderBut
  <1>9. PhaseInv'
    BY <1>2, <1>7, <1>8 DEF ImportInv, PhaseInv, Under
  <1>10. QED
    BY <1>6, <1>9 DEF ImportInv

\* No step leaves the invariant.
LEMMA StepInv == ImportInv /\ [Next]_vars => ImportInv'
  <1> SUFFICES ASSUME ImportInv, [Next]_vars PROVE ImportInv'
    OBVIOUS
  <1>1. CASE UNCHANGED vars
    <2>1. FilesInv'
      BY <1>1 DEF vars, ImportInv, FilesInv, NotAhead, Accepts
    <2>2. PhaseInv'
      BY <1>1 DEF vars, ImportInv, PhaseInv, OlderBut, args
    <2>3. QED
      BY <2>1, <2>2 DEF ImportInv
  <1>2. QED
    BY <1>1, ImportKeeps, ReadKeeps, MkdirKeeps, WriteOutputKeeps, WriteProvenanceKeeps,
       BreakKeeps, SourceKeeps
    DEF Next

\* Every reachable state satisfies the inductive invariant.
LEMMA Invariance == Spec => []ImportInv
  <1>1. QED
    BY InitInv, StepInv, PTL DEF Spec

\* Whichever imports were run, wherever they broke off and however the source
\* changed: a provenance on the disk is never ahead of its output.
THEOREM NeverAhead == Spec => []ProvenanceNeverAhead
  <1>1. ImportInv => ProvenanceNeverAhead
    BY DEF ImportInv, FilesInv, PhaseInv, ProvenanceNeverAhead
  <1>2. QED
    BY <1>1, Invariance, PTL

\* Whatever paths are given, only the two files an import was told to write
\* change, and they lie below tests/fixtures and are not the source.
THEOREM OnlyFixtures == Spec => OnlyFixturesChange
  <1> DEFINE Changed == \/ SourceChanges
                        \/ \A p \in Paths : fs'[p] # fs[p] /\ fs'[p] # Directory =>
                              /\ p \in {args.output, args.provenance}
                              /\ Below(p, Root) /\ p # args.input
  <1>1. ImportInv /\ [Next]_vars => [Changed]_vars
    <2> SUFFICES ASSUME ImportInv, [Next]_vars, ~SourceChanges, NEW p \in Paths,
                        fs'[p] # fs[p], fs'[p] # Directory
                 PROVE  /\ p \in {args.output, args.provenance}
                        /\ Below(p, Root) /\ p # args.input
      OBVIOUS
    <2>1. ASSUME phase \in Under, NEW path \in {args.output, args.provenance}, NEW node,
                 Write(path, node)
          PROVE  /\ p \in {args.output, args.provenance}
                 /\ Below(p, Root) /\ p # args.input
      <3>1. path \in Paths /\ Accepts(args)
        BY <2>1, Current
      <3>2. p = path
        BY <2>1, <3>1, Written DEF ImportInv
      <3>3. QED
        BY <2>1, <3>1, <3>2, Checked
    <2>2. CASE WriteOutput
      BY <2>1, <2>2 DEF WriteOutput, WriteFails, Under
    <2>3. CASE WriteProvenance
      BY <2>1, <2>3 DEF WriteProvenance, WriteFails, Under
    <2>4. CASE Break
      BY <2>1, <2>4 DEF Break, Under
    <2>5. CASE MakeDirectories
      BY <2>5 DEF MakeDirectories, Mkdir, MakeRoom
    <2>6. CASE UNCHANGED fs
      BY <2>6
    <2>7. QED
      BY <2>2, <2>3, <2>4, <2>5, <2>6 DEF Next, Import, ReadSource, vars
  <1>2. QED
    BY <1>1, Invariance, PTL DEF Spec, OnlyFixturesChange

-----------------------------------------------------------------------------
(* The passes of the redaction, field by field. *)

\* The content the host labels are given.
Secrets(content) == LabelPass(content, "secret", "labeledValue")

\* What the six passes leave of one field of content.
After(content, field) ==
    LET text == field.value.text
        key  == LowerCase(text)
        four == Replacement("ipv4", text, content)
    IN CASE field.value.fake -> field
         [] ~field.value.fake /\ field.label = "secret" ->
               Put(field, Replacement("labeledValue", text, content))
         [] ~field.value.fake /\ field.label = "host" ->
               Put(field, Replacement("domain", text, Secrets(content)))
         [] OTHER ->
               CASE field.value.kind = "mac" -> Put(field, Replacement("mac", text, content))
                 [] field.value.kind = "ipv4" -> Put(field, four)
                 [] field.value.kind = "mixed" ->
                       Put(field, Replacement("ipv6", LowerCase(four.text), content))
                 [] field.value.kind = "ipv6" ->
                       Put(field, Replacement("ipv6", key, content))
                 [] field.value.kind = "domain" ->
                       Put(field, Replacement("domain", key,
                                      IF key \in Labelled(Secrets(content))
                                      THEN Secrets(content) ELSE content))
                 [] OTHER -> field

\* Putting a value in a field.
LEMMA PutIs ==
    ASSUME NEW field, NEW value, field = [label |-> field.label, value |-> field.value]
    PROVE  /\ Put(field, value) = [label |-> field.label, value |-> value]
           /\ Put(field, value).label = field.label
           /\ Put(field, value).value = value
           /\ \A w : Put(Put(field, value), w) = Put(field, w)
  <1>1. \A w : Put(field, w) = [label |-> field.label, value |-> w]
    BY DEF Put
  <1>2. Put(field, value) = [label |-> Put(field, value).label,
                             value |-> Put(field, value).value]
    BY <1>1
  <1>3. \A w : Put(Put(field, value), w) = [label |-> field.label, value |-> w]
    BY <1>1 DEF Put
  <1>4. QED
    BY <1>1, <1>3

\* A replacement says that it is one.
LEMMA ReplacementIs ==
    ASSUME NEW type, NEW key, NEW seed
    PROVE  /\ Replacement(type, key, seed).fake
           /\ Replacement(type, key, seed).kind = IF type = "labeledValue" THEN "word" ELSE type
           /\ Len(Replacement(type, key, seed).text) = 3
  BY DEF Replacement

\* The passes do to each field what After says, whatever the others hold.
LEMMA RedactedIs ==
    ASSUME NEW content, WellWritten(content)
    PROVE  /\ Redacted(content) = [i \in DOMAIN content |-> Redacted(content)[i]]
           /\ \A i \in DOMAIN content : Redacted(content)[i] = After(content, content[i])
  <1> DEFINE secrets == Secrets(content)
             hosts == LabelPass(secrets, "host", "domain")
             macs  == MacPass(hosts, content)
             fours == Ipv4Pass(macs, content)
             sixes == Ipv6Pass(fours, content)
             ends  == DomainPass(sixes, Labelled(secrets), secrets, content)
  <1>1. Redacted(content) = ends
    BY DEF Redacted, Secrets
  <1>2. /\ DOMAIN secrets = DOMAIN content /\ DOMAIN hosts = DOMAIN content
        /\ DOMAIN macs = DOMAIN content /\ DOMAIN fours = DOMAIN content
        /\ DOMAIN sixes = DOMAIN content
        /\ ends = [i \in DOMAIN content |-> ends[i]]
    <2>1. DOMAIN secrets = DOMAIN content
      BY DEF Secrets, LabelPass
    <2>2. DOMAIN hosts = DOMAIN content
      BY <2>1 DEF LabelPass
    <2>3. DOMAIN macs = DOMAIN content
      BY <2>2 DEF MacPass
    <2>4. DOMAIN fours = DOMAIN content
      BY <2>3 DEF Ipv4Pass
    <2>5. DOMAIN sixes = DOMAIN content
      BY <2>4 DEF Ipv6Pass
    <2> HIDE DEF sixes, secrets
    <2>6. ends = [i \in DOMAIN content |-> ends[i]]
      BY <2>5 DEF DomainPass
    <2>7. QED
      BY <2>1, <2>2, <2>3, <2>4, <2>5, <2>6
  <1>3. ASSUME NEW i \in DOMAIN content
        PROVE  ends[i] = After(content, content[i])
    <2> DEFINE field == content[i]
    <2>1. /\ field = [label |-> field.label, value |-> field.value]
          /\ field.label \in Labels /\ field.value.kind \in Kinds
          /\ field.value.fake \in BOOLEAN
      BY <1>3 DEF WellWritten
    <2> HIDE DEF field
    <2>s. secrets[i] = IF field.label = "secret" /\ ~field.value.fake
                       THEN Put(field, Replacement("labeledValue", field.value.text, content))
                       ELSE field
      BY <1>3 DEF Secrets, LabelPass, field
    <2>h. hosts[i] = IF secrets[i].label = "host" /\ ~secrets[i].value.fake
                     THEN Put(secrets[i], Replacement("domain", secrets[i].value.text, secrets))
                     ELSE secrets[i]
      BY <1>2, <1>3 DEF LabelPass
    <2>m. macs[i] = IF hosts[i].value.kind = "mac" /\ ~hosts[i].value.fake
                    THEN Put(hosts[i], Replacement("mac", hosts[i].value.text, content))
                    ELSE hosts[i]
      BY <1>2, <1>3 DEF MacPass
    <2>4. fours[i] = IF macs[i].value.kind \in {"ipv4", "mixed"} /\ ~macs[i].value.fake
                     THEN Put(macs[i],
                              IF macs[i].value.kind = "ipv4"
                              THEN Replacement("ipv4", macs[i].value.text, content)
                              ELSE Raw("mixed",
                                       Replacement("ipv4", macs[i].value.text, content).text))
                     ELSE macs[i]
      BY <1>2, <1>3 DEF Ipv4Pass
    <2>6. sixes[i] = IF fours[i].value.kind \in {"ipv6", "mixed"} /\ ~fours[i].value.fake
                     THEN Put(fours[i], Replacement("ipv6", LowerCase(fours[i].value.text), content))
                     ELSE fours[i]
      BY <1>2, <1>3 DEF Ipv6Pass
    <2>d. ends[i] = IF sixes[i].value.kind = "domain" /\ ~sixes[i].value.fake
                    THEN Put(sixes[i], Replacement("domain", LowerCase(sixes[i].value.text),
                               IF LowerCase(sixes[i].value.text) \in Labelled(secrets)
                               THEN secrets ELSE content))
                    ELSE sixes[i]
      BY <1>2, <1>3 DEF DomainPass
    <2> HIDE DEF secrets, hosts, macs, fours, sixes, ends
    <2>7. CASE field.value.fake
      BY <2>7, <2>s, <2>h, <2>m, <2>4, <2>6, <2>d DEF After, field
    <2>8. CASE ~field.value.fake /\ field.label = "secret"
      <3>1. secrets[i] = Put(field, Replacement("labeledValue", field.value.text, content))
            /\ secrets[i].value.fake
        BY <2>8, <2>s, <2>1, PutIs, ReplacementIs
      <3>2. ends[i] = secrets[i]
        BY <3>1, <2>h, <2>m, <2>4, <2>6, <2>d
      <3> QED BY <2>8, <3>1, <3>2 DEF After, field
    <2>9. CASE ~field.value.fake /\ field.label = "host"
      <3>1. secrets[i] = field
        BY <2>9, <2>s
      <3>2. hosts[i] = Put(field, Replacement("domain", field.value.text, secrets))
            /\ hosts[i].value.fake
        BY <2>9, <3>1, <2>h, <2>1, PutIs, ReplacementIs
      <3>3. ends[i] = hosts[i]
        BY <3>2, <2>m, <2>4, <2>6, <2>d
      <3> QED BY <2>9, <3>2, <3>3 DEF After, field, secrets
    <2>10. CASE ~field.value.fake /\ field.label = "none"
      <3>1. hosts[i] = field
        BY <2>10, <2>s, <2>h
      <3>2. CASE field.value.kind = "mac"
        <4>1. macs[i] = Put(field, Replacement("mac", field.value.text, content))
              /\ macs[i].value.fake
          BY <2>10, <3>1, <3>2, <2>m, <2>1, PutIs, ReplacementIs
        <4>2. ends[i] = macs[i]
          BY <4>1, <2>4, <2>6, <2>d
        <4> QED BY <2>10, <3>2, <4>1, <4>2 DEF After, field
      <3>3. CASE field.value.kind = "ipv4"
        <4>0. macs[i] = field
          BY <3>1, <3>3, <2>m
        <4>1. fours[i] = Put(field, Replacement("ipv4", field.value.text, content))
              /\ fours[i].value.fake
          BY <2>10, <4>0, <3>3, <2>4, <2>1, PutIs, ReplacementIs
        <4>2. ends[i] = fours[i]
          BY <4>1, <2>6, <2>d
        <4> QED BY <2>10, <3>3, <4>1, <4>2 DEF After, field
      <3>4. CASE field.value.kind = "mixed"
        <4> DEFINE half == Raw("mixed", Replacement("ipv4", field.value.text, content).text)
        <4>0. macs[i] = field
          BY <3>1, <3>4, <2>m
        <4>1. fours[i] = Put(field, half)
          BY <2>10, <4>0, <3>4, <2>4
        <4>2. fours[i].value = half /\ half.kind = "mixed" /\ ~half.fake
              /\ half.text = Replacement("ipv4", field.value.text, content).text
          BY <4>1, <2>1, PutIs DEF Raw
        <4> HIDE DEF half
        <4>3. sixes[i] = Put(field, Replacement("ipv6", LowerCase(half.text), content))
          BY <4>1, <4>2, <2>6, <2>1, PutIs
        <4>4. sixes[i].value.fake
          BY <4>3, <2>1, PutIs, ReplacementIs
        <4>5. ends[i] = sixes[i]
          BY <4>4, <2>d
        <4> QED BY <2>10, <3>4, <4>2, <4>3, <4>5 DEF After, field
      <3>5. CASE field.value.kind = "ipv6"
        <4>0. fours[i] = field
          BY <2>10, <3>1, <3>5, <2>m, <2>4
        <4>1. sixes[i] = Put(field, Replacement("ipv6", LowerCase(field.value.text), content))
              /\ sixes[i].value.fake
          BY <2>10, <4>0, <3>5, <2>6, <2>1, PutIs, ReplacementIs
        <4>2. ends[i] = sixes[i]
          BY <4>1, <2>d
        <4> QED BY <2>10, <3>5, <4>1, <4>2 DEF After, field
      <3>6. CASE field.value.kind = "domain"
        <4>0. sixes[i] = field
          BY <2>10, <3>1, <3>6, <2>m, <2>4, <2>6
        <4> QED BY <2>10, <3>6, <4>0, <2>d DEF After, field, secrets
      <3>7. CASE field.value.kind = "word"
        <4>0. ends[i] = field
          BY <2>10, <3>1, <3>7, <2>m, <2>4, <2>6, <2>d
        <4> QED BY <2>10, <3>7, <4>0 DEF After, field
      <3>8. QED
        BY <2>1, <3>2, <3>3, <3>4, <3>5, <3>6, <3>7 DEF Kinds, Addresses
    <2>11. QED
      BY <2>1, <2>7, <2>8, <2>9, <2>10 DEF Labels
  <1> HIDE DEF ends
  <1>4. QED
    BY <1>1, <1>2, <1>3

\* What is clean already no pass touches.
LEMMA CleanIsKept ==
    ASSUME NEW content, content = [i \in DOMAIN content |-> content[i]], Clean(content)
    PROVE  Redacted(content) = content
  <1>1. \A i \in DOMAIN content :
           content[i].value.fake
              \/ (content[i].label = "none" /\ content[i].value.kind = "word")
    BY DEF Clean
  <1>2. \A label \in {"secret", "host"} : \A type :
           LabelPass(content, label, type) = content
    BY <1>1 DEF LabelPass
  <1>3. \A seed : /\ MacPass(content, seed) = content
                  /\ Ipv6Pass(content, seed) = content
    BY <1>1 DEF MacPass, Ipv6Pass
  <1>4. \A seed : Ipv4Pass(content, seed) = content
    BY <1>1 DEF Ipv4Pass
  <1>5. \A labelled, labelSeed, seed :
           DomainPass(content, labelled, labelSeed, seed) = content
    BY <1>1 DEF DomainPass
  <1>6. QED
    BY <1>2, <1>3, <1>4, <1>5 DEF Redacted

\* What the passes leave is clean.
LEMMA RedactedIsClean ==
    ASSUME NEW content, WellWritten(content)
    PROVE  Clean(Redacted(content))
  <1> SUFFICES ASSUME NEW i \in DOMAIN content,
                      LET left == After(content, content[i])
                      IN left.label # "none" \/ left.value.kind # "word"
               PROVE  After(content, content[i]).value.fake
    BY RedactedIs DEF Clean
  <1> DEFINE field == content[i]
             left  == After(content, field)
  <1>1. /\ field = [label |-> field.label, value |-> field.value]
        /\ field.label \in Labels /\ field.value.kind \in Kinds
        /\ field.value.fake \in BOOLEAN
    BY DEF WellWritten
  <1> HIDE DEF field
  <1>2. CASE field.value.fake
    BY <1>2 DEF After, field
  <1>3. CASE /\ ~field.value.fake
             /\ field.label # "none" \/ field.value.kind # "word"
    <2>1. \E type, key, seed : left = Put(field, Replacement(type, key, seed))
      BY <1>1, <1>3 DEF After, Labels, Kinds, Addresses
    <2>2. QED
      BY <1>1, <2>1, PutIs, ReplacementIs DEF field
  <1>4. CASE ~field.value.fake /\ field.label = "none" /\ field.value.kind = "word"
    BY <1>4 DEF After, field
  <1>5. QED
    BY <1>1, <1>2, <1>3, <1>4

\* One value keeps one replacement.
LEMMA OneReplacement ==
    ASSUME NEW content, WellWritten(content),
           NEW i \in DOMAIN content, NEW j \in DOMAIN content,
           ShowOneValue(content, i, j)
    PROVE  After(content, content[i]).value = After(content, content[j]).value
  <1> DEFINE f == content[i]
             g == content[j]
             v == f.value
             w == g.value
  <1>1. /\ f = [label |-> f.label, value |-> v] /\ g = [label |-> g.label, value |-> w]
        /\ v = [kind |-> v.kind, text |-> v.text, fake |-> v.fake]
        /\ w = [kind |-> w.kind, text |-> w.text, fake |-> w.fake]
        /\ v.kind \in Kinds /\ v.fake \in BOOLEAN /\ w.fake \in BOOLEAN
        /\ IF v.fake THEN Len(v.text) = 3 ELSE Len(v.text) \in {1, 2}
        /\ IF w.fake THEN Len(w.text) = 3 ELSE Len(w.text) \in {1, 2}
    BY DEF WellWritten
  <1>2. /\ v.kind = w.kind /\ LowerCase(v.text) = LowerCase(w.text)
        /\ v.kind \notin {"domain", "ipv6"} => v.text = w.text
        /\ g.label = "none"
        /\ \/ f.label = "none"
           \/ f.label = "host" /\ v.kind = "domain" /\ v.text = LowerCase(v.text)
    BY DEF ShowOneValue
  <1>3. /\ \A text : Len(text) = 2 => Len(LowerCase(text)) = 1
        /\ \A text : Len(text) # 2 => LowerCase(text) = text
    BY DEF LowerCase
  <1>4. v.fake = w.fake /\ (v.fake => v.text = w.text)
    BY <1>1, <1>2, <1>3
  <1>5. \A value : Put(f, value).value = value /\ Put(g, value).value = value
    BY <1>1, PutIs
  <1>6. CASE v.fake
    BY <1>1, <1>2, <1>4, <1>6 DEF After
  <1>7. CASE ~v.fake /\ f.label = "none"
    BY <1>1, <1>2, <1>4, <1>5, <1>7 DEF After, Kinds, Addresses
  <1>8. CASE ~v.fake /\ f.label = "host"
    <2>1. Secrets(content)[i] = f
      BY <1>8 DEF Secrets, LabelPass
    <2>2. v.text \in Labelled(Secrets(content))
      BY <1>8, <2>1 DEF Labelled, Secrets, LabelPass
    <2>3. QED
      BY <1>1, <1>2, <1>4, <1>5, <1>8, <2>2 DEF After
  <1>9. QED
    BY <1>1, <1>2, <1>6, <1>7, <1>8

\* Until the first import the source lies where it was put, as it is or changed.
SourceInv ==
    log = <<>> => /\ phase = "idle"
                  /\ \E content \in Sources : fs[Input] = TextNode(content)

\* No import comes before the first.
LEMMA SourceInvariance == Spec => []SourceInv
  <1>1. Init => SourceInv
    BY ImportAssumption DEF Init, SourceInv
  <1>2. ImportInv /\ SourceInv /\ [Next]_vars => SourceInv'
    <2> SUFFICES ASSUME ImportInv, SourceInv, [Next]_vars PROVE SourceInv'
      OBVIOUS
    <2>1. ASSUME NEW a \in Arguments, Import(a) PROVE SourceInv'
      <3>1. a \in PathArguments /\ log \in Seq(PathArguments)
        BY ImportAssumption DEF Arguments, PathArguments, ImportInv, FilesInv
      <3>2. Len(Append(log, a)) # Len(<<>>)
        BY <3>1
      <3>3. QED
        BY <2>1, <3>2 DEF Import, End, SourceInv
    <2>2. CASE SourceChanges
      <3>1. PICK content \in Edits : fs' = [fs EXCEPT ![Input] = TextNode(content)]
        BY <2>2 DEF SourceChanges
      <3>2. fs'[Input] = TextNode(content) /\ content \in Sources
        BY <3>1, ImportAssumption DEF ImportInv, FilesInv
      <3>3. QED
        BY <2>2, <3>2 DEF SourceChanges, SourceInv
    <2>3. CASE ReadSource
      BY <2>3 DEF ReadSource, SourceInv
    <2>4. CASE MakeDirectories
      BY <2>4 DEF MakeDirectories, Mkdir, SourceInv
    <2>5. CASE WriteOutput \/ WriteProvenance
      BY <2>5 DEF WriteOutput, WriteProvenance, SourceInv
    <2>6. CASE Break
      BY <2>6 DEF Break, SourceInv
    <2>7. CASE UNCHANGED vars
      BY <2>7 DEF vars, SourceInv
    <2>8. QED
      BY <2>1, <2>2, <2>3, <2>4, <2>5, <2>6, <2>7 DEF Next
  <1>3. QED
    BY <1>1, <1>2, Invariance, PTL DEF Spec

\* Whatever the source holds: its redaction passes the validation, redacting it
\* again changes nothing, and one value keeps one replacement all over the text.
THEOREM RedactionAgrees == Spec => []PassesAgree
  <1>1. SourceInv => PassesAgree
    <2> SUFFICES ASSUME SourceInv, log = <<>> PROVE PassesAgree
      BY DEF PassesAgree
    <2>1. PICK content \in Sources : fs[Input] = TextNode(content)
      BY DEF SourceInv
    <2>2. WellWritten(content) /\ fs[Input].content = content
      BY <2>1, ImportAssumption DEF TextNode
    <2>3. Clean(Redacted(content))
      BY <2>2, RedactedIsClean
    <2>4. DOMAIN Redacted(content) = DOMAIN content
      BY <2>2, RedactedIs
    <2>5. Redacted(Redacted(content)) = Redacted(content)
      BY <2>2, <2>3, <2>4, RedactedIs, CleanIsKept
    <2>6. \A i, j \in DOMAIN content : ShowOneValue(content, i, j) =>
             Redacted(content)[i].value = Redacted(content)[j].value
      BY <2>2, RedactedIs, OneReplacement
    <2>7. QED
      BY <2>2, <2>3, <2>5, <2>6 DEF PassesAgree
  <1>2. QED
    BY <1>1, SourceInvariance, PTL
===============================================================================
