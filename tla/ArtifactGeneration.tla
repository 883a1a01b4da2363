-------------------------- MODULE ArtifactGeneration --------------------------
(***************************************************************************)
(* `npm run manifest:generate` and `manifest:check`                        *)
(* (tools/generate-capability-manifest.ts): compile the domain modules,    *)
(* discover their operations from dist/, list src/domains a second time,   *)
(* infer the input schemas from the sources, then write, or compare, four  *)
(* generated files one after the other.                                    *)
(*                                                                         *)
(* Meanwhile a developer edits src/domains, and a run may be interrupted.  *)
(* A domain module is the sequence of the operations it exports; of an     *)
(* operation its manifest id and its input type are kept. Files are        *)
(* numbers, in the order their names sort.                                 *)
(***************************************************************************)
EXTENDS Integers, Sequences, SequencesExt

CONSTANTS
    Files,      \* names a domain module may have
    Contents,   \* what a domain module may export: sequences of operations
    Corpus,     \* ids of the entries the corpora give the manifest
    Hidden,     \* ids tryReadStaticManifestId cannot read from the source
    Absent,     \* no such file
    NoExport,   \* a module without a well-shaped "operations" export
    Missing,    \* a generated file that does not exist
    Torn,       \* a generated file whose write was cut short
    MaxEdits,   \* bound: edits of src/domains
    MaxRuns     \* bound: runs of the tool

ASSUME GenerationAssumption ==
    /\ Files \subseteq Nat /\ IsFiniteSet(Files)
    /\ MaxEdits \in Nat /\ MaxRuns \in Nat
    /\ Absent \notin Contents /\ NoExport \notin Contents

VARIABLES
    tree,       \* src/domains
    dist,       \* dist/domains, never cleaned by tsc
    artifacts,  \* the four committed files
    phase, mode, outcome,   \* of the current or last run
    operations, \* domainOperations, in file order
    names,      \* domainFileNames
    schemas,    \* inputSchemas
    next, inSync,           \* artifact at hand; conjunction of the results
    runs, edits,
    edited, before, seen    \* history: an edit since the run began; the
                            \* artifacts then; the sources the schemas show

work == <<operations, names, schemas, next, inSync>>
history == <<edited, before, seen>>
vars == <<tree, dist, artifacts, phase, mode, outcome, work, runs, edits, history>>

Order == <<"manifest", "registry", "operations", "schemas">>
Artifacts == ToSet(Order)
Modules == Contents \cup {Absent, NoExport}
Usable(module) == module \notin {Absent, NoExport}

(***************************************************************************)
(* What the tool computes.                                                 *)
(***************************************************************************)

\* listDomainModuleFiles: the modules there are, sorted.
Present(dir) == {f \in Files : dir[f] # Absent}
Ascending(list) == \A i, j \in DOMAIN list : i < j => list[i] < list[j]
Listing(dir) ==
    CHOOSE list \in [1..Cardinality(Present(dir)) -> Present(dir)] : Ascending(list)

\* The operations of the listed modules, concatenated.
Exports(dir, list) == FlattenSeq([i \in DOMAIN list |-> dir[list[i]]])

IdsOf(ops) == {ops[i].id : i \in DOMAIN ops}

\* assembleOperationRegistry and buildSelfAssembledRegistry accept ops.
Assembles(ops) ==
    /\ \A i, j \in DOMAIN ops : ops[i].id = ops[j].id => i = j
    /\ IdsOf(ops) \subseteq Corpus

\* Mutant of InStep: only the numbers of elements and operations are compared.
InStepByNumber(dir, list, ops) ==
    /\ \A i \in DOMAIN list : Usable(dir[list[i]])
    /\ Len(Exports(dir, list)) = Len(ops)

\* buildInputSchemas finds the elements of the sources and the operations of
\* the build in step: as many, with the same id wherever it can be read.
InStep(dir, list, ops) ==
    /\ \A i \in DOMAIN list : Usable(dir[list[i]])
    /\ LET elements == Exports(dir, list)
       IN /\ DOMAIN elements = DOMAIN ops
          /\ \A i \in DOMAIN ops :
                elements[i].id \notin Hidden => elements[i].id = ops[i].id

\* The schemas: keyed by the id of the build, typed by the source.
SchemasOf(dir, list, ops) ==
    LET elements == Exports(dir, list)
    IN [id \in IdsOf(ops) |->
           elements[CHOOSE i \in DOMAIN ops : ops[i].id = id].type]

\* The text of each artifact, as far as it can differ.
Rendered ==
    [manifest   |-> IdsOf(operations),   \* overlayImplementedStatus
     registry   |-> names,
     operations |-> names,
     schemas    |-> schemas]

(***************************************************************************)
(* The run.                                                                *)
(***************************************************************************)
Init ==
    /\ tree \in [Files -> Modules]
    /\ dist = [f \in Files |-> Absent]
    /\ artifacts = [a \in Artifacts |-> Missing]
    /\ phase = "idle" /\ mode = "generate" /\ outcome = "none"
    /\ operations = <<>> /\ names = <<>> /\ schemas = <<>>
    /\ next = 1 /\ inSync = TRUE
    /\ runs = 0 /\ edits = 0
    /\ edited = FALSE /\ before = artifacts /\ seen = tree

\* A run ends; what it worked with is forgotten.
End(result) ==
    /\ phase' = "idle" /\ outcome' = result
    /\ operations' = <<>> /\ names' = <<>> /\ schemas' = <<>>
    /\ next' = 1 /\ inSync' = TRUE

Refuse ==
    /\ End("refused")
    /\ UNCHANGED <<tree, dist, artifacts, mode, runs, edits, history>>

\* tsc -p tsconfig.generator.json, then the tool with its arguments.
Start(m) ==
    /\ phase = "idle" /\ runs < MaxRuns
    /\ runs' = runs + 1
    /\ dist' = [f \in Files |-> IF tree[f] = Absent THEN dist[f] ELSE tree[f]]
    /\ phase' = "compiled" /\ mode' = m /\ outcome' = "none"
    /\ edited' = FALSE /\ before' = artifacts
    /\ UNCHANGED <<tree, artifacts, work, edits, seen>>

\* discoverDomainOperations: names from the sources, modules from the build.
Discover ==
    /\ phase = "compiled"
    /\ LET list == Listing(tree)
       IN IF \A i \in DOMAIN list : Usable(dist[list[i]])
          THEN /\ operations' = Exports(dist, list)
               /\ phase' = "discovered"
               /\ UNCHANGED <<tree, dist, artifacts, mode, outcome, names,
                              schemas, next, inSync, runs, edits, history>>
          ELSE Refuse

\* Mutant of Relist: the manifest is written before the schemas are known to
\* match.
RelistWriting ==
    /\ phase = "discovered"
    /\ IF Assembles(operations)
       THEN /\ names' = Listing(tree)
            /\ phase' = "relisted"
            /\ artifacts' = [artifacts EXCEPT !["manifest"] = IdsOf(operations)]
            /\ UNCHANGED <<tree, dist, mode, outcome, operations, schemas, next,
                           inSync, runs, edits, history>>
       ELSE Refuse

\* The registry is assembled, then src/domains is listed again.
Relist ==
    /\ phase = "discovered"
    /\ IF Assembles(operations)
       THEN /\ names' = Listing(tree)
            /\ phase' = "relisted"
            /\ UNCHANGED <<tree, dist, artifacts, mode, outcome, operations,
                           schemas, next, inSync, runs, edits, history>>
       ELSE Refuse

\* buildInputSchemas, from the sources as they are now.
Describe ==
    /\ phase = "relisted"
    /\ IF InStep(tree, names, operations)
       THEN /\ schemas' = SchemasOf(tree, names, operations)
            /\ seen' = tree
            /\ phase' = "output"
            /\ UNCHANGED <<tree, dist, artifacts, mode, outcome, operations,
                           names, next, inSync, runs, edits, edited, before>>
       ELSE Refuse

\* Mutant of WriteOrCheck: a check is content with a file that is there.
WriteOrFind(a, ok) ==
    IF mode = "generate"
    THEN /\ artifacts' = [artifacts EXCEPT ![a] = Rendered[a]]
         /\ ok = TRUE
    ELSE /\ ok = (artifacts[a] \notin {Missing, Torn})
         /\ UNCHANGED artifacts

\* writeOrCheckArtifact says whether artifact a is in sync.
WriteOrCheck(a, ok) ==
    IF mode = "generate"
    THEN /\ artifacts' = [artifacts EXCEPT ![a] = Rendered[a]]
         /\ ok = TRUE
    ELSE /\ ok = (artifacts[a] = Rendered[a])
         /\ UNCHANGED artifacts

\* Every artifact is visited, whatever the ones before it gave.
Visit ==
    /\ phase = "output"
    /\ \E ok \in BOOLEAN :
         /\ WriteOrCheck(Order[next], ok)
         /\ IF next < Len(Order)
            THEN /\ next' = next + 1 /\ inSync' = (inSync /\ ok)
                 /\ UNCHANGED <<phase, outcome, operations, names, schemas>>
            ELSE End(IF inSync /\ ok THEN "ok" ELSE "drift")
    /\ UNCHANGED <<tree, dist, mode, runs, edits, history>>

\* The process is killed, or a read or a write fails: a write may be cut short.
Interrupt ==
    /\ phase # "idle"
    /\ End("interrupted")
    /\ \/ UNCHANGED artifacts
       \/ /\ phase = "output" /\ mode = "generate"
          /\ artifacts' = [artifacts EXCEPT ![Order[next]] = Torn]
    /\ UNCHANGED <<tree, dist, mode, runs, edits, history>>

\* The developer adds, changes or deletes a domain module.
Edit(f) ==
    /\ edits < MaxEdits
    /\ \E module \in Modules \ {tree[f]} : tree' = [tree EXCEPT ![f] = module]
    /\ edits' = edits + 1 /\ edited' = TRUE
    /\ UNCHANGED <<dist, artifacts, phase, mode, outcome, work, runs, before, seen>>

Next ==
    \/ \E m \in {"generate", "check"} : Start(m)
    \/ Discover \/ Relist \/ Describe \/ Visit \/ Interrupt
    \/ \E f \in Files : Edit(f)

Spec == Init /\ [][Next]_vars

(***************************************************************************)
(* Properties.                                                             *)
(***************************************************************************)

\* What the four files must hold for the sources dir.
Fresh(dir) ==
    LET list == Listing(dir)
        ops  == Exports(dir, list)
    IN [manifest |-> IdsOf(ops), registry |-> list, operations |-> list,
        schemas  |-> SchemasOf(dir, list, ops)]

\* manifest:generate that succeeds, and manifest:check that reports OK, mean
\* that all four files are those of the sources, unless the sources were
\* edited meanwhile: a file left torn or old by an interrupted run is found.
OkMeansFresh ==
    outcome = "ok" /\ ~edited => artifacts = Fresh(tree)

\* A run that refuses the sources (an unloadable module, a duplicate or unknown
\* id, sources and build out of step) has not touched any of the four files.
RefusalTouchesNothing ==
    outcome = "refused" => artifacts = before

\* Edits during a run cannot make it report success on files that contradict
\* one another: the modules the registry imports, as they stood when the schemas
\* were inferred, export exactly the ids the manifest calls implemented.
ArtifactsAgree ==
    outcome = "ok" =>
        /\ artifacts["registry"] = artifacts["operations"]
        /\ IdsOf(Exports(seen, artifacts["registry"])) = artifacts["manifest"]
        /\ DOMAIN artifacts["schemas"] = artifacts["manifest"]
===============================================================================
