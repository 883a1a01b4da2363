----------------------- MODULE ArtifactGenerationProofs -----------------------
(***************************************************************************)
(* What ArtifactGeneration promises, for all sources, edits and numbers of  *)
(* runs. Two facts carry a run: nothing is written before the output phase, *)
(* and in that phase every file that was visited is what was rendered,      *)
(* unless a check has already seen that it is not.                          *)
(***************************************************************************)
EXTENDS ArtifactGeneration, FiniteSetTheorems, WellFoundedInduction, TLAPS

Phases == {"idle", "compiled", "discovered", "relisted", "output"}

\* The artifacts as the tool has them in hand when it is at artifact n.
VisitedUpTo(n) ==
    mode = "generate" \/ inSync =>
        \A k \in 1..(n - 1) : artifacts[Order[k]] = Rendered[Order[k]]

\* The schemas are keyed by the ids of the build, and these are the ids the
\* sources had then, if all of them can be read from the sources.
Described ==
    /\ DOMAIN schemas = IdsOf(operations)
    /\ Hidden = {} => IdsOf(Exports(seen, names)) = IdsOf(operations)

GenerationInv ==
    /\ artifacts = [a \in Artifacts |-> artifacts[a]]
    /\ phase \in Phases /\ mode \in {"generate", "check"}
    /\ phase # "idle" => outcome = "none"
    /\ phase \in {"compiled", "discovered", "relisted"} => artifacts = before
    /\ phase # "output" => next = 1
    /\ phase = "output" => next \in 1..4 /\ VisitedUpTo(next) /\ Described
    /\ RefusalTouchesNothing
    /\ Hidden = {} => ArtifactsAgree

\* The four artifacts, in their order.
LEMMA FourArtifacts ==
    /\ Len(Order) = 4
    /\ Artifacts = {"manifest", "registry", "operations", "schemas"}
    /\ Order[1] = "manifest" /\ Order[2] = "registry"
    /\ Order[3] = "operations" /\ Order[4] = "schemas"
  <1>1. Artifacts = {Order[k] : k \in 1..4}
    BY DEF Artifacts, ToSet, Order
  <1>2. QED
    BY <1>1 DEF Order

\* The state before the first run satisfies the invariant.
LEMMA InitInv == Init => GenerationInv
  BY DEF Init, GenerationInv, Phases, RefusalTouchesNothing, ArtifactsAgree

\* A run that refuses has written nothing; one that does not succeed claims
\* nothing.
LEMMA RefuseKeeps ==
    ASSUME GenerationInv, phase \in {"compiled", "discovered", "relisted"}, Refuse
    PROVE  GenerationInv'
  BY DEF GenerationInv, Refuse, End, Phases, history, RefusalTouchesNothing,
         ArtifactsAgree

\* Sources that are in step with the build have its ids.
LEMMA DescribeKeeps == GenerationInv /\ Describe => GenerationInv'
  <1> SUFFICES ASSUME GenerationInv, Describe PROVE GenerationInv'
    OBVIOUS
  <1>1. CASE InStep(tree, names, operations)
    <2> DEFINE elements == Exports(tree, names)
    <2>1. /\ DOMAIN elements = DOMAIN operations
          /\ Hidden = {} =>
                 \A i \in DOMAIN operations : elements[i].id = operations[i].id
      BY <1>1 DEF InStep
    <2>2. Hidden = {} => IdsOf(elements) = IdsOf(operations)
      BY <2>1 DEF IdsOf
    <2>3. /\ schemas' = SchemasOf(tree, names, operations)
          /\ seen' = tree /\ phase' = "output" /\ phase = "relisted"
          /\ UNCHANGED <<artifacts, mode, outcome, operations, names, next, inSync,
                         before>>
      BY <1>1 DEF Describe
    <2>4. DOMAIN schemas' = IdsOf(operations)
      BY <2>3 DEF SchemasOf
    <2>5. Described'
      BY <2>2, <2>3, <2>4 DEF Described
    <2>6. QED
      BY <2>3, <2>5 DEF GenerationInv, Phases, VisitedUpTo, RefusalTouchesNothing,
                       ArtifactsAgree
  <1>2. CASE ~InStep(tree, names, operations)
    BY <1>2, RefuseKeeps DEF Describe
  <1>3. QED
    BY <1>1, <1>2

\* Discovery and assembly read, and write nothing.
LEMMA ReadingKeeps ==
    GenerationInv /\ (Discover \/ Relist) => GenerationInv'
  <1> SUFFICES ASSUME GenerationInv, Discover \/ Relist PROVE GenerationInv'
    OBVIOUS
  <1>1. CASE Refuse
    BY <1>1, RefuseKeeps DEF Discover, Relist
  <1>2. CASE ~Refuse
    <2>1. /\ phase \in {"compiled", "discovered"}
          /\ phase' \in {"discovered", "relisted"}
          /\ UNCHANGED <<artifacts, mode, outcome, next, before>>
      BY <1>2 DEF Discover, Relist, history
    <2>2. QED
      BY <2>1 DEF GenerationInv, Phases, RefusalTouchesNothing, ArtifactsAgree
  <1>3. QED
    BY <1>1, <1>2

\* Writing puts what was rendered in one place, checking says whether it is
\* there: after either, an artifact found in sync is what was rendered.
LEMMA WrittenOrChecked ==
    ASSUME GenerationInv, NEW n \in 1..4, NEW ok \in BOOLEAN,
           WriteOrCheck(Order[n], ok)
    PROVE  /\ artifacts' = [a \in Artifacts |-> artifacts'[a]]
           /\ ok => artifacts'[Order[n]] = Rendered[Order[n]]
           /\ mode = "generate" => ok
           /\ \A k \in 1..4 : k # n => artifacts'[Order[k]] = artifacts[Order[k]]
  <1>1. /\ \A k \in 1..4 : Order[k] \in Artifacts
        /\ \A k \in 1..4 : k # n => Order[k] # Order[n]
    BY FourArtifacts
  <1>2. artifacts = [a \in Artifacts |-> artifacts[a]]
    BY DEF GenerationInv
  <1>3. CASE mode = "generate"
    BY <1>1, <1>2, <1>3 DEF WriteOrCheck
  <1>4. CASE mode # "generate"
    BY <1>2, <1>4 DEF WriteOrCheck
  <1>5. QED
    BY <1>3, <1>4

\* Artifacts that were all found in sync agree.
LEMMA AllVisited ==
    ASSUME Described, \A k \in 1..4 : artifacts'[Order[k]] = Rendered[Order[k]],
           UNCHANGED seen
    PROVE  Hidden = {} => ArtifactsAgree'
  <1>1. /\ artifacts'["manifest"] = IdsOf(operations)
        /\ artifacts'["registry"] = names
        /\ artifacts'["operations"] = names
        /\ artifacts'["schemas"] = schemas
    BY FourArtifacts DEF Rendered
  <1>2. QED
    BY <1>1 DEF Described, ArtifactsAgree

\* A visit leaves every artifact up to it as rendered, if all were in sync.
LEMMA VisitKeeps == GenerationInv /\ Visit => GenerationInv'
  <1> SUFFICES ASSUME GenerationInv, Visit PROVE GenerationInv'
    OBVIOUS
  <1>1. /\ phase = "output" /\ next \in 1..4 /\ VisitedUpTo(next) /\ Described
        /\ mode \in {"generate", "check"} /\ outcome = "none"
        /\ UNCHANGED <<mode, before, seen>>
    BY DEF Visit, GenerationInv, history
  <1>2. PICK ok \in BOOLEAN :
           /\ WriteOrCheck(Order[next], ok)
           /\ IF next < Len(Order)
              THEN /\ next' = next + 1 /\ inSync' = (inSync /\ ok)
                   /\ UNCHANGED <<phase, outcome, operations, names, schemas>>
              ELSE End(IF inSync /\ ok THEN "ok" ELSE "drift")
    BY DEF Visit
  <1>3. /\ artifacts' = [a \in Artifacts |-> artifacts'[a]]
        /\ ok => artifacts'[Order[next]] = Rendered[Order[next]]
        /\ mode = "generate" => ok
        /\ \A k \in 1..4 : k # next => artifacts'[Order[k]] = artifacts[Order[k]]
    BY <1>1, <1>2, WrittenOrChecked
  <1>4. ok /\ (mode = "generate" \/ inSync) =>
           \A k \in 1..next : artifacts'[Order[k]] = Rendered[Order[k]]
    BY <1>1, <1>3 DEF VisitedUpTo
  <1>5. CASE next < 4
    <2>1. /\ next' = next + 1 /\ inSync' = (inSync /\ ok)
          /\ UNCHANGED <<phase, outcome, operations, names, schemas>>
      BY <1>2, <1>5, FourArtifacts
    <2>2. Rendered' = Rendered /\ Described'
      BY <1>1, <2>1 DEF Rendered, Described
    <2>3. VisitedUpTo(next)'
      <3>1. next' - 1 = next
        BY <1>1, <2>1
      <3>2. SUFFICES ASSUME mode' = "generate" \/ inSync'
                     PROVE  \A k \in 1..next : artifacts'[Order[k]] = Rendered'[Order[k]]
        BY <3>1 DEF VisitedUpTo
      <3>3. ok /\ (mode = "generate" \/ inSync)
        BY <1>1, <1>3, <2>1, <3>2
      <3>4. QED
        BY <1>4, <2>2, <3>3
    <2>4. QED
      BY <1>1, <1>3, <1>5, <2>1, <2>2, <2>3
      DEF GenerationInv, RefusalTouchesNothing, ArtifactsAgree
  <1>6. CASE next = 4
    <2>1. End(IF inSync /\ ok THEN "ok" ELSE "drift")
      BY <1>2, <1>6, FourArtifacts
    <2>2. CASE inSync /\ ok
      <3>1. Hidden = {} => ArtifactsAgree'
        BY <1>1, <1>4, <1>6, <2>2, AllVisited
      <3>2. QED
        BY <1>1, <1>3, <2>1, <2>2, <3>1
        DEF GenerationInv, End, Phases, RefusalTouchesNothing
    <2>3. CASE ~(inSync /\ ok)
      BY <1>1, <1>3, <2>1, <2>3
      DEF GenerationInv, End, Phases, RefusalTouchesNothing, ArtifactsAgree
    <2>4. QED
      BY <2>2, <2>3
  <1>7. QED
    BY <1>1, <1>5, <1>6

\* No step leaves the invariant.
LEMMA StepInv == GenerationInv /\ [Next]_vars => GenerationInv'
  <1> SUFFICES ASSUME GenerationInv, [Next]_vars PROVE GenerationInv'
    OBVIOUS
  <1>1. ASSUME NEW m \in {"generate", "check"}, Start(m) PROVE GenerationInv'
    BY <1>1 DEF Start, work, GenerationInv, Phases, RefusalTouchesNothing,
                ArtifactsAgree
  <1>2. CASE Interrupt
    <2>1. artifacts' = [a \in Artifacts |-> artifacts'[a]]
      BY <1>2 DEF Interrupt, GenerationInv
    <2>2. QED
      BY <1>2, <2>1 DEF Interrupt, End, GenerationInv, Phases, RefusalTouchesNothing,
                        ArtifactsAgree
  <1>3. ASSUME NEW f \in Files, Edit(f) PROVE GenerationInv'
    BY <1>3 DEF Edit, work, GenerationInv, VisitedUpTo, Rendered, Described,
                RefusalTouchesNothing, ArtifactsAgree
  <1>4. CASE UNCHANGED vars
    BY <1>4 DEF vars, work, history, GenerationInv, VisitedUpTo, Rendered, Described,
                RefusalTouchesNothing, ArtifactsAgree
  <1>5. QED
    BY <1>1, <1>2, <1>3, <1>4, ReadingKeeps, DescribeKeeps, VisitKeeps DEF Next

\* Every reachable state satisfies the inductive invariant.
LEMMA Invariance == Spec => []GenerationInv
  BY InitInv, StepInv, PTL DEF Spec

\* If every id can be read from its source, then whatever edits come between its
\* steps, a run that reports success leaves files that agree: the modules the
\* registry imports export, as the schemas show them, the ids the manifest calls
\* implemented.
THEOREM SuccessAgrees == ASSUME Hidden = {} PROVE Spec => []ArtifactsAgree
  <1>1. GenerationInv => ArtifactsAgree
    BY DEF GenerationInv
  <1>2. QED
    BY <1>1, Invariance, PTL

\* A run that refuses the sources has not touched any of the four files.
THEOREM RefusalIsClean == Spec => []RefusalTouchesNothing
  <1>1. GenerationInv => RefusalTouchesNothing
    BY DEF GenerationInv
  <1>2. QED
    BY <1>1, Invariance, PTL

-----------------------------------------------------------------------------
(* Success means fresh: first that a listing lists what is there. *)

\* Induction over the natural numbers, with a set in place of a predicate.
LEMMA SetInduction ==
    ASSUME NEW T \in SUBSET Nat, 0 \in T, \A n \in T : n + 1 \in T
    PROVE  T = Nat
  <1> DEFINE U == Nat \ T
  <1> SUFFICES ASSUME U # {} PROVE FALSE
    OBVIOUS
  <1>1. PICK x \in U : \A y \in U : ~ (<<y, x>> \in OpToRel(<, Nat))
    <2>1. U \subseteq Nat
      OBVIOUS
    <2> HIDE DEF U
    <2>2. QED
      BY <2>1, NatLessThanWellFounded, WFMin
  <1>2. x # 0 /\ x \in Nat
    OBVIOUS
  <1>3. x - 1 \in Nat /\ x - 1 < x /\ (x - 1) + 1 = x
    BY <1>2
  <1>4. <<x - 1, x>> \in OpToRel(<, Nat)
    BY <1>2, <1>3 DEF OpToRel
  <1>5. x - 1 \notin U
    BY <1>1, <1>4
  <1>6. QED
    BY <1>2, <1>3, <1>5

\* The ways to list a set of numbers in ascending order.
Enumerations(S) == {list \in [1..Cardinality(S) -> S] : Ascending(list)}

\* A finite set of numbers has a bound.
LEMMA Bounded ==
    ASSUME NEW S \in SUBSET Nat, IsFiniteSet(S)
    PROVE  \E n \in Nat : \A x \in S : x < n
  <1> DEFINE T == {k \in Nat : \A R \in SUBSET Nat :
                      IsFiniteSet(R) /\ Cardinality(R) = k =>
                         \E n \in Nat : \A x \in R : x < n}
  <1>1. 0 \in T
    BY FS_EmptySet
  <1>2. ASSUME NEW k \in T PROVE k + 1 \in T
    <2>1. k \in Nat /\ k + 1 \in Nat /\ k + 1 # 0 /\ (k + 1) - 1 = k
      OBVIOUS
    <2>2. ASSUME NEW R \in SUBSET Nat, IsFiniteSet(R), Cardinality(R) = k + 1
          PROVE  \E n \in Nat : \A x \in R : x < n
      <3>1. PICK y \in R : TRUE
        BY <2>1, <2>2, FS_EmptySet
      <3>2. IsFiniteSet(R \ {y}) /\ Cardinality(R \ {y}) = k
        <4> HIDE DEF T
        <4>1. QED
          BY <2>1, <2>2, <3>1, FS_RemoveElement
      <3>3. PICK n \in Nat : \A x \in R \ {y} : x < n
        BY <3>2
      <3>4. \A x \in R : x < n + y + 1
        <4> HIDE DEF T
        <4>1. \A x \in R : x \in Nat
          BY <2>2
        <4>2. QED
          BY <3>1, <3>3, <4>1
      <3>5. n + y + 1 \in Nat
        BY <2>2, <3>1
      <3>6. QED
        BY <3>4, <3>5
    <2>3. QED
      BY <2>1, <2>2
  <1>3. T = Nat
    <2> HIDE DEF T
    <2>1. T \in SUBSET Nat
      BY DEF T
    <2>2. QED
      BY <1>1, <1>2, <2>1, SetInduction
  <1>4. QED
    BY <1>3, FS_CardinalityType

\* A finite set of numbers can be listed in ascending order.
LEMMA Enumerable ==
    ASSUME NEW S \in SUBSET Nat, IsFiniteSet(S)
    PROVE  Enumerations(S) # {}
  <1> DEFINE T == {n \in Nat : \A R \in SUBSET (0..(n - 1)) :
                      IsFiniteSet(R) /\ Enumerations(R) # {}}
  <1>1. 0 \in T
    <2> SUFFICES ASSUME NEW R \in SUBSET (0..(0 - 1))
                 PROVE  IsFiniteSet(R) /\ Enumerations(R) # {}
      OBVIOUS
    <2>1. R = {}
      OBVIOUS
    <2>2. IsFiniteSet(R) /\ Cardinality(R) = 0
      BY <2>1, FS_EmptySet
    <2> DEFINE none == [i \in 1..0 |-> 0]
    <2>3. none \in [1..0 -> R] /\ Ascending(none)
      BY DEF Ascending
    <2>4. QED
      BY <2>2, <2>3 DEF Enumerations
  <1>2. ASSUME NEW n \in T PROVE n + 1 \in T
    <2> SUFFICES ASSUME NEW R \in SUBSET (0..n)
                 PROVE  IsFiniteSet(R) /\ Enumerations(R) # {}
      OBVIOUS
    <2> DEFINE Q == R \ {n}
    <2>1. Q \in SUBSET (0..(n - 1)) /\ n \notin Q
      OBVIOUS
    <2>2. IsFiniteSet(Q) /\ Enumerations(Q) # {}
      BY <2>1
    <2> HIDE DEF T
    <2>3. CASE n \notin R
      BY <2>2, <2>3, Q = R
    <2>4. CASE n \in R
      <3> DEFINE c == Cardinality(Q)
      <3>1. Q \cup {n} = R
        BY <2>4
      <3>2. c \in Nat /\ IsFiniteSet(R) /\ Cardinality(R) = c + 1
        <4> HIDE DEF Q
        <4>1. IsFiniteSet(Q \cup {n}) /\ Cardinality(Q \cup {n}) = Cardinality(Q) + 1
          BY <2>1, <2>2, FS_AddElement
        <4>2. QED
          BY <2>2, <3>1, <4>1, FS_CardinalityType
      <3>3. PICK list \in [1..c -> Q] : Ascending(list)
        BY <2>2 DEF Enumerations
      <3> DEFINE longer == [i \in 1..(c + 1) |-> IF i = c + 1 THEN n ELSE list[i]]
      <3> HIDE DEF c, Q
      <3>4. \A i \in 1..c : list[i] \in Q
        BY <3>3
      <3>5. longer \in [1..(c + 1) -> R]
        <4>1. \A i \in 1..(c + 1) : i # c + 1 => i \in 1..c
          BY <3>2
        <4>2. QED
          BY <2>4, <3>1, <3>4, <4>1
      <3>6. ASSUME NEW i \in 1..(c + 1), NEW j \in 1..(c + 1), i < j
            PROVE  longer[i] < longer[j]
        <4>1. i \in 1..c /\ longer[i] = list[i]
          BY <3>2, <3>6
        <4>2. CASE j = c + 1
          <5>1. list[i] \in 0..(n - 1)
            BY <2>1, <3>4, <4>1
          <5>2. list[i] < n
            BY <5>1, n \in Nat DEF T
          <5>3. longer[j] = n
            BY <4>2
          <5>4. QED
            BY <4>1, <5>2, <5>3
        <4>3. CASE j # c + 1
          <5>1. j \in 1..c /\ longer[j] = list[j]
            BY <3>2, <4>3
          <5>2. QED
            BY <3>3, <3>6, <4>1, <5>1 DEF Ascending
        <4>4. QED
          BY <4>2, <4>3
      <3>7. Ascending(longer)
        BY <3>6 DEF Ascending
      <3>8. QED
        BY <3>2, <3>5, <3>7 DEF Enumerations
    <2>5. QED
      BY <2>3, <2>4
  <1>3. T = Nat
    <2> HIDE DEF T
    <2>1. T \in SUBSET Nat
      BY DEF T
    <2>2. QED
      BY <1>1, <1>2, <2>1, SetInduction
  <1>4. PICK n \in Nat : \A x \in S : x < n
    BY Bounded
  <1>5. S \in SUBSET (0..(n - 1))
    BY <1>4
  <1>6. QED
    BY <1>3, <1>5

\* The listed modules are there.
LEMMA ListedIsPresent ==
    ASSUME NEW dir
    PROVE  /\ Listing(dir) \in [1..Cardinality(Present(dir)) -> Present(dir)]
           /\ Ascending(Listing(dir))
  <1>1. Present(dir) \in SUBSET Nat /\ IsFiniteSet(Present(dir))
    BY GenerationAssumption, FS_Subset DEF Present
  <1>2. Enumerations(Present(dir)) # {}
    BY <1>1, Enumerable
  <1>3. QED
    BY <1>2 DEF Enumerations, Listing

\* As long as nobody edits the sources, what the run has in hand is what they
\* give: the build has the modules of the sources, whatever older ones lie
\* beside them.
Built == \A f \in Files : tree[f] # Absent => dist[f] = tree[f]

FreshInv ==
    /\ dist = [f \in Files |-> dist[f]]
    /\ ~edited /\ phase # "idle" =>
          /\ Built
          /\ phase # "compiled" => operations = Exports(tree, Listing(tree))
          /\ phase \in {"relisted", "output"} => names = Listing(tree)
          /\ phase = "output" => schemas = SchemasOf(tree, names, operations)
    /\ OkMeansFresh

\* The build and the sources export the same.
LEMMA BuiltExportsTheSame ==
    ASSUME Built PROVE Exports(dist, Listing(tree)) = Exports(tree, Listing(tree))
  <1> DEFINE list == Listing(tree)
  <1>1. \A i \in DOMAIN list : dist[list[i]] = tree[list[i]]
    BY ListedIsPresent DEF Built, Present
  <1>2. [i \in DOMAIN list |-> dist[list[i]]] = [i \in DOMAIN list |-> tree[list[i]]]
    BY <1>1
  <1>3. QED
    BY <1>2 DEF Exports

\* If all four files are as rendered from unedited sources, they are fresh.
LEMMA RenderedIsFresh ==
    ASSUME artifacts' = [a \in Artifacts |-> artifacts'[a]],
           \A k \in 1..4 : artifacts'[Order[k]] = Rendered[Order[k]],
           UNCHANGED tree,
           operations = Exports(tree, Listing(tree)), names = Listing(tree),
           schemas = SchemasOf(tree, names, operations)
    PROVE  artifacts' = Fresh(tree)'
  <1>1. /\ artifacts'["manifest"] = IdsOf(operations)
        /\ artifacts'["registry"] = names
        /\ artifacts'["operations"] = names
        /\ artifacts'["schemas"] = schemas
    BY FourArtifacts DEF Rendered
  <1>2. Fresh(tree)' = Fresh(tree)
    OBVIOUS
  <1>3. Fresh(tree) = [manifest |-> IdsOf(operations), registry |-> names,
                       operations |-> names, schemas |-> schemas]
    BY DEF Fresh
  <1>4. QED
    BY <1>1, <1>2, <1>3, FourArtifacts

\* The last visit: a run that ends well has found or made every file fresh.
LEMMA VisitFresh == GenerationInv /\ FreshInv /\ Visit => FreshInv'
  <1> SUFFICES ASSUME GenerationInv, FreshInv, Visit PROVE FreshInv'
    OBVIOUS
  <1>1. /\ phase = "output" /\ next \in 1..4 /\ VisitedUpTo(next)
        /\ mode \in {"generate", "check"} /\ outcome = "none"
        /\ UNCHANGED <<tree, dist, mode, edited>>
    BY DEF Visit, GenerationInv, history
  <1>2. PICK ok \in BOOLEAN :
           /\ WriteOrCheck(Order[next], ok)
           /\ IF next < Len(Order)
              THEN /\ next' = next + 1 /\ inSync' = (inSync /\ ok)
                   /\ UNCHANGED <<phase, outcome, operations, names, schemas>>
              ELSE End(IF inSync /\ ok THEN "ok" ELSE "drift")
    BY DEF Visit
  <1>3. CASE next < 4
    <2>1. UNCHANGED <<phase, outcome, operations, names, schemas>>
      BY <1>2, <1>3, FourArtifacts
    <2>2. QED
      BY <1>1, <2>1 DEF FreshInv, Built, OkMeansFresh
  <1>4. CASE next = 4
    <2>1. End(IF inSync /\ ok THEN "ok" ELSE "drift")
      BY <1>2, <1>4, FourArtifacts
    <2>2. ASSUME inSync, ok, ~edited PROVE artifacts' = Fresh(tree)'
      <3>1. /\ artifacts' = [a \in Artifacts |-> artifacts'[a]]
            /\ artifacts'[Order[next]] = Rendered[Order[next]]
            /\ \A k \in 1..4 : k # next => artifacts'[Order[k]] = artifacts[Order[k]]
        BY <1>1, <1>2, <2>2, WrittenOrChecked
      <3>2. \A k \in 1..4 : artifacts'[Order[k]] = Rendered[Order[k]]
        BY <1>1, <1>4, <2>2, <3>1 DEF VisitedUpTo
      <3>3. QED
        BY <1>1, <2>2, <3>1, <3>2, RenderedIsFresh DEF FreshInv
    <2>3. QED
      BY <1>1, <2>1, <2>2 DEF FreshInv, End, OkMeansFresh
  <1>5. QED
    BY <1>1, <1>3, <1>4

\* No step leaves the invariant.
LEMMA FreshStep == GenerationInv /\ FreshInv /\ [Next]_vars => FreshInv'
  <1> SUFFICES ASSUME GenerationInv, FreshInv, [Next]_vars PROVE FreshInv'
    OBVIOUS
  <1>1. ASSUME NEW m \in {"generate", "check"}, Start(m) PROVE FreshInv'
    BY <1>1 DEF Start, FreshInv, Built, OkMeansFresh
  <1>r. CASE Refuse
    BY <1>r DEF Refuse, End, history, FreshInv, OkMeansFresh
  <1>2. CASE Discover /\ ~Refuse
    <2>1. /\ operations' = Exports(dist, Listing(tree)) /\ phase = "compiled"
          /\ phase' = "discovered"
          /\ UNCHANGED <<tree, dist, outcome, edited>>
      BY <1>2 DEF Discover, history
    <2>2. outcome = "none"
      BY <2>1 DEF GenerationInv
    <2>3. QED
      BY <2>1, <2>2, BuiltExportsTheSame DEF FreshInv, Built, OkMeansFresh
  <1>3. CASE Relist /\ ~Refuse
    <2>1. /\ names' = Listing(tree) /\ phase = "discovered"
          /\ phase' = "relisted"
          /\ UNCHANGED <<tree, dist, outcome, edited, operations>>
      BY <1>3 DEF Relist, history
    <2>2. outcome = "none"
      BY <2>1 DEF GenerationInv
    <2>3. QED
      BY <2>1, <2>2 DEF FreshInv, Built, OkMeansFresh
  <1>4. CASE Describe /\ ~Refuse
    <2>1. /\ schemas' = SchemasOf(tree, names, operations) /\ phase = "relisted"
          /\ phase' = "output"
          /\ UNCHANGED <<tree, dist, outcome, edited, operations, names>>
      BY <1>4 DEF Describe
    <2>2. outcome = "none"
      BY <2>1 DEF GenerationInv
    <2>3. QED
      BY <2>1, <2>2 DEF FreshInv, Built, OkMeansFresh
  <1>5. CASE Interrupt
    BY <1>5 DEF Interrupt, End, history, FreshInv, OkMeansFresh
  <1>6. ASSUME NEW f \in Files, Edit(f) PROVE FreshInv'
    BY <1>6 DEF Edit, FreshInv, OkMeansFresh
  <1>7. CASE UNCHANGED vars
    <2>1. Fresh(tree)' = Fresh(tree)
      BY <1>7 DEF vars
    <2>2. QED
      BY <1>7, <2>1 DEF vars, work, history, FreshInv, Built, OkMeansFresh
  <1>8. QED
    BY <1>1, <1>r, <1>2, <1>3, <1>4, <1>5, <1>6, <1>7, VisitFresh DEF Next

\* A manifest:generate that succeeds and a manifest:check that reports OK mean
\* that all four files are those of the sources, unless these were edited
\* meanwhile: whatever a torn write, an old run or a deleted module has left.
THEOREM SuccessIsFresh == Spec => []OkMeansFresh
  <1>1. Init => FreshInv
    BY DEF Init, FreshInv, OkMeansFresh
  <1>2. FreshInv => OkMeansFresh
    BY DEF FreshInv
  <1>3. QED
    BY <1>1, <1>2, FreshStep, Invariance, PTL DEF Spec
===============================================================================
