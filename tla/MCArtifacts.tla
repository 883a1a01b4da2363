------------------------------ MODULE MCArtifacts ------------------------------
(* ArtifactGeneration for TLC: two module names, modules of none, one or two *)
(* operations, an operation whose input type changed ("a2"), and one whose   *)
(* id the corpora do not have ("x").                                         *)
EXTENDS ArtifactGeneration

MCOp(id, type) == [id |-> id, type |-> type]

MCContents ==
    {<<>>, <<MCOp("a", 1)>>, <<MCOp("a", 2)>>, <<MCOp("b", 1)>>,
     <<MCOp("a", 1), MCOp("b", 1)>>, <<MCOp("x", 1)>>}
===============================================================================
