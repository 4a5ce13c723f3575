-------------------------- MODULE MCDependencyGraph --------------------------
(***************************************************************************)
(* DependencyGraph on small instances.                                      *)
(***************************************************************************)
EXTENDS DependencyGraph, TLC

CONSTANTS n1, n2, n3, a, b

Symmetry == {p @@ q : p \in Permutations(Nodes), q \in Permutations(Names)}

\* When n1 is unlike the others.
SymmetryOthers == Permutations(Nodes \ {n1})

SymmetryEdits == {p @@ q : p \in Permutations(Nodes \ {n1}), q \in Permutations(Names)}

NamedByOne == {<<n1, a>>}
=============================================================================
