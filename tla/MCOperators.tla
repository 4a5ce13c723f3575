----------------------------- MODULE MCOperators -----------------------------
(***************************************************************************)
(* Operators on a small instance: s1 and s2 declare the operator a, s2 also *)
(* a function b, s3 has errors.  The addresses of objects are alike.        *)
(***************************************************************************)
EXTENDS Operators, TLC

CONSTANTS o1, o2, s1, s2, s3, a, b

GivenTo == {<<o1, s1>>, <<o1, s2>>, <<o1, NoSource>>, <<o2, s1>>, <<o2, s3>>}
NamedFor == {<<o1, a>>, <<o1, b>>, <<o1, NoName>>, <<o2, a>>}
Declared == {<<s1, a>>, <<s2, a>>}
DeclaredPlain == {<<s2, b>>}

Addresses == {p @@ q : p \in Permutations(Codes), q \in Permutations(Functions)}
=============================================================================
