------------------------------- MODULE MCEvents -------------------------------
(***************************************************************************)
(* Events on small instances.                                               *)
(***************************************************************************)
EXTENDS Events, TLC

CONSTANTS e1, h1, h2, m1, a

AllUse == {<<h1, "pre", a>>, <<h2, "post", a>>}
SomeSelect == {<<h2, a>>}
SomeNamed == {<<h1, a>>}
=============================================================================
