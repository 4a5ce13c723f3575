-------------------------- MODULE MCResourceLoading --------------------------
(***************************************************************************)
(* ResourceLoading on small instances.                                      *)
(***************************************************************************)
EXTENDS ResourceLoading, TLC

CONSTANTS n1, r1, r2, f, h

TwoChunks == [u \in Urls |-> 2]
HttpEmpty == [u \in Urls |-> IF u = h THEN 0 ELSE 2]

\* Neither is what a node begins with.
CachedOrOnDisk == {[keep |-> TRUE, asFile |-> FALSE], [keep |-> FALSE, asFile |-> TRUE]}
=============================================================================
