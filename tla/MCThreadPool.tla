---------------------------- MODULE MCThreadPool ----------------------------
(***************************************************************************)
(* ThreadPool on small instances.  The workers are interchangeable; the     *)
(* main thread is not.                                                      *)
(***************************************************************************)
EXTENDS ThreadPool, TLC

WorkerSymmetry == Permutations(Threads \ {MainThread})
=============================================================================
