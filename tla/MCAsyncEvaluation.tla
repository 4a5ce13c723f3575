-------------------------- MODULE MCAsyncEvaluation --------------------------
(***************************************************************************)
(* AsyncEvaluation on small instances: two dependencies and one worker.     *)
(***************************************************************************)
EXTENDS AsyncEvaluation, TLC
=============================================================================
