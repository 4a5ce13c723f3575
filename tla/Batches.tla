------------------------------- MODULE Batches -------------------------------
(***************************************************************************)
(* How MT::ParallelCall deals the slices of a container out to iterations  *)
(* of executeParallel: each iteration is a batch of consecutive slices.     *)
(***************************************************************************)
EXTENDS Integers

\* ParallelCall::addAdjustment: four batches for each core, at least one slice
\* in each.
BatchSize(count, cores) ==
  LET share == count \div (cores * 4)
  IN  IF share > 1 THEN share ELSE 1

\* A mutant of BatchCount: the last batch is forgotten when it is short.
BatchCountRoundedDown(count, cores) == count \div BatchSize(count, cores)

BatchCount(count, cores) ==
  LET size == BatchSize(count, cores)
  IN  (count + size - 1) \div size

\* ParallelCall::executeStub: the slices of an iteration; the last batch is
\* clipped.
Batch(count, cores, iteration) ==
  LET size == BatchSize(count, cores)
      start == (iteration % BatchCount(count, cores)) * size
      length == IF start + size > count THEN count - start ELSE size
  IN  start..(start + length - 1)

\* Each slice is in one batch, and in no other; no batch is empty or holds
\* anything else.
Partition(count, cores) ==
  LET batches == 0..(BatchCount(count, cores) - 1)
  IN  /\ \A s \in 0..(count - 1) : \E b \in batches :
           /\ s \in Batch(count, cores, b)
           /\ \A c \in batches : s \in Batch(count, cores, c) => c = b
      /\ \A b \in batches : /\ Batch(count, cores, b) # {}
                            /\ Batch(count, cores, b) \subseteq 0..(count - 1)
=============================================================================
