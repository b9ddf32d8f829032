----------------------------- MODULE MCQueuePair -----------------------------
(* Instances of QueuePair for TLC.                                         *)
EXTENDS QueuePair, TLC

\* Requests of one kind can be swapped.  (Not for liveness.)
MCSymmetry ==
  Permutations(ZeroRequests) \union Permutations(Requests \ ZeroRequests)

=============================================================================
