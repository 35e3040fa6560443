----------------------------- MODULE MCMaliTrace -----------------------------
(* Symmetry of the threads for MaliTrace.                                   *)
EXTENDS MaliTrace, TLC

MCSymmetry == Permutations(Threads) \cup Permutations(Signals)

=============================================================================
