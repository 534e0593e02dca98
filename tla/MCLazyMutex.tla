----------------------------- MODULE MCLazyMutex -----------------------------
(* LazyMutex on small instances. *)
EXTENDS LazyMutex, TLC

\* Threads and addresses are interchangeable.
Symmetry == Permutations(Threads) \cup Permutations(Objects)

=============================================================================
