---------------------------- MODULE MCDirStream ----------------------------
(* DirStream on small sets; the sets are interchangeable. *)
EXTENDS DirStream, TLC

Symmetry == Permutations(Threads) \cup Permutations(Streams)
              \cup Permutations(Dirs) \cup Permutations(Cells)
=============================================================================
