------------------------------ MODULE MCFutexes ------------------------------
(* Futexes with the word behind the futex free or in use. *)
EXTENDS Futexes, TLC

SomeUppers == {0, 1}
=============================================================================
