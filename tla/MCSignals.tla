----------------------------- MODULE MCSignals -----------------------------
(* Signals on small sets: SIGUSR1, SIGSEGV, SIGPWR. *)
EXTENDS Signals

SomeSignals  == {10, 11, 30}
SomeFlagSets == {{28, 30}, {31}}
=============================================================================
