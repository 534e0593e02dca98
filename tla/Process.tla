------------------------------- MODULE Process -------------------------------
(* A process that runs on the shim: its threads, and the null pointer.     *)
CONSTANTS Threads, NULL
=============================================================================
