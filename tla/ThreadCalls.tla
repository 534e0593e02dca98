----------------------------- MODULE ThreadCalls -----------------------------
(***************************************************************************)
(* src/src/libthr/pthread.c: creating and joining threads.  On i386 a new  *)
(* thread gets a block with the routine and its argument, which the        *)
(* routine's wrapper reads and, when the routine returns, frees.           *)
(***************************************************************************)
EXTENDS Process, LinuxNumbers

CONSTANTS
  Cells,      \* addresses malloc() can give
  Arguments   \* for the routines

VARIABLES
  stage,      \* per thread: none, started, running, ended
  cell,       \* per thread: the block it was created with
  given, got, \* per thread: its argument, and the one its routine has seen
  value,      \* per thread: what it has ended with
  wargs,      \* per block: what is in it
  in_use,     \* blocks that are not free
  told,       \* what the last call has told: its error, and the value that
              \* a joined thread had, and has for the caller
  calls_dead

callsVars == <<stage, cell, given, got, value, wargs, in_use, told, calls_dead>>

-----------------------------------------------------------------------------
PTHREAD_CANCELED == 1
LINUX_PTHREAD_CANCELED == -1

\* What a routine may return, FreeBSD's PTHREAD_CANCELED among it, and a mark
\* for the threads that were cancelled.
Returned   == {0, 1}
Cancelled == 2
\* FreeBSD's numbers of errors.
EAGAIN == 35
ETIMEDOUT == 60
EDEADLK == 11

Nothing == [err |-> 0, was |-> 0, value |-> 0]

CallsTypeOK ==
  /\ stage \in [Threads -> {"none", "started", "running", "ended"}]
  /\ cell \in [Threads -> Cells \cup {NULL}]
  /\ given \in [Threads -> Arguments \cup {NULL}]
  /\ got \in [Threads -> Arguments \cup {NULL}]
  /\ value \in [Threads -> Returned \cup {Cancelled, NULL}]
  /\ wargs \in [Cells -> Arguments \cup {NULL}]
  /\ in_use \subseteq Cells
  /\ told \in [err : Int, was : Int, value : Int]
  /\ calls_dead \in BOOLEAN

CallsInit ==
  /\ stage = [t \in Threads |-> "none"]
  /\ cell = [t \in Threads |-> NULL] /\ value = [t \in Threads |-> NULL]
  /\ given = [t \in Threads |-> NULL] /\ got = [t \in Threads |-> NULL]
  /\ wargs = [c \in Cells |-> NULL] /\ in_use = {}
  /\ told = Nothing /\ calls_dead = FALSE

CallsLive == ~calls_dead /\ UNCHANGED calls_dead

CallsDie ==
  /\ ~calls_dead /\ calls_dead' = TRUE
  /\ UNCHANGED <<stage, cell, given, got, value, wargs, in_use, told>>

-----------------------------------------------------------------------------
(* pthread_create                                                          *)

\* Variant: the block is on the stack of the thread that calls.
OnStack(c) == UNCHANGED in_use

Malloc(c) == in_use' = in_use \cup {c}

\* FreeBSD's pthread_create() may fail, and the block is left.
pthread_create(t, arg) ==
  \/ in_use = Cells /\ CallsDie
  \/ /\ CallsLive /\ stage[t] = "none"
     /\ \E c \in Cells \ in_use :
          /\ Malloc(c) /\ wargs' = [wargs EXCEPT ![c] = arg]
          /\ \/ /\ stage' = [stage EXCEPT ![t] = "started"]
                /\ cell' = [cell EXCEPT ![t] = c]
                /\ given' = [given EXCEPT ![t] = arg]
                /\ told' = Nothing
             \/ /\ told' = [Nothing EXCEPT !.err = EAGAIN]
                /\ UNCHANGED <<stage, cell, given>>
     /\ UNCHANGED <<got, value>>

\* The wrapper calls the routine.
Call(t) ==
  /\ CallsLive /\ stage[t] = "started"
  /\ stage' = [stage EXCEPT ![t] = "running"]
  /\ got' = [got EXCEPT ![t] = wargs[cell[t]]]
  /\ UNCHANGED <<cell, given, value, wargs, in_use, told>>

Ends(t, v) ==
  /\ CallsLive /\ stage[t] = "running"
  /\ stage' = [stage EXCEPT ![t] = "ended"]
  /\ value' = [value EXCEPT ![t] = v]
  /\ UNCHANGED <<cell, given, got, wargs, told>>

\* Back in the wrapper.
Return(t) == \E v \in Returned : Ends(t, v) /\ in_use' = in_use \ {cell[t]}

\* pthread_exit() and pthread_cancel() do not go back to the wrapper.
Exit(t)   == \E v \in Returned : Ends(t, v) /\ UNCHANGED in_use
Cancel(t) == Ends(t, Cancelled) /\ UNCHANGED in_use

-----------------------------------------------------------------------------
(* pthread_join and pthread_timedjoin_np                                   *)

Native(v) == IF v = Cancelled THEN PTHREAD_CANCELED ELSE v

\* A thread that has ended with (void*)1 is told to have been cancelled, as
\* that is FreeBSD's number.
TellsJoined(v) == IF v = PTHREAD_CANCELED THEN LINUX_PTHREAD_CANCELED ELSE v

Joined(t) ==
  /\ CallsLive /\ stage[t] = "ended"
  /\ told' = [err |-> 0, was |-> value[t], value |-> TellsJoined(Native(value[t]))]
  /\ stage' = [stage EXCEPT ![t] = "none"]
  /\ cell' = [cell EXCEPT ![t] = NULL] /\ value' = [value EXCEPT ![t] = NULL]
  /\ given' = [given EXCEPT ![t] = NULL] /\ got' = [got EXCEPT ![t] = NULL]
  /\ UNCHANGED <<wargs, in_use>>

Tells(err) ==
  /\ CallsLive /\ told' = [Nothing EXCEPT !.err = err]
  /\ UNCHANGED <<stage, cell, given, got, value, wargs, in_use>>

\* A thread that joins itself is told FreeBSD's number.
pthread_join(t) ==
  \/ Joined(t)
  \/ stage[t] = "running" /\ Tells(EDEADLK)

pthread_timedjoin_np(t) ==
  \/ Joined(t)
  \/ stage[t] = "running" /\ Tells(native_to_linux_errno(EDEADLK))
  \/ stage[t] \in {"started", "running"} /\ Tells(native_to_linux_errno(ETIMEDOUT))

CallsNext ==
  \E t \in Threads :
    \/ \E arg \in Arguments : pthread_create(t, arg)
    \/ Call(t) \/ Return(t) \/ Exit(t) \/ Cancel(t)
    \/ pthread_join(t) \/ pthread_timedjoin_np(t)

CallsSpec == CallsInit /\ [][CallsNext]_callsVars

-----------------------------------------------------------------------------
(* Properties                                                              *)

\* Every routine is called with the argument its own thread was created
\* with, though the blocks are freed by other threads and used again.
OwnArgument ==
  \A t \in Threads : stage[t] \in {"running", "ended"} => got[t] = given[t]

\* No two threads that still need their block have the same one, and it has
\* not been freed.
CellsApart ==
  \A t \in Threads : stage[t] \in {"started", "running"} =>
    /\ cell[t] \in in_use
    /\ stage[t] = "started" => wargs[cell[t]] = given[t]
    /\ \A u \in Threads \ {t} : stage[u] \in {"started", "running"} => cell[u] # cell[t]
=============================================================================
