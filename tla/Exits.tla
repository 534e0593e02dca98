-------------------------------- MODULE Exits --------------------------------
(***************************************************************************)
(* src/src/main.c: how a program starts and ends.  __libc_start_main calls *)
(* its constructors, registers fini and calls main; handlers that are      *)
(* registered for the end of a library or of the process are kept by       *)
(* FreeBSD.  On i386 each of them gets a box with the function and its     *)
(* argument, which a wrapper reads when it is called and then frees.       *)
(***************************************************************************)
EXTENDS Process, Sequences, SequencesExt

CONSTANTS
  Handlers,      \* functions with their arguments
  Libraries,     \* libraries that are loaded and unloaded
  Boxes          \* addresses malloc() can give

VARIABLES
  phase,         \* init, main, exit, ended
  loaded,        \* libraries
  atexit,        \* FreeBSD's list: [dso, box, asked] of those not called yet
  wrapper_args,  \* per box: the handler in it
  boxes,         \* that are not free
  calling,       \* [entry, called]: the handler that runs, or NULL
  finalizing,    \* the library that __cxa_finalize was called for, or NULL
  exits_dead

exitsVars == <<phase, loaded, atexit, wrapper_args, boxes, calling, finalizing, exits_dead>>

-----------------------------------------------------------------------------
\* The program itself is never unloaded; fini is registered without a box.
PROGRAM == "program"
FINI    == "fini"

\* What is registered: the library it is for, the box it is in and what is asked for.
Entries ==
  [dso : Libraries \cup {PROGRAM}, library : Libraries \cup {PROGRAM},
   box : Boxes \cup {NULL}, asked : Handlers \cup {FINI}]

\* malloc() does not give a null pointer out as memory, and a handler that runs
\* is not taken for none.
ASSUME BoxesAssumption ==
  /\ NULL \notin Boxes
  /\ NULL \notin [entry : Entries, called : Handlers \cup {FINI}]

ExitsInit ==
  /\ phase = "init" /\ loaded = {} /\ atexit = <<>>
  /\ wrapper_args = [b \in Boxes |-> NULL] /\ boxes = {}
  /\ calling = NULL /\ finalizing = NULL /\ exits_dead = FALSE

ExitsLive == ~exits_dead /\ phase # "ended" /\ UNCHANGED exits_dead

Dsos == loaded \cup {PROGRAM}

dlopen(l) ==
  /\ ExitsLive /\ calling = NULL /\ finalizing = NULL /\ phase \in {"init", "main"}
  /\ l \notin loaded /\ loaded' = loaded \cup {l}
  /\ UNCHANGED <<phase, atexit, wrapper_args, boxes, calling, finalizing>>

-----------------------------------------------------------------------------
(* __cxa_atexit                                                            *)

\* Variant: FreeBSD is not told whose handler it is.
RegisterForProgram(l, h, b) ==
  atexit' = Append(atexit, [dso |-> PROGRAM, library |-> l, box |-> b, asked |-> h])

Register(l, h, b) ==
  atexit' = Append(atexit, [dso |-> l, library |-> l, box |-> b, asked |-> h])

\* Constructors, main and the handlers themselves register handlers, of
\* libraries that stay; without memory the wrapper's box is written at null.
__cxa_atexit(l, h) ==
  \/ /\ boxes = Boxes /\ ~exits_dead /\ exits_dead' = TRUE
     /\ UNCHANGED <<phase, loaded, atexit, wrapper_args, boxes, calling, finalizing>>
  \/ /\ ExitsLive /\ l \in Dsos \ {finalizing}
     /\ \E b \in Boxes \ boxes :
          /\ boxes' = boxes \cup {b}
          /\ wrapper_args' = [wrapper_args EXCEPT ![b] = h]
          /\ Register(l, h, b)
     /\ UNCHANGED <<phase, loaded, calling, finalizing>>

-----------------------------------------------------------------------------
(* The wrapper                                                             *)

OfFinalizing == {i \in DOMAIN atexit : finalizing = NULL \/ atexit[i].dso = finalizing}

Ending == finalizing # NULL \/ phase = "exit"

\* FreeBSD takes the handler that was registered last, of those it is to call.
Call_handler ==
  /\ ExitsLive /\ Ending /\ calling = NULL /\ OfFinalizing # {}
  /\ LET i == CHOOSE i \in OfFinalizing : \A j \in OfFinalizing : j <= i IN
       /\ atexit' = RemoveAt(atexit, i)
       /\ calling' = [entry  |-> atexit[i],
                      called |-> IF atexit[i].box = NULL THEN FINI
                                 ELSE wrapper_args[atexit[i].box]]
  /\ UNCHANGED <<phase, loaded, wrapper_args, boxes, finalizing>>

\* Variant: the box is left.
FreeNothing(b) == UNCHANGED boxes

FreeBox(b) == boxes' = boxes \ {b}

__cxa_atexit_cb_wrapper ==
  /\ ExitsLive /\ calling # NULL
  /\ calling' = NULL /\ FreeBox(calling.entry.box)
  /\ UNCHANGED <<phase, loaded, atexit, wrapper_args, finalizing>>

-----------------------------------------------------------------------------
(* The end of a library, and of the process                                *)

\* dlclose() has the library call __cxa_finalize for itself.
__cxa_finalize(l) ==
  /\ ExitsLive /\ phase = "main" /\ calling = NULL /\ finalizing = NULL
  /\ l \in loaded /\ finalizing' = l
  /\ UNCHANGED <<phase, loaded, atexit, wrapper_args, boxes, calling>>

Unload ==
  /\ ExitsLive /\ finalizing # NULL /\ calling = NULL /\ OfFinalizing = {}
  /\ loaded' = loaded \ {finalizing} /\ finalizing' = NULL
  /\ UNCHANGED <<phase, atexit, wrapper_args, boxes, calling>>

\* From the constructors to main.
__libc_start_main ==
  /\ ExitsLive /\ phase = "init" /\ phase' = "main"
  /\ atexit' = Append(atexit, [dso |-> PROGRAM, library |-> PROGRAM, box |-> NULL, asked |-> FINI])
  /\ UNCHANGED <<loaded, wrapper_args, boxes, calling, finalizing>>

exit ==
  /\ ExitsLive /\ phase = "main" /\ calling = NULL /\ finalizing = NULL
  /\ phase' = "exit"
  /\ UNCHANGED <<loaded, atexit, wrapper_args, boxes, calling, finalizing>>

\* All handlers have been called.
Ended ==
  /\ ExitsLive /\ phase = "exit" /\ calling = NULL /\ atexit = <<>>
  /\ phase' = "ended"
  /\ UNCHANGED <<loaded, atexit, wrapper_args, boxes, calling, finalizing>>

ExitsNext ==
  \/ \E l \in Libraries : dlopen(l) \/ __cxa_finalize(l)
  \/ \E l \in Libraries \cup {PROGRAM}, h \in Handlers : __cxa_atexit(l, h)
  \/ Call_handler \/ __cxa_atexit_cb_wrapper \/ Unload
  \/ __libc_start_main \/ exit \/ Ended

ExitsSpec == ExitsInit /\ [][ExitsNext]_exitsVars

-----------------------------------------------------------------------------
(* Properties                                                              *)

\* A handler is called with the function and the argument that it was
\* registered with, though boxes are freed and used again in between, and
\* while the library that they are in is loaded.
HandlersInTheirLibrary ==
  calling # NULL =>
    /\ calling.called = calling.entry.asked
    /\ calling.entry.library \in Dsos

\* Boxes that are in use are those of handlers to be called, one each, and of
\* the one that runs: a process that loads and unloads libraries for ever
\* keeps none.
BoxesFreed ==
  LET Waiting == {i \in DOMAIN atexit : atexit[i].box # NULL}
      Runs    == IF calling = NULL THEN {} ELSE {calling.entry.box} \ {NULL}
  IN /\ boxes = {atexit[i].box : i \in Waiting} \cup Runs
     /\ \A i \in Waiting : atexit[i].box \notin Runs
     /\ \A i, j \in Waiting : atexit[i].box = atexit[j].box => i = j

ExitsTypeOK ==
  /\ loaded \subseteq Libraries /\ boxes \subseteq Boxes
  /\ wrapper_args \in [Boxes -> Handlers \cup {NULL}]
  /\ atexit \in Seq(Entries)
  /\ calling \in [entry : Entries, called : Handlers \cup {FINI}] \cup {NULL}
  /\ finalizing \in Libraries \cup {NULL}

\* A handler waits with FreeBSD for the library it is in, which is loaded, and
\* its box has what is asked for; fini has none.
HandlersBoxed ==
  \A i \in DOMAIN atexit :
    LET e == atexit[i] IN
    /\ e.dso = e.library /\ e.library \in Dsos
    /\ e.asked = IF e.box = NULL THEN FINI ELSE wrapper_args[e.box]

\* The conjunction is inductive: it is proved in CallsProofs.
ExitsIInv == ExitsTypeOK /\ HandlersBoxed /\ HandlersInTheirLibrary /\ BoxesFreed
=============================================================================
