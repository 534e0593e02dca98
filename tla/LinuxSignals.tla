---------------------------- MODULE LinuxSignals ----------------------------
(***************************************************************************)
(* What a Linux program relies on when it handles signals: an action per   *)
(* signal, a mask, sets of signals that it builds, and handlers that run   *)
(* with the number they were registered for.  A call may be refused, and   *)
(* the process may end, at any time: what is done is done right.           *)
(***************************************************************************)
EXTENDS Integers, Sequences, FiniteSets

CONSTANTS
  Signals,    \* signals by their Linux numbers
  Handlers,   \* functions of the program
  DFL, IGN,   \* SIG_DFL and SIG_IGN
  NONE,       \* no old action
  FlagSets,   \* the sets of SA_* bits the program uses
  MaxDepth    \* handlers that may run inside one another

VARIABLES
  action,     \* signal -> [handler, mask, flags]
  mask,       \* blocked signals
  pending,
  stack,      \* handlers that run: [sig, handler, saved mask], last first
  set,        \* the sigset_t the program works on
  old,        \* the old action that the last call has stored
  dead

vars == <<action, mask, pending, stack, set, old, dead>>

\* Bits of sa_flags, by their numbers
SA_RESTART   == 28
SA_NODEFER   == 30
SA_RESETHAND == 31

Actions == [handler : Handlers \cup {DFL, IGN}, mask : SUBSET Signals,
            flags : FlagSets \cup {{SA_RESTART}}]
Default == [handler |-> DFL, mask |-> {}, flags |-> {}]

Init ==
  /\ action = [s \in Signals |-> Default]
  /\ mask = {} /\ pending = {} /\ stack = <<>> /\ set = {}
  /\ old = NONE /\ dead = FALSE

\* sigaction(s, a, NULL), sigaction(s, a, &old), signal
Change(s) ==
  /\ action'[s] \in Actions
  /\ action' = [action EXCEPT ![s] = action'[s]]
  /\ pending' = IF action'[s].handler = IGN THEN pending \ {s} ELSE pending
  /\ old' \in {NONE, action[s]}
  /\ UNCHANGED <<mask, stack, set, dead>>

Query(s) ==
  /\ old' = action[s]
  /\ UNCHANGED <<action, mask, pending, stack, set, dead>>

\* A refused sigaction that reports the default action.
QueryRefused ==
  /\ old' = Default
  /\ UNCHANGED <<action, mask, pending, stack, set, dead>>

ChangeSet ==
  /\ \/ set' = {} \/ set' = Signals
     \/ \E s \in Signals : set' \in {set \cup {s}, set \ {s}}
  /\ old' = NONE
  /\ UNCHANGED <<action, mask, pending, stack, dead>>

ChangeMask ==
  /\ mask' \in {mask \cup set, mask \ set, set}
  /\ old' = NONE
  /\ UNCHANGED <<action, pending, stack, set, dead>>

\* kill and raise; an ignored signal is dropped.
Send(s) ==
  /\ action[s].handler # IGN
  /\ pending' = pending \cup {s}
  /\ old' = NONE
  /\ UNCHANGED <<action, mask, stack, set, dead>>

Deliver(s) ==
  /\ s \in pending \ mask /\ action[s].handler \in Handlers
  /\ pending' = pending \ {s}
  /\ stack' = <<[sig |-> s, handler |-> action[s].handler, saved |-> mask]>>
                \o stack
  /\ mask' = mask \cup action[s].mask
               \cup (IF SA_NODEFER \in action[s].flags THEN {} ELSE {s})
  /\ action' = IF SA_RESETHAND \in action[s].flags
               THEN [action EXCEPT ![s].handler = DFL] ELSE action
  /\ old' = NONE
  /\ UNCHANGED <<set, dead>>

Return ==
  /\ stack # <<>>
  /\ mask' = Head(stack).saved
  /\ stack' = Tail(stack)
  /\ old' = NONE
  /\ UNCHANGED <<action, pending, set, dead>>

Die ==
  /\ dead' = TRUE
  /\ old' = NONE
  /\ UNCHANGED <<action, mask, pending, stack, set>>

Next ==
  /\ ~dead
  /\ \/ \E s \in Signals : \/ Change(s) \/ Query(s)
                           \/ Send(s) \/ Deliver(s)
     \/ QueryRefused \/ ChangeSet \/ ChangeMask \/ Return \/ Die

Spec == Init /\ [][Next]_vars
=============================================================================
