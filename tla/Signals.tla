------------------------------ MODULE Signals ------------------------------
(***************************************************************************)
(* src/src/libc/signal.c: signals of a Linux program on FreeBSD.  Numbers  *)
(* and SA_* bits differ; the shim converts them on the way in and, in an   *)
(* old action, out.  Handlers and sigset_t blocks are passed on as they    *)
(* are, so a handler is called with FreeBSD's number, and a set has        *)
(* FreeBSD's bits.                                                         *)
(*                                                                         *)
(* The kernel is external: an action per signal, the thread's mask, the    *)
(* pending signals, and the handlers that run.                             *)
(***************************************************************************)
EXTENDS Integers, Sequences, FiniteSets

CONSTANTS
  Signals,        \* signals the program uses, by their Linux numbers
  Handlers,       \* functions of the program
  DFL, IGN,       \* SIG_DFL and SIG_IGN, the same on both systems
  NONE,           \* no old action
  FlagSets,       \* the sets of SA_* bits it uses
  MaxDepth,       \* handlers that may run inside one another
  SignalFaults    \* whether it calls signal() for one of the Filtered

VARIABLES
  action,         \* FreeBSD's signal -> [handler, mask, flags]
  mask,           \* blocked signals
  pending,
  stack,          \* handlers that run: [sig, handler, saved mask], last first
  set,            \* the bits of the linux_sigset_t the program works on
  old,            \* the old action that the last call has stored
  dead            \* an assertion failed, or a signal ended the process

kernel == <<action, mask, pending, stack>>
vars   == <<kernel, set, old, dead>>

LINUX_SIGABRT == 6
LINUX_SIGBUS  == 7
LINUX_SIGSEGV == 11
LINUX_SIGPWR  == 30
LINUX_SIGSYS  == 31

Filtered == {LINUX_SIGABRT, LINUX_SIGSEGV, LINUX_SIGBUS, LINUX_SIGSYS}

\* <signal.h> of FreeBSD
SIGUSR1  == 30
SIGRTMIN == 65
SIGRTMAX == 126

ASSUME SignalConstantsOK ==
  /\ Signals \subseteq 1..SIGRTMAX
  /\ DFL # IGN /\ {DFL, IGN} \cap Handlers = {}
  /\ MaxDepth \in Nat
  /\ SignalFaults \in BOOLEAN

-----------------------------------------------------------------------------
(* Conversions                                                             *)

SameNumber == 0..6 \cup {8, 9, 11} \cup 13..16 \cup {21, 22} \cup 24..28
                \cup SIGRTMIN..SIGRTMAX

\* Variant: the case that is commented out at signal.c:36.
SignoWithUSR1(n) ==
  IF n \in SameNumber THEN n
  ELSE IF n \in {LINUX_SIGPWR, 10} THEN SIGUSR1
  ELSE -1

linux_to_freebsd_signo(n) ==
  IF n \in SameNumber THEN n
  ELSE IF n = LINUX_SIGPWR THEN SIGUSR1
  ELSE -1

Converted == {n \in Signals : linux_to_freebsd_signo(n) # -1}
Native    == {linux_to_freebsd_signo(n) : n \in Converted}

\* A word of flags is the set of its bits' numbers.  Linux's SA_NOCLDSTOP,
\* NOCLDWAIT, SIGINFO, ONSTACK, RESTART, NODEFER, RESETHAND, and FreeBSD's.
SigactionFlags == {<<0, 3>>, <<1, 5>>, <<2, 6>>, <<27, 0>>, <<28, 1>>,
                   <<30, 4>>, <<31, 2>>}

SA_RESTART   == 1
SA_RESETHAND == 2
SA_NODEFER   == 4

KNOWN_LINUX_SIGACTION_FLAGS == {p[1] : p \in SigactionFlags}

ASSUME FlagsKnown == \A F \in FlagSets : F \subseteq KNOWN_LINUX_SIGACTION_FLAGS

\* Variant: the bits are passed on as they are.
FlagsUnconverted(F) == F

linux_to_freebsd_sigaction_flags(F) ==
  {p[2] : p \in {q \in SigactionFlags : q[1] \in F}}

freebsd_to_linux_sigaction_flags(F) ==
  {p[1] : p \in {q \in SigactionFlags : q[2] \in F}}

linux_to_native_sigaction(a) ==
  [a EXCEPT !.flags = linux_to_freebsd_sigaction_flags(@)]
native_to_linux_sigaction(a) ==
  [a EXCEPT !.flags = freebsd_to_linux_sigaction_flags(@)]

-----------------------------------------------------------------------------
(* The kernel                                                              *)

NativeActions ==
  [handler : Handlers \cup {DFL, IGN}, mask : SUBSET Native,
   flags : SUBSET {p[2] : p \in SigactionFlags}]
OldActions ==
  [handler : Handlers \cup {DFL, IGN}, mask : SUBSET Native,
   flags : SUBSET KNOWN_LINUX_SIGACTION_FLAGS]
Frames  == [sig : Native, handler : Handlers, saved : SUBSET Native]
Default == [handler |-> DFL, mask |-> {}, flags |-> {}]

NativeSigaction(n, a) ==
  /\ action' = [action EXCEPT ![n] = a]
  /\ pending' = IF a.handler = IGN THEN pending \ {n} ELSE pending
  /\ UNCHANGED <<mask, stack>>

\* A handler is called with the kernel's number.
NativeDeliver(n) ==
  /\ ~dead /\ n \in pending \ mask /\ action[n].handler \in Handlers
  /\ Len(stack) < MaxDepth
  /\ pending' = pending \ {n}
  /\ stack' = <<[sig |-> n, handler |-> action[n].handler, saved |-> mask]>>
                \o stack
  /\ mask' = mask \cup action[n].mask
               \cup (IF SA_NODEFER \in action[n].flags THEN {} ELSE {n})
  /\ action' = IF SA_RESETHAND \in action[n].flags
               THEN [action EXCEPT ![n].handler = DFL] ELSE action
  /\ old' = NONE
  /\ UNCHANGED <<set, dead>>

NativeReturn ==
  /\ ~dead /\ stack # <<>>
  /\ mask' = Head(stack).saved
  /\ stack' = Tail(stack)
  /\ old' = NONE
  /\ UNCHANGED <<action, pending, set, dead>>

\* The default action of every signal the instance uses ends the process.
NativeDefault(n) ==
  /\ ~dead /\ n \in pending \ mask /\ action[n].handler = DFL
  /\ dead' = TRUE
  /\ old' = NONE
  /\ UNCHANGED <<kernel, set>>

-----------------------------------------------------------------------------
(* The calls                                                               *)

Init ==
  /\ action = [n \in Native |-> Default]
  /\ mask = {} /\ pending = {} /\ stack = <<>> /\ set = {}
  /\ old = NONE /\ dead = FALSE

\* assert(sig != -1) of kill, raise and signal
AssertConverted(s) ==
  /\ ~dead /\ s \in Signals \ Converted
  /\ dead' = TRUE
  /\ old' = NONE
  /\ UNCHANGED <<kernel, set>>

\* kill(getpid(), s) and raise(s)
Raise(s) ==
  /\ ~dead /\ s \in Converted
  /\ LET n == linux_to_freebsd_signo(s) IN
       pending' = IF action[n].handler = IGN THEN pending ELSE pending \cup {n}
  /\ old' = NONE
  /\ UNCHANGED <<action, mask, stack, set, dead>>

\* FreeBSD's signal(), like glibc's, restarts system calls.
Signal(s, h) ==
  /\ ~dead /\ s \in Converted
  /\ s \in Filtered => SignalFaults
  /\ NativeSigaction(linux_to_freebsd_signo(s),
       [handler |-> h, mask |-> {}, flags |-> {SA_RESTART}])
  /\ old' = NONE
  /\ UNCHANGED <<set, dead>>

\* sigaction on a signal that is not for the program: reported as done.
SigactionFiltered(s) ==
  /\ ~dead /\ s \in Signals \cap Filtered
  /\ old' \in {NONE, Default}
  /\ UNCHANGED <<kernel, set, dead>>

\* sigaction(s, act, oact); the program passes its set as sa_mask.
Sigaction(s, h, F) ==
  /\ ~dead /\ s \in Converted \ Filtered
  /\ LET n == linux_to_freebsd_signo(s)
         a == [handler |-> h, mask |-> set, flags |-> F]
     IN  /\ NativeSigaction(n, linux_to_native_sigaction(a))
         /\ old' \in {NONE, native_to_linux_sigaction(action[n])}
  /\ UNCHANGED <<set, dead>>

SigactionQuery(s) ==
  /\ ~dead /\ s \in Converted \ Filtered
  /\ old' = native_to_linux_sigaction(action[linux_to_freebsd_signo(s)])
  /\ UNCHANGED <<kernel, set, dead>>

Sigemptyset ==
  /\ ~dead /\ set' = {}
  /\ old' = NONE
  /\ UNCHANGED <<kernel, dead>>

Sigfillset ==
  /\ ~dead /\ set' = Native
  /\ old' = NONE
  /\ UNCHANGED <<kernel, dead>>

\* A signal that has no number here makes the native calls fail with EINVAL.
Sigaddset(s) ==
  /\ ~dead /\ s \in Converted
  /\ set' = set \cup {linux_to_freebsd_signo(s)}
  /\ old' = NONE
  /\ UNCHANGED <<kernel, dead>>

Sigdelset(s) ==
  /\ ~dead /\ s \in Converted
  /\ set' = set \ {linux_to_freebsd_signo(s)}
  /\ old' = NONE
  /\ UNCHANGED <<kernel, dead>>

\* SIG_BLOCK, SIG_UNBLOCK, SIG_SETMASK with the program's set
Sigprocmask ==
  /\ ~dead
  /\ mask' \in {mask \cup set, mask \ set, set}
  /\ old' = NONE
  /\ UNCHANGED <<action, pending, stack, set, dead>>

Next ==
  \/ \E s \in Signals :
       \/ AssertConverted(s) \/ Raise(s)
       \/ SigactionFiltered(s) \/ SigactionQuery(s)
       \/ Sigaddset(s) \/ Sigdelset(s)
       \/ \E h \in Handlers \cup {DFL, IGN} :
            \/ Signal(s, h)
            \/ \E F \in FlagSets : Sigaction(s, h, F)
  \/ Sigemptyset \/ Sigfillset \/ Sigprocmask
  \/ \E n \in Native : NativeDeliver(n) \/ NativeDefault(n)
  \/ NativeReturn

Spec == Init /\ [][Next]_vars

-----------------------------------------------------------------------------
(* Properties                                                              *)

TypeOK ==
  /\ action \in [Native -> NativeActions]
  /\ mask \in SUBSET Native
  /\ pending \in SUBSET Native
  /\ stack \in Seq(Frames)
  /\ set \in SUBSET Native
  /\ old \in {NONE} \cup OldActions
  /\ dead \in BOOLEAN

\* "we are not interested in letting things like Unity to register its own
\* segfault handlers" (signal.c:137): the actions of the faults stay what
\* they were when the program was started.
FaultsAreDefault ==
  \A s \in Converted \cap Filtered :
    action[linux_to_freebsd_signo(s)].handler = DFL

\* The program's signals as Linux has them: an unconverted signal is never
\* acted on, and a set of the program's is the numbers whose bits it has.
LinuxSet(S) == {s \in Converted : linux_to_freebsd_signo(s) \in S}

ToLinux(a) == [handler |-> a.handler, mask |-> LinuxSet(a.mask),
               flags |-> freebsd_to_linux_sigaction_flags(a.flags)]

LinuxAction == [s \in Converted |-> ToLinux(action[linux_to_freebsd_signo(s)])]
LinuxStack  == [i \in 1..Len(stack) |-> [stack[i] EXCEPT !.saved = LinuxSet(@)]]
LinuxOld    == IF old = NONE THEN NONE ELSE [old EXCEPT !.mask = LinuxSet(@)]

Linux == INSTANCE LinuxSignals WITH
  Signals <- Converted,      action  <- LinuxAction,
  mask <- LinuxSet(mask),    pending <- LinuxSet(pending),
  stack <- LinuxStack,       set     <- LinuxSet(set),
  old <- LinuxOld

\* What the shim does for a signal that it converts is what Linux does: the
\* action installed, the mask, the handler that runs with the number it was
\* registered for, and the old action that a later call reads back.
ImplementsLinux == Linux!Spec
=============================================================================
