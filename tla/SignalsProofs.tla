---------------------------- MODULE SignalsProofs ----------------------------
(* What Signals promises, for any signals, handlers and sets of flags.     *)
EXTENDS Signals, TLAPS

\* A signal that is converted has the same number: Linux's 30 is its SIGPWR,
\* and FreeBSD's is the SIGUSR1 that stands in for it.
LEMMA SameNumbers ==
  /\ \A s \in Converted : linux_to_freebsd_signo(s) = s
  /\ Native = Converted
<1>1. \A s \in Signals : linux_to_freebsd_signo(s) # -1 => linux_to_freebsd_signo(s) = s
  BY DEF linux_to_freebsd_signo, LINUX_SIGPWR, SIGUSR1
<1> QED
  BY <1>1 DEF Native, Converted

\* No two bits of sa_flags have the same counterpart.
LEMMA FlagsPaired ==
  ASSUME NEW p \in SigactionFlags, NEW q \in SigactionFlags
  PROVE  p[1] = q[1] <=> p[2] = q[2]
BY DEF SigactionFlags

\* What goes in comes out again.
LEMMA FlagsBack ==
  ASSUME NEW F, F \subseteq KNOWN_LINUX_SIGACTION_FLAGS
  PROVE  freebsd_to_linux_sigaction_flags(linux_to_freebsd_sigaction_flags(F)) = F
<1>1. ASSUME NEW f \in F
      PROVE  f \in freebsd_to_linux_sigaction_flags(linux_to_freebsd_sigaction_flags(F))
  <2>1. PICK p \in SigactionFlags : f = p[1]
    BY <1>1 DEF KNOWN_LINUX_SIGACTION_FLAGS
  <2>2. p[2] \in linux_to_freebsd_sigaction_flags(F)
    BY <1>1, <2>1 DEF linux_to_freebsd_sigaction_flags
  <2> QED
    BY <2>1, <2>2 DEF freebsd_to_linux_sigaction_flags
<1>2. ASSUME NEW f \in freebsd_to_linux_sigaction_flags(linux_to_freebsd_sigaction_flags(F))
      PROVE  f \in F
  <2>1. PICK p \in SigactionFlags :
          f = p[1] /\ p[2] \in linux_to_freebsd_sigaction_flags(F)
    BY <1>2 DEF freebsd_to_linux_sigaction_flags
  <2>2. PICK q \in SigactionFlags : p[2] = q[2] /\ q[1] \in F
    BY <2>1 DEF linux_to_freebsd_sigaction_flags
  <2> QED
    BY <2>1, <2>2, FlagsPaired
<1> QED
  BY <1>1, <1>2

\* A bit is set on one side if its counterpart is on the other.
LEMMA FlagsSeen ==
  ASSUME NEW F, NEW p \in SigactionFlags
  PROVE  p[1] \in freebsd_to_linux_sigaction_flags(F) <=> p[2] \in F
BY FlagsPaired DEF freebsd_to_linux_sigaction_flags

LEMMA KnownFlags ==
  /\ \A F : linux_to_freebsd_sigaction_flags(F) \subseteq {p[2] : p \in SigactionFlags}
  /\ \A F : freebsd_to_linux_sigaction_flags(F) \subseteq KNOWN_LINUX_SIGACTION_FLAGS
  /\ {<<28, SA_RESTART>>, <<30, SA_NODEFER>>, <<31, SA_RESETHAND>>} \subseteq SigactionFlags
<1>1. {<<28, SA_RESTART>>, <<30, SA_NODEFER>>, <<31, SA_RESETHAND>>} \subseteq SigactionFlags
  BY DEF SigactionFlags, SA_RESTART, SA_NODEFER, SA_RESETHAND
<1> QED
  BY <1>1
  DEF linux_to_freebsd_sigaction_flags, freebsd_to_linux_sigaction_flags,
      KNOWN_LINUX_SIGACTION_FLAGS

-----------------------------------------------------------------------------
LEMMA SignalsStart == Init => TypeOK
<1> SUFFICES ASSUME Init PROVE TypeOK
  OBVIOUS
<1>1. dead \in BOOLEAN
  BY Zenon DEF Init
<1>2. Default \in NativeActions
  BY DEF Default, NativeActions
<1> QED
  BY <1>1, <1>2 DEF Init, TypeOK

\* An action is installed for a signal.
LEMMA Installs ==
  ASSUME TypeOK, NEW n \in Native, NEW a \in NativeActions, NativeSigaction(n, a),
         UNCHANGED <<set, dead>>, old' \in {NONE} \cup OldActions
  PROVE  TypeOK'
BY DEF TypeOK, NativeSigaction

\* The old action of a signal, as the program gets it.
LEMMA OldAction ==
  ASSUME TypeOK, NEW n \in Native
  PROVE  /\ native_to_linux_sigaction(action[n])
              = [handler |-> action[n].handler, mask |-> action[n].mask,
                 flags |-> freebsd_to_linux_sigaction_flags(action[n].flags)]
         /\ native_to_linux_sigaction(action[n]) \in OldActions
<1>1. action[n] \in [handler : Handlers \cup {DFL, IGN}, mask : SUBSET Native,
                     flags : SUBSET {p[2] : p \in SigactionFlags}]
  BY DEF TypeOK, NativeActions
<1>2. native_to_linux_sigaction(action[n])
        = [handler |-> action[n].handler, mask |-> action[n].mask,
           flags |-> freebsd_to_linux_sigaction_flags(action[n].flags)]
  BY <1>1 DEF native_to_linux_sigaction
<1> QED
  BY <1>1, <1>2, KnownFlags DEF OldActions

LEMMA Delivers ==
  ASSUME TypeOK, NEW n \in Native, NativeDeliver(n)
  PROVE  TypeOK'
<1>1. TypeOK
  OBVIOUS
<1>2. action[n] \in NativeActions /\ action[n].handler \in Handlers
  BY <1>1 DEF TypeOK, NativeDeliver
<1>3. mask' \in SUBSET Native /\ pending' \in SUBSET Native
  BY <1>1, <1>2 DEF TypeOK, NativeDeliver, NativeActions
<1>4. stack' \in Seq(Frames)
  <2>1. [sig |-> n, handler |-> action[n].handler, saved |-> mask] \in Frames
    BY <1>1, <1>2 DEF Frames, TypeOK
  <2> QED
    BY <1>1, <2>1 DEF NativeDeliver, TypeOK
<1>5. action' = action \/ action' = [action EXCEPT ![n].handler = DFL]
  BY DEF NativeDeliver
<1>6. action' \in [Native -> NativeActions]
  <2>1. [action[n] EXCEPT !.handler = DFL] \in NativeActions
    BY <1>2 DEF NativeActions
  <2> QED
    BY <1>1, <1>5, <2>1 DEF TypeOK
<1>7. set' \in SUBSET Native /\ old' = NONE /\ UNCHANGED dead
  BY <1>1 DEF NativeDeliver, TypeOK
<1>8. dead' \in BOOLEAN
  BY <1>1, <1>7, Zenon DEF TypeOK
<1> QED
  BY <1>3, <1>4, <1>6, <1>7, <1>8 DEF TypeOK

LEMMA Returns == TypeOK /\ NativeReturn => TypeOK'
<1> SUFFICES ASSUME TypeOK, NativeReturn PROVE TypeOK'
  OBVIOUS
<1>1. Head(stack) \in Frames /\ Tail(stack) \in Seq(Frames)
  BY DEF NativeReturn, TypeOK
<1>2. mask' \in SUBSET Native /\ stack' \in Seq(Frames)
  BY <1>1 DEF NativeReturn, Frames
<1>3. UNCHANGED <<action, pending, set, dead>> /\ old' = NONE
  BY DEF NativeReturn
<1> QED
  BY <1>2, <1>3 DEF TypeOK

\* Every step keeps the types.
LEMMA SignalsStep == TypeOK /\ [Next]_vars => TypeOK'
<1> SUFFICES ASSUME TypeOK, [Next]_vars PROVE TypeOK'
  OBVIOUS
<1>1. TypeOK
  OBVIOUS
<1>2. ASSUME UNCHANGED <<action, stack>>, mask' \in SUBSET Native, pending' \in SUBSET Native,
             set' \in SUBSET Native, old' \in {NONE} \cup OldActions,
             dead' = dead \/ dead' = TRUE
      PROVE  TypeOK'
  <2>1. dead' \in BOOLEAN
    BY <1>1, <1>2, Zenon DEF TypeOK
  <2> QED
    BY <1>2, <2>1 DEF TypeOK
<1>3. ASSUME NEW s \in Signals,
             \/ AssertConverted(s) \/ SigactionFiltered(s) \/ SigactionQuery(s)
             \/ Sigaddset(s) \/ Sigdelset(s)
      PROVE  TypeOK'
  <2>1. Default \in OldActions
    BY DEF Default, OldActions
  <2>2. UNCHANGED kernel /\ set' \in SUBSET Native /\ (dead' = dead \/ dead' = TRUE)
    BY <1>1, <1>3, SameNumbers
    DEF AssertConverted, SigactionFiltered, SigactionQuery, Sigaddset, Sigdelset, TypeOK
  <2>3. old' \in {NONE} \cup OldActions
    BY <1>1, <1>3, <2>1, SameNumbers, OldAction
    DEF AssertConverted, SigactionFiltered, SigactionQuery, Sigaddset, Sigdelset
  <2> QED
    BY <1>1, <1>2, <2>2, <2>3 DEF kernel, TypeOK
<1>4. CASE Sigemptyset \/ Sigfillset \/ Sigprocmask \/ UNCHANGED vars
  <2>1. /\ UNCHANGED <<action, stack, dead>> /\ mask' \in SUBSET Native
        /\ pending' \in SUBSET Native /\ set' \in SUBSET Native
        /\ old' \in {NONE} \cup OldActions
    BY <1>1, <1>4 DEF Sigemptyset, Sigfillset, Sigprocmask, vars, kernel, TypeOK
  <2> QED
    BY <1>2, <2>1
<1>5. ASSUME NEW n \in Native, NativeDefault(n) PROVE TypeOK'
  BY <1>1, <1>2, <1>5 DEF NativeDefault, kernel, TypeOK
<1>6. ASSUME NEW s \in Signals, Raise(s) PROVE TypeOK'
  BY <1>1, <1>2, <1>6, SameNumbers DEF Raise, TypeOK
<1>7. ASSUME NEW s \in Signals, NEW h \in Handlers \cup {DFL, IGN}, Signal(s, h)
      PROVE  TypeOK'
  <2>1. [handler |-> h, mask |-> {}, flags |-> {SA_RESTART}] \in NativeActions
    BY KnownFlags DEF NativeActions
  <2> QED
    BY <1>7, <2>1, Installs, SameNumbers DEF Signal
<1>8. ASSUME NEW s \in Signals, NEW h \in Handlers \cup {DFL, IGN}, NEW F \in FlagSets,
             Sigaction(s, h, F)
      PROVE  TypeOK'
  <2>1. linux_to_native_sigaction([handler |-> h, mask |-> set, flags |-> F])
          = [handler |-> h, mask |-> set, flags |-> linux_to_freebsd_sigaction_flags(F)]
    BY DEF linux_to_native_sigaction
  <2>2. [handler |-> h, mask |-> set, flags |-> linux_to_freebsd_sigaction_flags(F)]
          \in NativeActions
    BY <1>1, KnownFlags DEF NativeActions, TypeOK
  <2>3. old' \in {NONE} \cup OldActions
    BY <1>1, <1>8, OldAction, SameNumbers DEF Sigaction
  <2> QED
    BY <1>8, <2>1, <2>2, <2>3, Installs, SameNumbers DEF Sigaction
<1> QED
  BY <1>3, <1>4, <1>5, <1>6, <1>7, <1>8, Delivers, Returns DEF Next

-----------------------------------------------------------------------------
\* Actions, masks and sets hold FreeBSD's signals and bits only, and an old
\* action Linux's bits.
THEOREM SignalsTypeCorrect == Spec => []TypeOK
BY SignalsStart, SignalsStep, PTL DEF Spec

-----------------------------------------------------------------------------
(* Linux's signals.  As the numbers are the same, the refined state is the *)
(* state, but for the bits in sa_flags.                                    *)

SeenAs ==
  /\ LinuxSet(mask) = mask /\ LinuxSet(pending) = pending /\ LinuxSet(set) = set
  /\ LinuxStack = stack /\ LinuxOld = old
  /\ LinuxAction = [s \in Converted |->
       [handler |-> action[s].handler, mask |-> action[s].mask,
        flags |-> freebsd_to_linux_sigaction_flags(action[s].flags)]]

LEMMA Seen == TypeOK => SeenAs
<1> SUFFICES ASSUME TypeOK PROVE SeenAs
  OBVIOUS
<1>1. \A S \in SUBSET Native : LinuxSet(S) = S
  BY SameNumbers DEF LinuxSet
<1>2. LinuxStack = stack
  <2>1. stack \in Seq(Frames)
    BY DEF TypeOK
  <2>2. ASSUME NEW f \in Frames PROVE [f EXCEPT !.saved = LinuxSet(@)] = f
    BY <1>1 DEF Frames
  <2>3. \A i \in 1..Len(stack) : stack[i] \in Frames
    BY <2>1
  <2>4. LinuxStack = [i \in 1..Len(stack) |-> stack[i]]
    BY <2>2, <2>3 DEF LinuxStack
  <2> QED
    BY <2>1, <2>4
<1>3. LinuxOld = old
  <2>1. CASE old \in OldActions
    BY <1>1, <2>1 DEF OldActions, LinuxOld
  <2> QED
    BY <2>1 DEF LinuxOld, TypeOK
<1>4. \A s \in Converted : /\ action[s] \in NativeActions
                          /\ LinuxSet(action[s].mask) = action[s].mask
  BY <1>1, SameNumbers DEF TypeOK, NativeActions
<1>5. ASSUME NEW s \in Converted
      PROVE  ToLinux(action[linux_to_freebsd_signo(s)])
               = [handler |-> action[s].handler, mask |-> action[s].mask,
                  flags |-> freebsd_to_linux_sigaction_flags(action[s].flags)]
  BY <1>4, SameNumbers DEF ToLinux
<1> QED
  BY <1>1, <1>2, <1>3, <1>5 DEF TypeOK, LinuxAction, SeenAs

LEMMA SeenNext == TypeOK' => SeenAs'
BY Seen, PTL

LEMMA LinuxStart == Init => Linux!Init
<1> SUFFICES ASSUME Init PROVE Linux!Init
  OBVIOUS
<1>1. TypeOK
  BY SignalsStart DEF TypeOK
<1>2. freebsd_to_linux_sigaction_flags({}) = {}
  BY DEF freebsd_to_linux_sigaction_flags
<1>3. LinuxAction = [s \in Converted |-> Default]
  BY <1>1, <1>2, Seen, SameNumbers DEF Init, Default, SeenAs
<1> QED
  BY <1>1, <1>3, Seen DEF SeenAs, Init, Linux!Init, Linux!Default, Default

\* Nothing changes, and no old action is stored: as if a set had been asked
\* for what it has.
LEMMA NothingDone ==
  ASSUME SeenAs, SeenAs', ~dead,
         UNCHANGED <<action, mask, pending, stack, set, dead>>, old' = NONE,
         set \subseteq Converted
  PROVE  Linux!Next
<1>1. LinuxAction' = LinuxAction /\ LinuxStack' = LinuxStack /\ LinuxOld' = NONE
  BY DEF SeenAs
<1>2. \/ LinuxSet(set)' = {}
      \/ \E s \in Converted : LinuxSet(set)' \in {LinuxSet(set) \cup {s}, LinuxSet(set) \ {s}}
  <2>1. LinuxSet(set)' = set /\ LinuxSet(set) = set
    BY DEF SeenAs
  <2>2. CASE set = {}
    BY <2>1, <2>2
  <2>3. ASSUME NEW s \in set PROVE set = set \cup {s}
    OBVIOUS
  <2> QED
    BY <2>1, <2>2, <2>3
<1>3. Linux!ChangeSet
  BY <1>1, <1>2 DEF Linux!ChangeSet, SeenAs
<1> QED
  BY <1>3 DEF Linux!Next

\* An action is installed: sigaction() and signal().
LEMMA Changed ==
  ASSUME TypeOK, SeenAs, SeenAs', ~dead, NEW n \in Converted, NEW a \in NativeActions,
         NativeSigaction(n, a), UNCHANGED <<set, dead>>,
         freebsd_to_linux_sigaction_flags(a.flags) \in FlagSets \cup {{28}},
         old' \in {NONE, native_to_linux_sigaction(action[n])}
  PROVE  Linux!Next
<1>1. action' = [action EXCEPT ![n] = a] /\ action'[n] = a
  BY SameNumbers DEF NativeSigaction, TypeOK
<1>2. LinuxAction'[n] = [handler |-> a.handler, mask |-> a.mask,
                         flags |-> freebsd_to_linux_sigaction_flags(a.flags)]
  BY <1>1 DEF SeenAs
<1>3. LinuxAction'[n] \in Linux!Actions
  BY <1>2, SameNumbers DEF Linux!Actions, Linux!SA_RESTART, NativeActions
<1>4. LinuxAction' = [LinuxAction EXCEPT ![n] = LinuxAction'[n]]
  BY <1>1, SameNumbers DEF SeenAs, TypeOK
<1>5. LinuxOld' \in {NONE, LinuxAction[n]}
  BY OldAction, SameNumbers DEF SeenAs
<1>6. LinuxSet(pending)' = IF LinuxAction'[n].handler = IGN THEN LinuxSet(pending) \ {n}
                           ELSE LinuxSet(pending)
  BY <1>2 DEF SeenAs, NativeSigaction
<1>7. UNCHANGED <<LinuxSet(mask), LinuxStack, LinuxSet(set), dead>>
  BY DEF SeenAs, NativeSigaction
<1>8. Linux!Change(n)
  BY <1>3, <1>4, <1>5, <1>6, <1>7 DEF Linux!Change
<1> QED
  BY <1>8 DEF Linux!Next

\* A handler runs with the number that it was registered for.
LEMMA Delivered ==
  ASSUME TypeOK, SeenAs, SeenAs', NEW n \in Converted, NativeDeliver(n)
  PROVE  Linux!Next
<1>1. action[n] \in NativeActions
  BY SameNumbers DEF TypeOK
<1>2. LinuxAction[n] = [handler |-> action[n].handler, mask |-> action[n].mask,
                        flags |-> freebsd_to_linux_sigaction_flags(action[n].flags)]
  BY DEF SeenAs
<1>3. /\ Linux!SA_NODEFER \in LinuxAction[n].flags <=> SA_NODEFER \in action[n].flags
      /\ Linux!SA_RESETHAND \in LinuxAction[n].flags <=> SA_RESETHAND \in action[n].flags
  <2>1. <<30, SA_NODEFER>> \in SigactionFlags /\ <<31, SA_RESETHAND>> \in SigactionFlags
    BY KnownFlags
  <2>2. \A p \in SigactionFlags : p[1] \in LinuxAction[n].flags <=> p[2] \in action[n].flags
    BY <1>2, FlagsSeen
  <2>3. /\ 30 \in LinuxAction[n].flags <=> SA_NODEFER \in action[n].flags
        /\ 31 \in LinuxAction[n].flags <=> SA_RESETHAND \in action[n].flags
    BY <2>1, <2>2
  <2> QED
    BY <2>3 DEF Linux!SA_NODEFER, Linux!SA_RESETHAND
<1>4. LinuxAction' = IF Linux!SA_RESETHAND \in LinuxAction[n].flags
                     THEN [LinuxAction EXCEPT ![n].handler = DFL] ELSE LinuxAction
  <2>1. CASE SA_RESETHAND \notin action[n].flags
    BY <1>3, <2>1 DEF NativeDeliver, SeenAs
  <2>2. CASE SA_RESETHAND \in action[n].flags
    <3>1. action' = [action EXCEPT ![n].handler = DFL]
      BY <2>2 DEF NativeDeliver
    <3>2. /\ action'[n].handler = DFL /\ action'[n].mask = action[n].mask
          /\ action'[n].flags = action[n].flags
          /\ \A s \in Converted \ {n} : action'[s] = action[s]
      BY <1>1, <3>1, SameNumbers DEF TypeOK, NativeActions
    <3>3. LinuxAction'[n] = [LinuxAction[n] EXCEPT !.handler = DFL]
      BY <1>2, <3>2 DEF SeenAs
    <3> QED
      BY <1>3, <2>2, <3>2, <3>3 DEF SeenAs
  <2> QED
    BY <2>1, <2>2
<1>5. LinuxSet(mask)' = LinuxSet(mask) \cup LinuxAction[n].mask
                          \cup (IF Linux!SA_NODEFER \in LinuxAction[n].flags THEN {} ELSE {n})
  BY <1>2, <1>3 DEF SeenAs, NativeDeliver
<1>6. LinuxStack' = <<[sig |-> n, handler |-> LinuxAction[n].handler,
                       saved |-> LinuxSet(mask)]>> \o LinuxStack
  BY <1>2 DEF SeenAs, NativeDeliver
<1>7. /\ ~dead /\ n \in LinuxSet(pending) \ LinuxSet(mask)
      /\ LinuxAction[n].handler \in Handlers
      /\ LinuxSet(pending)' = LinuxSet(pending) \ {n}
      /\ LinuxOld' = NONE /\ UNCHANGED <<LinuxSet(set), dead>>
  BY <1>2 DEF SeenAs, NativeDeliver
<1>8. Linux!Deliver(n)
  BY <1>4, <1>5, <1>6, <1>7 DEF Linux!Deliver
<1> QED
  BY <1>7, <1>8 DEF Linux!Next

\* Every step is one of Linux's, or none.
LEMMA LinuxStep == TypeOK /\ TypeOK' /\ [Next]_vars => [Linux!Next]_(Linux!vars)
<1> SUFFICES ASSUME TypeOK, TypeOK', [Next]_vars PROVE [Linux!Next]_(Linux!vars)
  OBVIOUS
<1>1. TypeOK /\ SeenAs /\ SeenAs'
  BY Seen, SeenNext DEF TypeOK
<1>2. mask \subseteq Converted /\ set \subseteq Converted /\ stack \in Seq(Frames)
  BY <1>1, SameNumbers DEF TypeOK
<1>3. ASSUME ~dead, dead' = TRUE, old' = NONE, UNCHANGED <<kernel, set>> PROVE Linux!Next
  BY <1>1, <1>3 DEF SeenAs, kernel, Linux!Next, Linux!Die
<1>4. ASSUME NEW s \in Signals, AssertConverted(s) PROVE Linux!Next
  BY <1>3, <1>4 DEF AssertConverted
<1>5. ASSUME NEW n \in Native, NativeDefault(n) PROVE Linux!Next
  BY <1>3, <1>5 DEF NativeDefault
<1>6. ASSUME NEW s \in Signals, Raise(s) PROVE Linux!Next
  <2>1. s \in Converted /\ ~dead /\ old' = NONE /\ UNCHANGED <<action, mask, stack, set, dead>>
    BY <1>6 DEF Raise
  <2>2. pending' = IF action[s].handler = IGN THEN pending ELSE pending \cup {s}
    BY <1>6, <2>1, SameNumbers DEF Raise
  <2>3. CASE action[s].handler = IGN
    BY <1>1, <1>2, <2>1, <2>2, <2>3, NothingDone
  <2>4. CASE action[s].handler # IGN
    <3>1. LinuxAction[s].handler # IGN
      BY <1>1, <2>1, <2>4 DEF SeenAs
    <3>2. Linux!Send(s)
      BY <1>1, <2>1, <2>2, <2>4, <3>1 DEF SeenAs, Linux!Send
    <3> QED
      BY <2>1, <3>2 DEF Linux!Next
  <2> QED
    BY <2>3, <2>4
<1>7. ASSUME NEW s \in Signals, NEW h \in Handlers \cup {DFL, IGN}, Signal(s, h)
      PROVE  Linux!Next
  <2>1. [handler |-> h, mask |-> {}, flags |-> {SA_RESTART}] \in NativeActions
    BY KnownFlags DEF NativeActions
  <2>2. freebsd_to_linux_sigaction_flags({SA_RESTART}) = {28}
    <3>1. <<28, SA_RESTART>> \in SigactionFlags
      BY KnownFlags
    <3>2. \A p \in SigactionFlags : p[2] = SA_RESTART <=> p[1] = 28
      BY <3>1, FlagsPaired
    <3> QED
      BY <3>1, <3>2 DEF freebsd_to_linux_sigaction_flags
  <2> QED
    BY <1>1, <1>7, <2>1, <2>2, Changed, SameNumbers DEF Signal
<1>8. ASSUME NEW s \in Signals, NEW h \in Handlers \cup {DFL, IGN}, NEW F \in FlagSets,
             Sigaction(s, h, F)
      PROVE  Linux!Next
  <2>1. linux_to_native_sigaction([handler |-> h, mask |-> set, flags |-> F])
          = [handler |-> h, mask |-> set, flags |-> linux_to_freebsd_sigaction_flags(F)]
    BY DEF linux_to_native_sigaction
  <2>2. [handler |-> h, mask |-> set, flags |-> linux_to_freebsd_sigaction_flags(F)]
          \in NativeActions
    BY <1>1, KnownFlags DEF NativeActions, TypeOK
  <2>3. freebsd_to_linux_sigaction_flags(linux_to_freebsd_sigaction_flags(F)) = F
    BY FlagsKnown, FlagsBack
  <2> QED
    BY <1>1, <1>8, <2>1, <2>2, <2>3, Changed, SameNumbers DEF Sigaction
\* Reported as done, with or without an old action.
<1>9. ASSUME NEW s \in Signals, SigactionFiltered(s) PROVE Linux!Next
  <2>1. /\ ~dead /\ old' \in {NONE, Default}
        /\ UNCHANGED <<action, mask, pending, stack, set, dead>>
    BY <1>9 DEF SigactionFiltered, kernel
  <2>2. CASE old' = NONE
    BY <1>1, <1>2, <2>1, <2>2, NothingDone
  <2>3. CASE old' = Default
    <3>1. Linux!QueryRefused
      BY <1>1, <2>1, <2>3 DEF SeenAs, Linux!QueryRefused, Linux!Default, Default
    <3> QED
      BY <2>1, <3>1 DEF Linux!Next
  <2> QED
    BY <2>1, <2>2, <2>3
<1>10. ASSUME NEW s \in Signals, SigactionQuery(s) PROVE Linux!Next
  <2>1. /\ s \in Converted /\ ~dead /\ old' = native_to_linux_sigaction(action[s])
        /\ UNCHANGED <<action, mask, pending, stack, set, dead>>
    BY <1>10, SameNumbers DEF SigactionQuery, kernel
  <2>2. Linux!Query(s)
    BY <1>1, <2>1, OldAction, SameNumbers DEF SeenAs, Linux!Query
  <2> QED
    BY <2>1, <2>2 DEF Linux!Next
<1>11. ASSUME NEW s \in Signals, Sigaddset(s) \/ Sigdelset(s) PROVE Linux!Next
  <2>1. /\ s \in Converted /\ ~dead /\ old' = NONE /\ set' \in {set \cup {s}, set \ {s}}
        /\ UNCHANGED <<action, mask, pending, stack, dead>>
    BY <1>11, SameNumbers DEF Sigaddset, Sigdelset, kernel
  <2>2. Linux!ChangeSet
    BY <1>1, <2>1 DEF SeenAs, Linux!ChangeSet
  <2> QED
    BY <2>1, <2>2 DEF Linux!Next
<1>12. CASE Sigemptyset \/ Sigfillset
  <2>1. /\ ~dead /\ old' = NONE /\ set' \in {{}, Converted}
        /\ UNCHANGED <<action, mask, pending, stack, dead>>
    BY <1>12, SameNumbers DEF Sigemptyset, Sigfillset, kernel
  <2>2. Linux!ChangeSet
    BY <1>1, <2>1 DEF SeenAs, Linux!ChangeSet
  <2> QED
    BY <2>1, <2>2 DEF Linux!Next
<1>13. CASE Sigprocmask
  <2>1. Linux!ChangeMask
    BY <1>1, <1>13 DEF SeenAs, Linux!ChangeMask, Sigprocmask
  <2> QED
    BY <1>13, <2>1 DEF Linux!Next, Sigprocmask
<1>14. CASE NativeReturn
  <2>1. Linux!Return
    BY <1>1, <1>14 DEF SeenAs, Linux!Return, NativeReturn
  <2> QED
    BY <1>14, <2>1 DEF Linux!Next, NativeReturn
<1>15. CASE UNCHANGED vars
  BY <1>1, <1>15 DEF SeenAs, Linux!vars, vars, kernel
<1> QED
  BY <1>1, <1>4, <1>5, <1>6, <1>7, <1>8, <1>9, <1>10, <1>11, <1>12, <1>13, <1>14, <1>15,
     Delivered, SameNumbers
  DEF Next

\* What a program sees of its signals, those that are converted, is what it
\* would see on Linux.
THEOREM ImplementsLinuxCorrect == Spec => ImplementsLinux
<1> QED
  BY SignalsTypeCorrect, LinuxStart, LinuxStep, PTL DEF Spec, ImplementsLinux, Linux!Spec
=============================================================================
