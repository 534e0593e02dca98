---------------------------- MODULE FutexesProofs ----------------------------
(* What Futexes promises, for any number of threads and any words behind   *)
(* the futex.                                                              *)
EXTENDS Futexes, TLAPS

\* A wait that a signal or a timeout has ended, or that was woken, tells an
\* errno of Linux's.
LEMMA ErrnoOfWaits ==
  /\ native_to_linux_errno(0) = 0
  /\ native_to_linux_errno(EINTR) = EINTR
  /\ native_to_linux_errno(ETIMEDOUT) = ETIMEDOUT_LINUX
<1>1. \E p \in Errnos : p[2] = ETIMEDOUT
  BY DEF Errnos, ETIMEDOUT
<1>2. \A p \in Errnos : p[2] = ETIMEDOUT => p[1] = ETIMEDOUT_LINUX
  BY DEF Errnos, ETIMEDOUT, ETIMEDOUT_LINUX
<1>3. \A e \in {0, EINTR} : ~ \E p \in Errnos : p[2] = e
  BY DEF Errnos, EINTR
<1> QED
  BY <1>1, <1>2, <1>3 DEF native_to_linux_errno

\* Every errno told is a number.
LEMMA ErrnoIsInt ==
  ASSUME NEW e \in Int
  PROVE  native_to_linux_errno(e) \in Int
<1>1. \A p \in Errnos : p[1] \in Int
  BY DEF Errnos
<1> QED
  BY <1>1 DEF native_to_linux_errno

-----------------------------------------------------------------------------
\* The invariants hold at the start.
LEMMA InitIInv == Init => IInv
<1> SUFFICES ASSUME Init PROVE IInv
  OBVIOUS
<1>1. TypeOK
  <2>1. word \in 0..2 /\ upper \in Uppers
    BY DEF Init
  <2>2. pc \in [Threads -> {"out", "enter", "mark", "call", "queued", "asleep",
                           "came", "in", "wake"}]
    BY DEF Init
  <2>3. timed \in [Threads -> BOOLEAN] /\ dead \in BOOLEAN
    BY Zenon DEF Init
  <2>4. errno \in [Threads -> Int]
    BY DEF Init
  <2> QED
    BY <2>1, <2>2, <2>3, <2>4 DEF TypeOK
<1>2. MutexOK
  BY DEF Init, MutexOK, Held
<1>3. NoLostWakeUp /\ WaitsAreUnderstood
  BY DEF Init, NoLostWakeUp, Asleep, WaitsAreUnderstood
<1> QED
  BY <1>1, <1>2, <1>3 DEF IInv

\* The state keeps its shape.
LEMMA TypeStep == TypeOK /\ [Next]_vars => TypeOK'
<1> SUFFICES ASSUME TypeOK, [Next]_vars PROVE TypeOK'
  OBVIOUS
<1> USE DEF TypeOK, Goes, Live
<1>1. ASSUME NEW t \in Threads, Lock(t) PROVE TypeOK'
  BY <1>1 DEF Lock
<1>2. ASSUME NEW t \in Threads, Step(t) PROVE TypeOK'
  <2>1. CASE Enter(t)              BY <2>1 DEF Enter
  <2>2. CASE Mark(t)               BY <2>2 DEF Mark
  <2>3. CASE Came(t)               BY <2>3 DEF Came
  <2>4. CASE Unlock(t)             BY <2>4 DEF Unlock
  <2>5. CASE FUTEX_WAIT_PRIVATE(t) BY <2>5 DEF FUTEX_WAIT_PRIVATE
  <2>6. CASE UMTX_OP_WAIT(t)       BY <2>6, ErrnoIsInt DEF UMTX_OP_WAIT, Tells
  <2>7. CASE FUTEX_WAKE_PRIVATE(t) BY <2>7, ErrnoIsInt DEF FUTEX_WAKE_PRIVATE, Tells
  <2> QED BY <1>2, <2>1, <2>2, <2>3, <2>4, <2>5, <2>6, <2>7 DEF Step
<1>3. ASSUME NEW t \in Threads, WaitFails(t) PROVE TypeOK'
  BY <1>3, ErrnoIsInt DEF WaitFails, Tells, EINTR, ETIMEDOUT
<1>4. ASSUME NEW t \in Threads, OtherCalls(t) PROVE TypeOK'
  <2>1. CASE FUTEX_other(t)   BY <2>1, ErrnoIsInt DEF FUTEX_other, Tells, ENOSYS
  <2>2. CASE CAPGET(t)        BY <2>2, ErrnoIsInt DEF CAPGET, Tells, EPERM
  <2>3. CASE UNIMPLEMENTED(t) BY <2>3 DEF UNIMPLEMENTED
  <2>4. ASSUME NEW own \in BOOLEAN, NEW sig \in {0, 9}, TGKILL(t, own, sig) PROVE TypeOK'
    <3>1. dead' \in BOOLEAN
      BY <2>4, Zenon DEF TGKILL
    <3>2. UNCHANGED <<word, upper, pc, timed, errno>>
      BY <2>4, Zenon DEF TGKILL
    <3> QED
      BY <3>1, <3>2
  <2> QED BY <1>4, <2>1, <2>2, <2>3, <2>4 DEF OtherCalls
<1>5. CASE Scribble
  BY <1>5 DEF Scribble
<1>6. CASE UNCHANGED vars
  BY <1>6 DEF vars
<1> QED
  BY <1>1, <1>2, <1>3, <1>4, <1>5, <1>6 DEF Next

\* The word says whether the mutex is held, and one thread holds it.
LEMMA MutexStep == TypeOK /\ MutexOK /\ [Next]_vars => MutexOK'
<1> SUFFICES ASSUME TypeOK, MutexOK, [Next]_vars PROVE MutexOK'
  OBVIOUS
<1> USE DEF TypeOK, MutexOK, Held, Goes, Live
<1>1. ASSUME NEW t \in Threads, Lock(t) PROVE MutexOK'
  BY <1>1 DEF Lock
<1>2. ASSUME NEW t \in Threads, Step(t) PROVE MutexOK'
  <2>1. CASE Enter(t)              BY <2>1 DEF Enter
  <2>2. CASE Mark(t)               BY <2>2 DEF Mark
  <2>3. CASE Came(t)               BY <2>3 DEF Came
  <2>4. CASE Unlock(t)             BY <2>4 DEF Unlock
  <2>5. CASE FUTEX_WAIT_PRIVATE(t) BY <2>5 DEF FUTEX_WAIT_PRIVATE
  <2>6. CASE UMTX_OP_WAIT(t)       BY <2>6 DEF UMTX_OP_WAIT
  <2>7. CASE FUTEX_WAKE_PRIVATE(t) BY <2>7 DEF FUTEX_WAKE_PRIVATE, InQueue
  <2> QED BY <1>2, <2>1, <2>2, <2>3, <2>4, <2>5, <2>6, <2>7 DEF Step
<1>3. ASSUME NEW t \in Threads, WaitFails(t) PROVE MutexOK'
  BY <1>3 DEF WaitFails
<1>4. ASSUME NEW t \in Threads, OtherCalls(t) PROVE MutexOK'
  BY <1>4 DEF OtherCalls, FUTEX_other, CAPGET, TGKILL, UNIMPLEMENTED
<1>5. CASE Scribble
  BY <1>5 DEF Scribble
<1>6. CASE UNCHANGED vars
  BY <1>6 DEF vars
<1> QED
  BY <1>1, <1>2, <1>3, <1>4, <1>5, <1>6 DEF Next

\* A thread falls asleep on a marked word only; the mark goes with a thread
\* that is about to wake, and a thread that is on its way stays so until it
\* sets the mark again or has woken another.
LEMMA WakeStep == TypeOK /\ NoLostWakeUp /\ [Next]_vars => NoLostWakeUp'
<1> SUFFICES ASSUME TypeOK, NoLostWakeUp, [Next]_vars PROVE NoLostWakeUp'
  OBVIOUS
<1> USE DEF TypeOK, NoLostWakeUp, Asleep, OnItsWay, Goes, Live
<1>1. ASSUME NEW t \in Threads, Lock(t) PROVE NoLostWakeUp'
  BY <1>1 DEF Lock
<1>2. ASSUME NEW t \in Threads, Step(t) PROVE NoLostWakeUp'
  <2>1. CASE Enter(t)              BY <2>1 DEF Enter
  <2>2. CASE Mark(t)               BY <2>2 DEF Mark
  <2>3. CASE Came(t)               BY <2>3 DEF Came
  <2>4. CASE Unlock(t)             BY <2>4 DEF Unlock
  <2>5. CASE FUTEX_WAIT_PRIVATE(t) BY <2>5 DEF FUTEX_WAIT_PRIVATE
  <2>6. CASE UMTX_OP_WAIT(t)       BY <2>6, ErrnoOfWaits DEF UMTX_OP_WAIT, Tells, LongIs
  <2>7. CASE FUTEX_WAKE_PRIVATE(t)
    BY <2>7, ErrnoOfWaits DEF FUTEX_WAKE_PRIVATE, InQueue, Tells, ETIMEDOUT_LINUX
  <2> QED BY <1>2, <2>1, <2>2, <2>3, <2>4, <2>5, <2>6, <2>7 DEF Step
<1>3. ASSUME NEW t \in Threads, WaitFails(t) PROVE NoLostWakeUp'
  BY <1>3 DEF WaitFails, Tells
<1>4. ASSUME NEW t \in Threads, OtherCalls(t) PROVE NoLostWakeUp'
  BY <1>4 DEF OtherCalls, FUTEX_other, CAPGET, TGKILL, UNIMPLEMENTED, Tells
<1>5. CASE Scribble
  BY <1>5 DEF Scribble
<1>6. CASE UNCHANGED vars
  BY <1>6 DEF vars
<1> QED
  BY <1>1, <1>2, <1>3, <1>4, <1>5, <1>6 DEF Next

\* What a wait has told stays until the program has looked at it.
LEMMA UnderstoodStep == TypeOK /\ WaitsAreUnderstood /\ [Next]_vars => WaitsAreUnderstood'
<1> SUFFICES ASSUME TypeOK, WaitsAreUnderstood, [Next]_vars PROVE WaitsAreUnderstood'
  OBVIOUS
<1> USE DEF TypeOK, WaitsAreUnderstood, Goes, Live
<1>1. ASSUME NEW t \in Threads, Lock(t) PROVE WaitsAreUnderstood'
  BY <1>1 DEF Lock
<1>2. ASSUME NEW t \in Threads, Step(t) PROVE WaitsAreUnderstood'
  <2>1. CASE Enter(t)              BY <2>1 DEF Enter
  <2>2. CASE Mark(t)               BY <2>2 DEF Mark
  <2>3. CASE Came(t)               BY <2>3 DEF Came
  <2>4. CASE Unlock(t)             BY <2>4 DEF Unlock
  <2>5. CASE FUTEX_WAIT_PRIVATE(t) BY <2>5 DEF FUTEX_WAIT_PRIVATE
  <2>6. CASE UMTX_OP_WAIT(t)       BY <2>6, ErrnoOfWaits DEF UMTX_OP_WAIT, Tells
  <2>7. CASE FUTEX_WAKE_PRIVATE(t)
    BY <2>7, ErrnoOfWaits DEF FUTEX_WAKE_PRIVATE, InQueue, Tells
  <2> QED BY <1>2, <2>1, <2>2, <2>3, <2>4, <2>5, <2>6, <2>7 DEF Step
<1>3. ASSUME NEW t \in Threads, WaitFails(t) PROVE WaitsAreUnderstood'
  BY <1>3, ErrnoOfWaits DEF WaitFails, Tells
<1>4. ASSUME NEW t \in Threads, OtherCalls(t) PROVE WaitsAreUnderstood'
  BY <1>4 DEF OtherCalls, FUTEX_other, CAPGET, TGKILL, UNIMPLEMENTED, Tells
<1>5. CASE Scribble
  BY <1>5 DEF Scribble
<1>6. CASE UNCHANGED vars
  BY <1>6 DEF vars
<1> QED
  BY <1>1, <1>2, <1>3, <1>4, <1>5, <1>6 DEF Next

-----------------------------------------------------------------------------
\* What every step keeps: the shape, the word of the mutex, its wakes and what
\* its waits tell.
THEOREM IInvCorrect == Spec => []IInv
<1>1. IInv /\ [Next]_vars => IInv'
  BY TypeStep, MutexStep, WakeStep, UnderstoodStep DEF IInv
<1> QED
  BY InitIInv, <1>1, PTL DEF Spec

\* The state keeps its shape.
THEOREM TypeCorrect == Spec => []TypeOK
  BY IInvCorrect, PTL DEF IInv

\* No wake is lost, whatever stands behind the futex.
THEOREM NoLostWakeUpCorrect == Spec => []NoLostWakeUp
  BY IInvCorrect, PTL DEF IInv

\* A wait tells 0, EINTR or Linux's ETIMEDOUT.
THEOREM UnderstoodCorrect == Spec => []WaitsAreUnderstood
  BY IInvCorrect, PTL DEF IInv
=============================================================================
