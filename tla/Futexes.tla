------------------------------- MODULE Futexes -------------------------------
(***************************************************************************)
(* src/src/libc/sys/syscall.c: Linux's system calls by number, FUTEX among *)
(* them.  A futex becomes a umtx, which compares a long where Linux        *)
(* compares 32 bits, and answers 0 where Linux says EAGAIN.  What programs *)
(* build on it is here a mutex of three states: 0 free, 1 held, 2 held,    *)
(* and others may sleep.                                                   *)
(***************************************************************************)
EXTENDS LinuxNumbers

CONSTANTS
  Threads,
  Uppers         \* what the 32 bits behind the futex may hold; {0} for i386

ASSUME UppersAssumption == Uppers \subseteq Nat

VARIABLES
  word, upper,   \* the futex, and the 32 bits behind it
  pc, timed,     \* per thread: where it is, and whether it waits with a timeout
  errno,         \* per thread: what its call has told; 0: it did not fail
  dead

vars == <<word, upper, pc, timed, errno, dead>>

-----------------------------------------------------------------------------
EPERM == 1
EINTR == 4
ENOSYS == 78
ETIMEDOUT == 60
ETIMEDOUT_LINUX == 110

InQueue(t) == pc[t] \in {"queued", "asleep"}

\* A umtx compares a long of 64 bits, and val is extended with zeroes.
LongIs(val) == word = val /\ upper = 0

TypeOK ==
  /\ word \in 0..2 /\ upper \in Uppers
  /\ pc \in [Threads -> {"out", "enter", "mark", "call", "queued", "asleep",
                         "came", "in", "wake"}]
  /\ timed \in [Threads -> BOOLEAN]
  /\ errno \in [Threads -> Int]
  /\ dead \in BOOLEAN

Init ==
  /\ word = 0 /\ upper \in Uppers
  /\ pc = [t \in Threads |-> "out"]
  /\ timed = [t \in Threads |-> FALSE]
  /\ errno = [t \in Threads |-> 0]
  /\ dead = FALSE

Goes(t, from, to) == pc[t] = from /\ pc' = [pc EXCEPT ![t] = to]
Live == ~dead /\ UNCHANGED dead

-----------------------------------------------------------------------------
(* The program                                                             *)

Lock(t) ==
  /\ Live /\ Goes(t, "out", "enter")
  /\ \E b \in BOOLEAN : timed' = [timed EXCEPT ![t] = b]
  /\ errno' = [errno EXCEPT ![t] = 0]
  /\ UNCHANGED <<word, upper>>

\* cmpxchg(&word, 0, 1)
Enter(t) ==
  /\ Live /\ Goes(t, "enter", IF word = 0 THEN "in" ELSE "mark")
  /\ word' = IF word = 0 THEN 1 ELSE word
  /\ UNCHANGED <<upper, timed, errno>>

\* xchg(&word, 2)
Mark(t) ==
  /\ Live /\ Goes(t, "mark", IF word = 0 THEN "in" ELSE "call")
  /\ word' = 2
  /\ UNCHANGED <<upper, timed, errno>>

\* A wait is tried again unless its time is up, an errno nobody can make
\* sense of ends the program: "The futex facility returned an unexpected
\* error code".
Came(t) ==
  /\ Goes(t, "came", IF errno[t] = ETIMEDOUT_LINUX THEN "out" ELSE "mark")
  /\ ~dead /\ dead' = (errno[t] \notin {0, EINTR, ETIMEDOUT_LINUX})
  /\ errno' = [errno EXCEPT ![t] = 0]
  /\ UNCHANGED <<word, upper, timed>>

\* xchg(&word, 0)
Unlock(t) ==
  /\ Live /\ Goes(t, "in", IF word = 2 THEN "wake" ELSE "out")
  /\ word' = 0
  /\ timed' = [timed EXCEPT ![t] = FALSE]
  /\ UNCHANGED <<upper, errno>>

\* The 32 bits behind the futex are the program's, for anything.
Scribble ==
  /\ Live /\ upper' \in Uppers \ {upper}
  /\ UNCHANGED <<word, pc, timed, errno>>

-----------------------------------------------------------------------------
(* The calls                                                               *)

\* Variant: the error is told as it came.
TellsUnconverted(t, e) == errno' = [errno EXCEPT ![t] = e]

Tells(t, e) == errno' = [errno EXCEPT ![t] = native_to_linux_errno(e)]

\* futex(&word, FUTEX_WAIT_PRIVATE, 2, timeout): the kernel puts the thread
\* into the queue, and then reads the word.
FUTEX_WAIT_PRIVATE(t) ==
  /\ Live /\ Goes(t, "call", "queued")
  /\ UNCHANGED <<word, upper, timed, errno>>

\* Variant: the word has changed, and the thread sleeps all the same.
SleepsAnyway(t) ==
  /\ Live /\ pc[t] = "queued"
  /\ pc' = [pc EXCEPT ![t] = "asleep"]
  /\ UNCHANGED <<word, upper, timed, errno>>

UMTX_OP_WAIT(t) ==
  /\ Live /\ pc[t] = "queued"
  /\ \/ LongIs(2) /\ pc' = [pc EXCEPT ![t] = "asleep"] /\ UNCHANGED errno
     \/ ~LongIs(2) /\ pc' = [pc EXCEPT ![t] = "came"] /\ Tells(t, 0)
  /\ UNCHANGED <<word, upper, timed>>

\* A signal, or the end of the relative timeout; not after a wake.
WaitFails(t) ==
  /\ Live /\ Goes(t, "asleep", "came")
  /\ \/ Tells(t, EINTR)
     \/ timed[t] /\ Tells(t, ETIMEDOUT)
  /\ UNCHANGED <<word, upper, timed>>

\* Variant: nobody is woken.
WakesNone(t) == Live /\ Goes(t, "wake", "out") /\ UNCHANGED <<word, upper, timed, errno>>

\* futex(&word, FUTEX_WAKE_PRIVATE, 1): whoever is in the queue may be the one.
FUTEX_WAKE_PRIVATE(t) ==
  /\ Live /\ pc[t] = "wake"
  /\ \/ /\ \A u \in Threads : ~InQueue(u)
        /\ pc' = [pc EXCEPT ![t] = "out"] /\ UNCHANGED errno
     \/ \E u \in Threads :
          /\ InQueue(u)
          /\ pc' = [pc EXCEPT ![t] = "out", ![u] = "came"] /\ Tells(u, 0)
  /\ UNCHANGED <<word, upper, timed>>

\* FUTEX with an operation that is not one of the two.
FUTEX_other(t) ==
  /\ Live /\ pc[t] = "out" /\ Tells(t, ENOSYS)
  /\ UNCHANGED <<word, upper, pc, timed>>

CAPGET(t) ==
  /\ Live /\ pc[t] = "out" /\ Tells(t, EPERM)
  /\ UNCHANGED <<word, upper, pc, timed>>

\* tgkill() is for asking whether a thread is there, in this process.
TGKILL(t, own, sig) ==
  /\ pc[t] = "out" /\ ~dead /\ dead' = ~(own /\ sig = 0)
  /\ UNCHANGED <<word, upper, pc, timed, errno>>

\* A number that is not known.
UNIMPLEMENTED(t) ==
  /\ pc[t] = "out" /\ ~dead /\ dead' = TRUE
  /\ UNCHANGED <<word, upper, pc, timed, errno>>

OtherCalls(t) ==
  \/ FUTEX_other(t) \/ CAPGET(t) \/ UNIMPLEMENTED(t)
  \/ \E own \in BOOLEAN, sig \in {0, 9} : TGKILL(t, own, sig)

Step(t) ==
  \/ Enter(t) \/ Mark(t) \/ Came(t) \/ Unlock(t)
  \/ FUTEX_WAIT_PRIVATE(t) \/ UMTX_OP_WAIT(t) \/ FUTEX_WAKE_PRIVATE(t)

Next ==
  \/ Scribble
  \/ \E t \in Threads : Lock(t) \/ Step(t) \/ WaitFails(t) \/ OtherCalls(t)

Spec == Init /\ [][Next]_vars

FairSpec == Spec /\ \A t \in Threads : WF_vars(Step(t))

-----------------------------------------------------------------------------
(* Properties                                                              *)

\* Nobody sleeps on a mutex that is free or held without that being marked,
\* unless somebody is still about to wake a thread or to try again: no
\* wake is lost between the read of the word and the sleep, however the
\* comparison of 64 bits comes out.
OnItsWay(t) ==
  \/ pc[t] \in {"wake", "mark"}
  \/ pc[t] = "came" /\ errno[t] # ETIMEDOUT_LINUX

Asleep == \E t \in Threads : pc[t] = "asleep"

NoLostWakeUp ==
  Asleep => word = 2 \/ \E t \in Threads : OnItsWay(t)

\* A wait that comes back tells 0 or an errno of Linux's that ends or repeats
\* it; an umtx's own 60 is none.
WaitsAreUnderstood ==
  \A t \in Threads : pc[t] = "came" => errno[t] \in {0, EINTR, ETIMEDOUT_LINUX}

Held == {t \in Threads : pc[t] = "in"}

\* Nobody sleeps for ever while nobody holds the mutex: the wake arrives.
\* It is assumed that threads run and that a critical section ends; of
\* signals and timeouts nothing is.
SleepersGo == Asleep ~> (Held # {} \/ ~Asleep \/ dead)

\* One thread at a time holds the mutex, and the word says whether one does.
MutexOK ==
  /\ \A t, u \in Held : t = u
  /\ Held = {} <=> word = 0

\* What the proofs rest on.
IInv == TypeOK /\ MutexOK /\ NoLostWakeUp /\ WaitsAreUnderstood
=============================================================================
