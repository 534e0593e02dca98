------------------------------ MODULE LazyMutex ------------------------------
(***************************************************************************)
(* The mutexes of src/src/libthr/pthread.c.  A glibc mutex is a block of   *)
(* memory that a static initialiser fills without calling anyone; the shim *)
(* keeps in it a pointer to a FreeBSD mutex (wrapped) and the type that    *)
(* the initialiser asked for (linux_kind).  FreeBSD's own lazy             *)
(* initialisation knows one type only, so the shim creates the native      *)
(* object itself, on first use, with a double-checked test under one       *)
(* process-wide mutex (init_mutex_if_necessary).                           *)
(*                                                                         *)
(* The native mutex and condition variable are external: they are modelled *)
(* by the results the shim can get from them.                              *)
(***************************************************************************)
EXTENDS Integers

CONSTANTS
  Threads,     \* threads of the Linux program
  Mutexes,     \* linux_pthread_mutex_t blocks
  Objects,     \* addresses a native mutex can be allocated at
  NoThread,    \* "unowned"
  NULL,        \* a null pthread_mutex_t
  DESTROYED,   \* any non-null pthread_mutex_t that is no live native mutex
  StaticKinds, \* the types of the static initialisers the program uses
  AttrKinds,   \* the types it passes to pthread_mutex_init
  MaxDepth,    \* recursion count at which the native lock answers EAGAIN
  AllocFails   \* whether a native allocation may fail (ENOMEM)

\* enum linux_pthread_mutextype, and DEFAULT for "no type was asked for"
LINUX_NORMAL      == 0
LINUX_RECURSIVE   == 1
LINUX_ERRORCHECK  == 2
LINUX_ADAPTIVE_NP == 3
DEFAULT           == 4

LinuxKinds == 0..3

\* <pthread.h> of FreeBSD; PTHREAD_MUTEX_DEFAULT is PTHREAD_MUTEX_ERRORCHECK.
NATIVE_ERRORCHECK  == 1
NATIVE_RECURSIVE   == 2
NATIVE_NORMAL      == 3
NATIVE_ADAPTIVE_NP == 4
NATIVE_DEFAULT     == NATIVE_ERRORCHECK

FREE == 0               \* the kind of an address that holds no native mutex
NativeKinds == 1..4

ASSUME ConstantsOK ==
  /\ NoThread \notin Threads
  /\ NULL \notin Objects \cup Mutexes
  /\ DESTROYED \notin Objects
  /\ NULL # DESTROYED
  /\ StaticKinds \subseteq LinuxKinds
  /\ AttrKinds \subseteq LinuxKinds \cup {DEFAULT}
  /\ MaxDepth \in Nat \ {0}
  /\ AllocFails \in BOOLEAN

VARIABLES
  wrapped,     \* mutex -> _wrapped_mutex
  linux_kind,  \* mutex -> linux_kind
  ready,       \* mutexes the program may use: initialised and not destroyed
  type,        \* mutex -> the type the program asked for
  objKind,     \* address -> type of the native mutex there, or FREE
  owner,       \* address -> thread that owns the native mutex there
  count,       \* address -> how many times the owner has locked it
  init_owner,  \* owner of mutex_initialization_mutex
  pc,          \* thread -> where it is inside a call of the shim
  op,          \* thread -> the call it makes
  tgt,         \* thread -> the mutex it makes it on
  obj,         \* thread -> the native mutex the call works on
  saved,       \* thread -> recursion count saved while it sleeps in a wait
  held,        \* thread -> mutex -> times the program holds it (successes)
  failed,      \* mutexes whose native init at pthread.c:224 failed, unnoticed
  aborted      \* an assertion has failed: the process is gone

memory  == <<wrapped, linux_kind>>
program == <<ready, type, held>>
native  == <<objKind, owner, count>>
frame   == <<op, tgt, obj, saved>>
fate    == <<failed, aborted>>
vars    == <<memory, program, native, init_owner, pc, frame, fate>>

LockOps == {"lock", "trylock", "timedlock"}
Ops     == LockOps \cup {"wait"}        \* cond_wait and cond_timedwait
Labels  == {"idle", "check", "acquire", "recheck", "init", "release",
            "enter", "blocked", "sleeping"}
InitSection == {"recheck", "init", "release"}

TypeOK ==
  /\ wrapped \in [Mutexes -> Objects \cup {NULL, DESTROYED}]
  /\ linux_kind \in [Mutexes -> LinuxKinds]
  /\ ready \in SUBSET Mutexes
  /\ type \in [Mutexes -> LinuxKinds \cup {DEFAULT}]
  /\ objKind \in [Objects -> NativeKinds \cup {FREE}]
  /\ owner \in [Objects -> Threads \cup {NoThread}]
  /\ count \in [Objects -> 0..MaxDepth]
  /\ init_owner \in Threads \cup {NoThread}
  /\ pc \in [Threads -> Labels]
  /\ op \in [Threads -> Ops \cup {"none"}]
  /\ tgt \in [Threads -> Mutexes \cup {NULL}]
  /\ obj \in [Threads -> Objects \cup {NULL}]
  /\ saved \in [Threads -> 0..MaxDepth]
  /\ held \in [Threads -> [Mutexes -> Int]]
  /\ failed \in SUBSET Mutexes
  /\ aborted \in BOOLEAN

-----------------------------------------------------------------------------
(* Types of mutexes *)

\* Variant: the type is passed on unconverted.
KindUntranslated(k) == k

linux_to_native_mutex_kind(k) ==
  CASE k = LINUX_NORMAL      -> NATIVE_NORMAL
    [] k = LINUX_RECURSIVE   -> NATIVE_RECURSIVE
    [] k = LINUX_ERRORCHECK  -> NATIVE_ERRORCHECK
    [] k = LINUX_ADAPTIVE_NP -> NATIVE_ADAPTIVE_NP

\* shim_pthread_mutex_init_impl: a null attribute is passed on as null.
KindForInit(k) ==
  IF k = DEFAULT THEN NATIVE_DEFAULT ELSE linux_to_native_mutex_kind(k)

\* PTHREAD_MUTEX_INITIALIZER stores LINUX_NORMAL: a program that writes it
\* asks for no particular type.
StaticType(k) == IF k = LINUX_NORMAL THEN DEFAULT ELSE k

-----------------------------------------------------------------------------
(* A statically initialised mutex is ready, with a null pointer and its    *)
(* type in linux_kind.  The memory of any other mutex holds anything.      *)
Init ==
  /\ ready \in SUBSET Mutexes
  /\ linux_kind \in [Mutexes -> StaticKinds]
  /\ \E garbage \in [Mutexes \ ready -> {NULL, DESTROYED}] :
       wrapped = [m \in Mutexes |-> IF m \in ready THEN NULL ELSE garbage[m]]
  /\ type = [m \in Mutexes |-> StaticType(linux_kind[m])]
  /\ objKind = [o \in Objects |-> FREE]
  /\ owner = [o \in Objects |-> NoThread]
  /\ count = [o \in Objects |-> 0]
  /\ init_owner = NoThread
  /\ pc = [t \in Threads |-> "idle"]
  /\ op = [t \in Threads |-> "none"]
  /\ tgt = [t \in Threads |-> NULL]
  /\ obj = [t \in Threads |-> NULL]
  /\ saved = [t \in Threads |-> 0]
  /\ held = [t \in Threads |-> [m \in Mutexes |-> 0]]
  /\ failed = {}
  /\ aborted = FALSE

\* POSIX lets a program (re)initialise or destroy only a mutex nobody uses.
Unused(m) ==
  /\ \A t \in Threads : held[t][m] = 0
  /\ \A t \in Threads : tgt[t] # m

Goto(t, label) == pc' = [pc EXCEPT ![t] = label]

Return(t) ==
  /\ Goto(t, "idle")
  /\ op' = [op EXCEPT ![t] = "none"]
  /\ tgt' = [tgt EXCEPT ![t] = NULL]
  /\ obj' = [obj EXCEPT ![t] = NULL]
  /\ saved' = [saved EXCEPT ![t] = 0]

\* FreeBSD's mutex_init: allocate, fill in, then store the pointer.
NativeInit(m, o, kind) ==
  /\ objKind[o] = FREE
  /\ objKind' = [objKind EXCEPT ![o] = kind]
  /\ owner' = [owner EXCEPT ![o] = NoThread]
  /\ count' = [count EXCEPT ![o] = 0]
  /\ wrapped' = [wrapped EXCEPT ![m] = o]

-----------------------------------------------------------------------------
(* pthread_mutex_init, pthread_mutex_destroy, pthread_mutex_unlock *)

MutexInit(t, m, k) ==
  /\ pc[t] = "idle"
  /\ m \notin ready /\ Unused(m)
  /\ \E o \in Objects : NativeInit(m, o, KindForInit(k))
  /\ ready' = ready \cup {m}
  /\ type' = [type EXCEPT ![m] = k]
  /\ UNCHANGED <<linux_kind, held, init_owner, pc, frame, fate>>

\* assert(mutex->_wrapped_mutex != 0), in unlock and destroy.
AssertWrapped(m) == wrapped[m] # NULL

Abort ==
  /\ aborted' = TRUE
  /\ UNCHANGED <<memory, program, native, init_owner, pc, frame, failed>>

NativeDestroy(m, o) ==
  /\ wrapped' = [wrapped EXCEPT ![m] = DESTROYED]
  /\ objKind' = [objKind EXCEPT ![o] = FREE]
  /\ ready' = ready \ {m}
  /\ UNCHANGED <<owner, count>>

MutexDestroy(t, m) ==
  /\ pc[t] = "idle"
  /\ m \in ready /\ Unused(m)
  /\ IF AssertWrapped(m)
     THEN /\ IF wrapped[m] \in Objects /\ owner[wrapped[m]] = NoThread
             THEN NativeDestroy(m, wrapped[m])
             ELSE UNCHANGED <<wrapped, native, ready>>      \* EBUSY, EINVAL
          /\ UNCHANGED <<linux_kind, type, held, init_owner, pc, frame, fate>>
     ELSE Abort

\* Unlocking a mutex one does not hold is defined (EPERM) only for the types
\* that check their owner.
MayUnlock(t, m) ==
  \/ held[t][m] > 0
  \/ type[m] \in {LINUX_RECURSIVE, LINUX_ERRORCHECK}

NativeUnlock(t, m, o) ==
  IF o \in Objects /\ owner[o] = t
  THEN /\ count' = [count EXCEPT ![o] = @ - 1]
       /\ owner' = [owner EXCEPT ![o] = IF count[o] = 1 THEN NoThread ELSE t]
       /\ held' = [held EXCEPT ![t][m] = @ - 1]
  ELSE UNCHANGED <<owner, count, held>>                     \* EPERM, EINVAL

MutexUnlock(t, m) ==
  /\ pc[t] = "idle"
  /\ m \in ready /\ MayUnlock(t, m)
  /\ IF AssertWrapped(m)
     THEN /\ NativeUnlock(t, m, wrapped[m])
          /\ UNCHANGED <<memory, ready, type, objKind, init_owner, pc, frame,
                         fate>>
     ELSE Abort

-----------------------------------------------------------------------------
(* lock, trylock, timedlock, cond_wait and cond_timedwait all start with   *)
(* init_mutex_if_necessary.                                                *)

Call(t, m, o) ==
  /\ pc[t] = "idle"
  /\ m \in ready
  /\ o = "wait" => held[t][m] > 0
  /\ Goto(t, "check")
  /\ op' = [op EXCEPT ![t] = o]
  /\ tgt' = [tgt EXCEPT ![t] = m]
  /\ UNCHANGED <<memory, program, native, init_owner, obj, saved, fate>>

\* Variant: the type is not looked at.
CheckPointerOnly(t) ==
  /\ pc[t] = "check"
  /\ Goto(t, IF wrapped[tgt[t]] = NULL THEN "acquire" ELSE "enter")
  /\ UNCHANGED <<memory, program, native, init_owner, frame, fate>>

\* Line 210, without the lock.
Check(t) ==
  /\ pc[t] = "check"
  /\ Goto(t, IF wrapped[tgt[t]] = NULL /\ linux_kind[tgt[t]] # LINUX_NORMAL
             THEN "acquire" ELSE "enter")
  /\ UNCHANGED <<memory, program, native, init_owner, frame, fate>>

\* Variant: the initialisation is not serialised.
AcquireNothing(t) ==
  /\ pc[t] = "acquire"
  /\ init_owner' = t
  /\ Goto(t, "recheck")
  /\ UNCHANGED <<memory, program, native, frame, fate>>

\* Line 212.
AcquireInitLock(t) ==
  /\ pc[t] = "acquire"
  /\ init_owner = NoThread
  /\ init_owner' = t
  /\ Goto(t, "recheck")
  /\ UNCHANGED <<memory, program, native, frame, fate>>

\* Variants: no second test; the lock is released too early; the thread
\* that finds the work done forgets to release it.
RecheckDropped(t) ==
  /\ pc[t] = "recheck"
  /\ Goto(t, "init")
  /\ UNCHANGED <<memory, program, native, init_owner, frame, fate>>

RecheckUnlocks(t) ==
  /\ pc[t] = "recheck"
  /\ Goto(t, IF wrapped[tgt[t]] = NULL THEN "init" ELSE "release")
  /\ init_owner' = NoThread
  /\ UNCHANGED <<memory, program, native, frame, fate>>

RecheckReturns(t) ==
  /\ pc[t] = "recheck"
  /\ Goto(t, IF wrapped[tgt[t]] = NULL THEN "init" ELSE "enter")
  /\ UNCHANGED <<memory, program, native, init_owner, frame, fate>>

\* Line 215, with the lock.
Recheck(t) ==
  /\ pc[t] = "recheck"
  /\ Goto(t, IF wrapped[tgt[t]] = NULL THEN "init" ELSE "release")
  /\ UNCHANGED <<memory, program, native, init_owner, frame, fate>>

\* Lines 217-224; the result of pthread_mutex_init is not looked at.
LazyInit(t) ==
  /\ pc[t] = "init"
  /\ \E o \in Objects :
       NativeInit(tgt[t], o, linux_to_native_mutex_kind(linux_kind[tgt[t]]))
  /\ Goto(t, "release")
  /\ UNCHANGED <<linux_kind, program, init_owner, frame, fate>>

LazyInitFails(t) ==
  /\ pc[t] = "init"
  /\ AllocFails
  /\ failed' = failed \cup {tgt[t]}
  /\ Goto(t, "release")
  /\ UNCHANGED <<memory, program, native, init_owner, frame, aborted>>

\* Line 227.
ReleaseInitLock(t) ==
  /\ pc[t] = "release"
  /\ init_owner' = NoThread
  /\ Goto(t, "enter")
  /\ UNCHANGED <<memory, program, native, frame, fate>>

-----------------------------------------------------------------------------
(* The native call (external).  It reads the pointer once; a null pointer  *)
(* makes FreeBSD allocate a mutex of its default type under a lock of its  *)
(* own, which is not the shim's.                                           *)

NativeStaticInit(t) ==
  /\ pc[t] = "enter"
  /\ wrapped[tgt[t]] = NULL
  /\ \E o \in Objects : NativeInit(tgt[t], o, NATIVE_DEFAULT)
  /\ UNCHANGED <<linux_kind, program, init_owner, pc, frame, fate>>

NativeStaticInitFails(t) ==
  /\ pc[t] = "enter"
  /\ AllocFails
  /\ wrapped[tgt[t]] = NULL
  /\ Return(t)
  /\ UNCHANGED <<memory, program, native, init_owner, fate>>

NativeEnter(t) ==
  /\ pc[t] = "enter"
  /\ wrapped[tgt[t]] \in Objects
  /\ obj' = [obj EXCEPT ![t] = wrapped[tgt[t]]]
  /\ Goto(t, "blocked")
  /\ UNCHANGED <<memory, program, native, init_owner, op, tgt, saved, fate>>

\* The native mutex is unowned: it is taken.
NativeAcquire(t) ==
  /\ pc[t] = "blocked" /\ op[t] \in LockOps
  /\ owner[obj[t]] = NoThread
  /\ owner' = [owner EXCEPT ![obj[t]] = t]
  /\ count' = [count EXCEPT ![obj[t]] = 1]
  /\ held' = [held EXCEPT ![t][tgt[t]] = @ + 1]
  /\ Return(t)
  /\ UNCHANGED <<memory, ready, type, objKind, init_owner, fate>>

CanRelock(t) ==
  /\ owner[obj[t]] = t
  /\ objKind[obj[t]] = NATIVE_RECURSIVE
  /\ count[obj[t]] < MaxDepth

NativeRelock(t) ==
  /\ pc[t] = "blocked" /\ op[t] \in LockOps
  /\ CanRelock(t)
  /\ count' = [count EXCEPT ![obj[t]] = @ + 1]
  /\ held' = [held EXCEPT ![t][tgt[t]] = @ + 1]
  /\ Return(t)
  /\ UNCHANGED <<memory, ready, type, objKind, owner, init_owner, fate>>

\* EBUSY (trylock), ETIMEDOUT (timedlock), EDEADLK or EAGAIN (the owner).
\* An owner that locks a NORMAL mutex again gets no answer: it stays blocked.
NativeRefuse(t) ==
  /\ pc[t] = "blocked" /\ op[t] \in LockOps
  /\ owner[obj[t]] # NoThread /\ ~CanRelock(t)
  /\ \/ op[t] \in {"trylock", "timedlock"}
     \/ owner[obj[t]] = t /\ objKind[obj[t]] # NATIVE_NORMAL
  /\ Return(t)
  /\ UNCHANGED <<memory, program, native, init_owner, fate>>

\* EPERM: a wait with a mutex that is not the caller's.
NativeWaitRefused(t) ==
  /\ pc[t] = "blocked" /\ op[t] = "wait"
  /\ owner[obj[t]] # t
  /\ Return(t)
  /\ UNCHANGED <<memory, program, native, init_owner, fate>>

\* pthread_cond_wait lets the mutex go, whatever its count, ...
NativeSleep(t) ==
  /\ pc[t] = "blocked" /\ op[t] = "wait"
  /\ owner[obj[t]] = t
  /\ saved' = [saved EXCEPT ![t] = count[obj[t]]]
  /\ owner' = [owner EXCEPT ![obj[t]] = NoThread]
  /\ count' = [count EXCEPT ![obj[t]] = 0]
  /\ held' = [held EXCEPT ![t][tgt[t]] = @ - count[obj[t]]]
  /\ Goto(t, "sleeping")
  /\ UNCHANGED <<memory, ready, type, objKind, init_owner, op, tgt, obj, fate>>

\* ... and takes it again, with its count, before it returns: after a signal,
\* a timeout or spuriously.
NativeWake(t) ==
  /\ pc[t] = "sleeping"
  /\ owner[obj[t]] = NoThread
  /\ owner' = [owner EXCEPT ![obj[t]] = t]
  /\ count' = [count EXCEPT ![obj[t]] = saved[t]]
  /\ held' = [held EXCEPT ![t][tgt[t]] = @ + saved[t]]
  /\ Return(t)
  /\ UNCHANGED <<memory, ready, type, objKind, init_owner, fate>>

-----------------------------------------------------------------------------
Step(t) ==
  \/ \E m \in Mutexes : \E k \in AttrKinds : MutexInit(t, m, k)
  \/ \E m \in Mutexes : MutexDestroy(t, m)
  \/ \E m \in Mutexes : MutexUnlock(t, m)
  \/ \E m \in Mutexes : \E o \in Ops : Call(t, m, o)
  \/ Check(t)
  \/ AcquireInitLock(t)
  \/ Recheck(t)
  \/ LazyInit(t)
  \/ LazyInitFails(t)
  \/ ReleaseInitLock(t)
  \/ NativeStaticInit(t)
  \/ NativeStaticInitFails(t)
  \/ NativeEnter(t)
  \/ NativeAcquire(t)
  \/ NativeRelock(t)
  \/ NativeRefuse(t)
  \/ NativeWaitRefused(t)
  \/ NativeSleep(t)
  \/ NativeWake(t)

Next == ~aborted /\ \E t \in Threads : Step(t)

Spec == Init /\ [][Next]_vars

\* A thread inside init_mutex_if_necessary is scheduled: nothing it does
\* there waits for anything but mutex_initialization_mutex.
InitStep(t) ==
  \/ Check(t) \/ AcquireInitLock(t) \/ Recheck(t)
  \/ LazyInit(t) \/ LazyInitFails(t) \/ ReleaseInitLock(t)

FairSpec ==
  Spec /\ \A t \in Threads : WF_vars(~aborted /\ InitStep(t))

-----------------------------------------------------------------------------
(* Properties.  A mutex in failed is one whose native init failed without  *)
(* the shim noticing (pthread.c:224); nothing is promised of those.        *)

Sound(m) == m \in ready \ failed

\* One thread at a time holds a mutex, whoever created the native object and
\* however its first uses interleaved (init_mutex_if_necessary, lock, wait).
MutualExclusion ==
  \A m \in Mutexes \ failed : \A t, u \in Threads :
    held[t][m] > 0 /\ held[u][m] > 0 => t = u

\* What the program holds is what the native object behind the pointer
\* records: the lock never moves to another object while somebody holds it,
\* so an unlock always finds the object that was locked.
OwnershipAgrees ==
  \A m \in Mutexes : Sound(m) =>
    \A t \in Threads :
      held[t][m] = IF wrapped[m] \in Objects /\ owner[wrapped[m]] = t
                   THEN count[wrapped[m]] ELSE 0

\* An owner may lock again exactly if the program asked for a recursive
\* mutex, and is told of its mistake if it asked for an error-checking one:
\* whether the native object came from a static initialiser, from
\* pthread_mutex_init or from FreeBSD's own lazy initialisation.
KindFidelity ==
  \A m \in Mutexes : Sound(m) /\ wrapped[m] \in Objects =>
    /\ objKind[wrapped[m]] = NATIVE_RECURSIVE <=> type[m] = LINUX_RECURSIVE
    /\ type[m] = LINUX_ERRORCHECK => objKind[wrapped[m]] = NATIVE_ERRORCHECK
    /\ type[m] = LINUX_NORMAL => objKind[wrapped[m]] = NATIVE_NORMAL

\* Every native mutex that was allocated is still reachable from one shim
\* mutex, so that its destruction frees it: no first use is lost to another.
NoOrphanObject ==
  failed = {} =>
    \A o \in Objects : objKind[o] # FREE =>
      \E m \in ready : wrapped[m] = o

\* A mutex that has a native object, and whose own native init did not fail,
\* keeps it, with its type, for as long as the mutex exists: no first use that
\* comes late replaces it (the recheck at pthread.c:215).
PointerStays ==
  [][\A m \in Mutexes : Sound(m) /\ wrapped[m] # NULL /\ m \in ready' =>
       wrapped'[m] = wrapped[m] /\ objKind'[wrapped[m]] = objKind[wrapped[m]]]_vars

\* A thread on the slow path gets through it, whoever else is there.
LazyInitTerminates ==
  \A t \in Threads : pc[t] = "acquire" ~> (pc[t] = "enter" \/ aborted)

\* Threads that sleep in a wait, with what they have left.
Parked == [t \in Threads |-> IF pc[t] = "sleeping" THEN <<tgt[t], saved[t]>> ELSE <<>>]

\* Taken together, the shim's mutexes are POSIX mutexes of the types asked
\* for (as long as no native allocation fails).
Posix == INSTANCE TypedMutex WITH
  Types <- LinuxKinds \cup {DEFAULT},
  Recursive <- LINUX_RECURSIVE,
  NotParked <- <<>>,
  parked <- Parked

ImplementsPosix == Posix!Spec

\* pthread.c:272 and 277, assert(mutex->_wrapped_mutex != 0): the assertion
\* says that a mutex which is unlocked or destroyed has been locked before.
NoAbort == ~aborted

-----------------------------------------------------------------------------
(* The inductive invariant behind the safety properties. *)

\* A call is under way exactly on a mutex the program may use.
CallsOnReady ==
  \A t \in Threads :
    /\ pc[t] = "idle" <=> tgt[t] = NULL
    /\ tgt[t] # NULL => tgt[t] \in ready

HeldIsReady ==
  \A t \in Threads : \A m \in Mutexes : held[t][m] # 0 => m \in ready

InitLockHeld ==
  \A t \in Threads : pc[t] \in InitSection <=> init_owner = t

\* Only a statically initialised mutex has a null pointer.
NullIsStatic ==
  \A m \in ready : wrapped[m] = NULL => type[m] = StaticType(linux_kind[m])

SlowPathIsTyped ==
  \A t \in Threads : pc[t] \in {"acquire"} \cup InitSection =>
    linux_kind[tgt[t]] # LINUX_NORMAL

\* The thread about to create the native object is the first one.
InitIsFirst ==
  \A t \in Threads : pc[t] = "init" =>
    tgt[t] \in failed \/ wrapped[tgt[t]] = NULL

\* The native call meets a null pointer only in a mutex of FreeBSD's type.
EnterIsSafe ==
  \A t \in Threads :
    /\ pc[t] = "release" => tgt[t] \in failed \/ wrapped[tgt[t]] # NULL
    /\ pc[t] = "enter" =>
         \/ tgt[t] \in failed
         \/ wrapped[tgt[t]] # NULL
         \/ linux_kind[tgt[t]] = LINUX_NORMAL

\* Each native object is behind one mutex, and allocated.
ObjectsApart ==
  /\ \A m \in ready : wrapped[m] # DESTROYED
  /\ \A m \in ready : wrapped[m] \in Objects => objKind[wrapped[m]] # FREE
  /\ \A m, n \in ready :
       wrapped[m] \in Objects /\ wrapped[m] = wrapped[n] => m = n

\* A native call works on the object of its own mutex and of no other.
HandleIsOwn ==
  \A t \in Threads : pc[t] \in {"blocked", "sleeping"} =>
    /\ obj[t] \in Objects
    /\ objKind[obj[t]] # FREE
    /\ \A m \in ready : wrapped[m] = obj[t] => m = tgt[t]
    /\ tgt[t] \notin failed => obj[t] = wrapped[tgt[t]]

\* The native type is the one pthread_mutex_init would have chosen.
KindIsChosen ==
  \A m \in Mutexes : Sound(m) /\ wrapped[m] # NULL =>
    /\ wrapped[m] \in Objects
    /\ objKind[wrapped[m]] = KindForInit(type[m])

OwnedIsCounted ==
  \A o \in Objects : owner[o] = NoThread <=> count[o] = 0

SleepSaves ==
  \A t \in Threads : pc[t] = "sleeping" => saved[t] > 0

\* The conjunction is inductive: it is checked here and proved in
\* LazyMutexProofs.
IInv ==
  /\ TypeOK
  /\ CallsOnReady
  /\ HeldIsReady
  /\ InitLockHeld
  /\ NullIsStatic
  /\ SlowPathIsTyped
  /\ InitIsFirst
  /\ EnterIsSafe
  /\ ObjectsApart
  /\ HandleIsOwn
  /\ OwnedIsCounted
  /\ SleepSaves
  /\ KindIsChosen
  /\ OwnershipAgrees

==============================================================================
