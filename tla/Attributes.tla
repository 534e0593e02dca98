------------------------------ MODULE Attributes ------------------------------
(***************************************************************************)
(* src/src/libthr/pthread.c: attributes of mutexes, conditions, barriers   *)
(* and threads.  The first three are words of the shim's own, into which   *)
(* Linux's values are packed; those of threads are FreeBSD's, and every    *)
(* value is converted in and out.                                          *)
(***************************************************************************)
EXTENDS Process, Integers

VARIABLES
  mutexattr,     \* bit fields, by their names
  condattr, barrierattr,  \* words: sets of bits
  attr,          \* FreeBSD's pthread_attr_t
  asked,         \* per setting: what was set last, or the default
  made,          \* the last call has made a mutex or a condition: as FreeBSD's
  attr_dead

attributesVars == <<mutexattr, condattr, barrierattr, attr, asked, made, attr_dead>>

-----------------------------------------------------------------------------
NBITS == [kind |-> 2, prioceiling |-> 2, protocol |-> 1, pshared |-> 1, robust |-> 1]

Fields   == DOMAIN NBITS
\* Bits of condattr and of barrierattr.
MONOTONIC == 0
SHARED == 1
BARRIER_SHARED == 0
CLOCK_REALTIME == 0
CLOCK_MONOTONIC == 1
PROCESS_PRIVATE == 0
PROCESS_SHARED == 1

\* Linux's number, FreeBSD's number
Kinds     == {<<0, 3>>, <<1, 2>>, <<2, 1>>, <<3, 4>>}
Policies  == {<<0, 2>>, <<1, 1>>, <<2, 3>>}
Inherit   == {<<0, 4>>, <<1, 0>>}
Scopes    == {<<0, 2>>, <<1, 0>>}
Clocks    == {<<0, 0>>, <<1, 4>>}
Tables    == [inheritsched |-> Inherit, policy |-> Policies, scope |-> Scopes]

WordBits == {"clock", "cond pshared", "barrier pshared"}
Settings == Fields \cup DOMAIN Tables \cup WordBits \cup {"priority"}

ToFreeBSD(T, v) == (CHOOSE p \in T : p[1] = v)[2]
FromFreeBSD(T, v) == (CHOOSE p \in T : p[2] = v)[1]
Has(T, v) == \E p \in T : p[1] = v

AttributesInit ==
  /\ mutexattr = [f \in Fields |-> 0]
  /\ condattr = {} /\ barrierattr = {}
  /\ attr = [inheritsched |-> 4, policy |-> 2, scope |-> 2]
  /\ asked = [f \in Settings |-> 0]
  /\ made = NULL /\ attr_dead = FALSE

AttributesLive == ~attr_dead /\ UNCHANGED attr_dead

AttributesDie ==
  /\ ~attr_dead /\ attr_dead' = TRUE
  /\ UNCHANGED <<mutexattr, condattr, barrierattr, attr, asked, made>>

Asks(f, v) == AttributesLive /\ made' = NULL /\ asked' = [asked EXCEPT ![f] = v]

-----------------------------------------------------------------------------
\* pthread_mutexattr_init, pthread_condattr_init and pthread_barrierattr_init
pthread_mutexattr_init ==
  /\ AttributesLive /\ made' = NULL
  /\ mutexattr' = [f \in Fields |-> 0]
  /\ asked' = [f \in DOMAIN asked |-> IF f \in Fields THEN 0 ELSE asked[f]]
  /\ UNCHANGED <<condattr, barrierattr, attr>>

pthread_condattr_init ==
  /\ AttributesLive /\ made' = NULL /\ condattr' = {}
  /\ asked' = [asked EXCEPT !["clock"] = 0, !["cond pshared"] = 0]
  /\ UNCHANGED <<mutexattr, barrierattr, attr>>

pthread_barrierattr_init ==
  /\ AttributesLive /\ made' = NULL /\ barrierattr' = {}
  /\ asked' = [asked EXCEPT !["barrier pshared"] = 0]
  /\ UNCHANGED <<mutexattr, condattr, attr>>

-----------------------------------------------------------------------------
(* Settings                                                                *)

Fits(f, v) == v \in 0..(2 ^ NBITS[f] - 1)

\* pthread_mutexattr_set*: a bit field takes what fits.
pthread_mutexattr_set(f, v) ==
  \/ ~Fits(f, v) /\ AttributesDie
  \/ /\ Fits(f, v) /\ Asks(f, v)
     /\ mutexattr' = [mutexattr EXCEPT ![f] = v % 2 ^ NBITS[f]]
     /\ UNCHANGED <<condattr, barrierattr, attr>>

\* Variant: the word is set, not its bit.
WordOfClock(id) == IF id = CLOCK_MONOTONIC THEN {MONOTONIC} ELSE {}

WithClock(id) ==
  IF id = CLOCK_MONOTONIC THEN condattr \cup {MONOTONIC} ELSE condattr \ {MONOTONIC}

\* Another clock is EINVAL.
pthread_condattr_setclock(id) ==
  \/ id \notin {CLOCK_REALTIME, CLOCK_MONOTONIC} /\ AttributesLive /\ UNCHANGED attributesVars
  \/ /\ id \in {CLOCK_REALTIME, CLOCK_MONOTONIC} /\ Asks("clock", id)
     /\ condattr' = WithClock(id)
     /\ UNCHANGED <<mutexattr, barrierattr, attr>>

WithShared(word, bit, v) == IF v = PROCESS_SHARED THEN word \cup {bit} ELSE word \ {bit}

pthread_condattr_setpshared(v) ==
  \/ v \notin {PROCESS_PRIVATE, PROCESS_SHARED} /\ AttributesDie
  \/ /\ v \in {PROCESS_PRIVATE, PROCESS_SHARED} /\ Asks("cond pshared", v)
     /\ condattr' = WithShared(condattr, SHARED, v)
     /\ UNCHANGED <<mutexattr, barrierattr, attr>>

pthread_barrierattr_setpshared(v) ==
  \/ v \notin {PROCESS_PRIVATE, PROCESS_SHARED} /\ AttributesDie
  \/ /\ v \in {PROCESS_PRIVATE, PROCESS_SHARED} /\ Asks("barrier pshared", v)
     /\ barrierattr' = WithShared(barrierattr, BARRIER_SHARED, v)
     /\ UNCHANGED <<mutexattr, condattr, attr>>

\* pthread_attr_setinheritsched, -setschedpolicy and -setscope
pthread_attr_set(f, v) ==
  \/ ~Has(Tables[f], v) /\ AttributesDie
  \/ /\ Has(Tables[f], v) /\ Asks(f, v)
     /\ attr' = [attr EXCEPT ![f] = ToFreeBSD(Tables[f], v)]
     /\ UNCHANGED <<mutexattr, condattr, barrierattr>>

\* pthread_attr_setschedparam takes a priority and stores none.
DEFAULT_PRIORITY == 0

pthread_attr_setschedparam(v) ==
  Asks("priority", v) /\ UNCHANGED <<mutexattr, condattr, barrierattr, attr>>

-----------------------------------------------------------------------------
(* The objects                                                             *)

Makes(object) ==
  /\ AttributesLive /\ made' = object
  /\ UNCHANGED <<mutexattr, condattr, barrierattr, attr, asked>>

pthread_mutex_init ==
  \/ mutexattr.prioceiling # 0 /\ AttributesDie
  \/ /\ mutexattr.prioceiling = 0
     /\ Makes([is |-> "mutex", kind |-> ToFreeBSD(Kinds, mutexattr.kind),
               protocol |-> mutexattr.protocol, pshared |-> mutexattr.pshared,
               robust |-> mutexattr.robust])

\* Variant: the clock of a condition is left as it is by default.
NativeClockDefault == CLOCK_REALTIME

NativeClock == ToFreeBSD(Clocks, IF MONOTONIC \in condattr THEN 1 ELSE 0)

NativeShared(word, bit) == IF bit \in word THEN PROCESS_SHARED ELSE PROCESS_PRIVATE

pthread_cond_init ==
  Makes([is |-> "condition", clock |-> NativeClock, pshared |-> NativeShared(condattr, SHARED)])

pthread_barrier_init ==
  Makes([is |-> "barrier", pshared |-> NativeShared(barrierattr, BARRIER_SHARED)])

\* pthread_mutexattr_get*, pthread_condattr_get*, pthread_barrierattr_getpshared
\* and pthread_attr_get*, FreeBSD's own pthread_attr_getschedparam among them.
Get(f) ==
  CASE f \in Fields -> mutexattr[f]
    [] f \in DOMAIN Tables -> FromFreeBSD(Tables[f], attr[f])
    [] f = "clock" -> IF MONOTONIC \in condattr THEN CLOCK_MONOTONIC ELSE CLOCK_REALTIME
    [] f = "cond pshared" -> NativeShared(condattr, SHARED)
    [] f = "barrier pshared" -> NativeShared(barrierattr, BARRIER_SHARED)
    [] f = "priority" -> DEFAULT_PRIORITY

AttributesNext ==
  \/ \E f \in Fields : \E v \in 0..2 ^ NBITS[f] : pthread_mutexattr_set(f, v)
  \/ \E id \in {0, 1, 4} : pthread_condattr_setclock(id)
  \/ \E v \in 0..2 : pthread_condattr_setpshared(v) \/ pthread_barrierattr_setpshared(v)
  \/ \E f \in DOMAIN Tables, v \in 0..3 : pthread_attr_set(f, v)
  \/ \E v \in 0..1 : pthread_attr_setschedparam(v)
  \/ pthread_mutexattr_init \/ pthread_condattr_init \/ pthread_barrierattr_init
  \/ pthread_mutex_init \/ pthread_cond_init \/ pthread_barrier_init

AttributesSpec == AttributesInit /\ [][AttributesNext]_attributesVars

-----------------------------------------------------------------------------
(* Properties                                                              *)

\* Whatever is set in between, in whatever order, a setting reads as it was
\* set last.  The exception is a thread's priority, which is taken and reads
\* as the default (pthread.c:675).
SettingsRead ==
  \A f \in Settings : Get(f) = IF f = "priority" THEN DEFAULT_PRIORITY ELSE asked[f]

\* FreeBSD's object is of the type, protocol, robustness, clock and sharing
\* that were asked for.
ObjectsAsAsked ==
  /\ made # NULL /\ made.is = "mutex" =>
       /\ made.kind + asked.kind = 3 \/ (asked.kind = 3 /\ made.kind = 4)
       /\ \A f \in {"protocol", "pshared", "robust"} : made[f] = asked[f]
  /\ made # NULL /\ made.is = "condition" =>
       /\ made.clock = 4 <=> asked["clock"] = CLOCK_MONOTONIC
       /\ made.pshared = asked["cond pshared"]
  /\ made # NULL /\ made.is = "barrier" => made.pshared = asked["barrier pshared"]

\* Where each setting is: in its bit field, in its bit, or as FreeBSD's number.
FieldsAsAsked == \A f \in Fields : asked[f] = mutexattr[f]

BitsAsAsked ==
  /\ asked["clock"] = IF MONOTONIC \in condattr THEN CLOCK_MONOTONIC ELSE CLOCK_REALTIME
  /\ asked["cond pshared"] = NativeShared(condattr, SHARED)
  /\ asked["barrier pshared"] = NativeShared(barrierattr, BARRIER_SHARED)

NumbersAsAsked == \A f \in DOMAIN Tables : <<asked[f], attr[f]>> \in Tables[f]

AttributesTypeOK ==
  /\ mutexattr \in [Fields -> 0..3]
  /\ DOMAIN asked = Settings
  /\ DOMAIN attr = DOMAIN Tables

\* The conjunction is inductive: it is proved in CallsProofs.
AttributesIInv ==
  AttributesTypeOK /\ FieldsAsAsked /\ BitsAsAsked /\ NumbersAsAsked /\ ObjectsAsAsked
=============================================================================
