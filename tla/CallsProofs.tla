------------------------------ MODULE CallsProofs ------------------------------
(* What Attributes, SocketOptions, Exits, NamedFiles and Lists promise, for  *)
(* any values, handlers, libraries, boxes, paths, devices and lists: one     *)
(* inductive invariant each.                                                 *)
EXTENDS Attributes, Lists, SocketOptions, Exits, NamedFiles, FiniteSetTheorems, FunctionTheorems,
        TLAPS

-----------------------------------------------------------------------------
(* Attributes                                                                *)

\* The settings are apart: one is a bit field, a bit or a number of FreeBSD's.
LEMMA SettingsApart ==
  /\ Fields = {"kind", "prioceiling", "protocol", "pshared", "robust"}
  /\ DOMAIN Tables = {"inheritsched", "policy", "scope"}
  /\ Fields \cap DOMAIN Tables = {}
  /\ WordBits = {"clock", "cond pshared", "barrier pshared"}
  /\ \A f \in WordBits \cup {"priority"} : f \notin Fields \cup DOMAIN Tables
  /\ "priority" \notin WordBits
  /\ Settings = Fields \cup DOMAIN Tables \cup WordBits \cup {"priority"}
BY DEF Fields, NBITS, Tables, WordBits, Settings

LEMMA SmallNumbers == 0 \in 0..3 /\ 0 # 1 /\ 0 # 4
OBVIOUS

\* What fits in a field is read from it as it was.
LEMMA FieldsKeep ==
  ASSUME NEW f \in Fields, NEW v, Fits(f, v)
  PROVE  v \in 0..3 /\ v % 2 ^ NBITS[f] = v
<1>1. NBITS[f] \in {1, 2}
  BY DEF Fields, NBITS
<1>2. 2 ^ 1 = 2 /\ 2 ^ 2 = 4
  OBVIOUS
<1>3. CASE NBITS[f] = 1
  BY <1>2, <1>3 DEF Fits
<1>4. CASE NBITS[f] = 2
  BY <1>2, <1>4 DEF Fits
<1> QED
  BY <1>1, <1>3, <1>4

\* No number of Linux's has two of FreeBSD's, and none of FreeBSD's two of
\* Linux's: what is converted in is read as it was.
LEMMA TablesConvert ==
  ASSUME NEW f \in DOMAIN Tables
  PROVE  /\ \A p, q \in Tables[f] : (p[1] = q[1] <=> p[2] = q[2]) /\ p = <<p[1], p[2]>>
         /\ \A v : Has(Tables[f], v) => <<v, ToFreeBSD(Tables[f], v)>> \in Tables[f]
         /\ \A p \in Tables[f] : FromFreeBSD(Tables[f], p[2]) = p[1]
<1>1. Tables[f] \in {Inherit, Policies, Scopes}
  BY DEF Tables
<1>2. \A p, q \in Tables[f] : (p[1] = q[1] <=> p[2] = q[2]) /\ p = <<p[1], p[2]>>
  BY <1>1 DEF Inherit, Policies, Scopes
<1>3. ASSUME NEW v, Has(Tables[f], v)
      PROVE  <<v, ToFreeBSD(Tables[f], v)>> \in Tables[f]
  <2> DEFINE c == CHOOSE p \in Tables[f] : p[1] = v
  <2>1. c \in Tables[f] /\ c[1] = v
    BY <1>3 DEF Has
  <2>2. ToFreeBSD(Tables[f], v) = c[2]
    BY DEF ToFreeBSD
  <2> HIDE DEF c
  <2> QED
    BY <1>2, <2>1, <2>2
<1>4. ASSUME NEW p \in Tables[f] PROVE FromFreeBSD(Tables[f], p[2]) = p[1]
  <2> DEFINE c == CHOOSE q \in Tables[f] : q[2] = p[2]
  <2>1. c \in Tables[f] /\ c[2] = p[2]
    OBVIOUS
  <2>2. FromFreeBSD(Tables[f], p[2]) = c[1]
    BY DEF FromFreeBSD
  <2> HIDE DEF c
  <2> QED
    BY <1>2, <2>1, <2>2
<1> QED
  BY <1>2, <1>3, <1>4

LEMMA AttributesStart == AttributesInit => AttributesIInv
<1> SUFFICES ASSUME AttributesInit PROVE AttributesIInv
  OBVIOUS
<1>0. mutexattr \in [Fields -> 0..3]
  BY SmallNumbers, Zenon DEF AttributesInit
<1> USE SettingsApart DEF AttributesInit
<1>1. AttributesTypeOK
  <2>1. DOMAIN attr = {"inheritsched", "policy", "scope"}
    OBVIOUS
  <2>2. mutexattr \in [Fields -> 0..3]
    BY <1>0
  <2> QED
    BY <2>1, <2>2 DEF AttributesTypeOK
<1>2. FieldsAsAsked
  BY DEF FieldsAsAsked
<1>3. BitsAsAsked
  BY DEF BitsAsAsked, NativeShared, CLOCK_REALTIME, PROCESS_PRIVATE
<1>4. NumbersAsAsked
  <2>1. <<0, 4>> \in Inherit /\ <<0, 2>> \in Policies /\ <<0, 2>> \in Scopes
    BY DEF Inherit, Policies, Scopes
  <2>2. Tables["inheritsched"] = Inherit /\ Tables["policy"] = Policies /\ Tables["scope"] = Scopes
    BY DEF Tables
  <2>3. attr["inheritsched"] = 4 /\ attr["policy"] = 2 /\ attr["scope"] = 2
    OBVIOUS
  <2>4. \A f \in DOMAIN Tables : asked[f] = 0
    OBVIOUS
  <2> QED
    BY <2>1, <2>2, <2>3, <2>4 DEF NumbersAsAsked
<1>5. ObjectsAsAsked
  BY DEF ObjectsAsAsked
<1> QED
  BY <1>1, <1>2, <1>3, <1>4, <1>5 DEF AttributesIInv

\* Without an object there is nothing to say of one.
LEMMA NothingMade ==
  ASSUME made' = NULL
  PROVE  ObjectsAsAsked'
BY DEF ObjectsAsAsked

LEMMA FieldSet ==
  ASSUME AttributesIInv, NEW f \in Fields, NEW v, pthread_mutexattr_set(f, v)
  PROVE  AttributesIInv'
<1>1. CASE AttributesDie
  BY <1>1
  DEF AttributesDie, AttributesIInv, AttributesTypeOK, FieldsAsAsked, BitsAsAsked,
      NumbersAsAsked, ObjectsAsAsked
<1>2. CASE /\ Fits(f, v) /\ Asks(f, v)
           /\ mutexattr' = [mutexattr EXCEPT ![f] = v % 2 ^ NBITS[f]]
           /\ UNCHANGED <<condattr, barrierattr, attr>>
  <2>1. v \in 0..3 /\ v % 2 ^ NBITS[f] = v
    BY <1>2, FieldsKeep
  <2>2. mutexattr' = [mutexattr EXCEPT ![f] = v]
    BY <1>2, <2>1
  <2>3. AttributesTypeOK'
    BY <1>2, <2>1, <2>2 DEF Asks, AttributesIInv, AttributesTypeOK
  <2>4. FieldsAsAsked'
    BY <1>2, <2>2 DEF Settings, Asks, AttributesIInv, AttributesTypeOK, FieldsAsAsked
  <2>5. BitsAsAsked'
    BY <1>2, SettingsApart DEF Asks, AttributesIInv, AttributesTypeOK, BitsAsAsked
  <2>6. NumbersAsAsked'
    BY <1>2, SettingsApart DEF Asks, AttributesIInv, AttributesTypeOK, NumbersAsAsked
  <2> QED
    BY <1>2, <2>3, <2>4, <2>5, <2>6, NothingMade DEF Asks, AttributesIInv
<1> QED
  BY <1>1, <1>2 DEF pthread_mutexattr_set

\* Conditions' and barriers' settings: one bit is set, the others stay.
LEMMA BitSet ==
  ASSUME AttributesIInv, NEW v,
         \/ pthread_condattr_setclock(v)
         \/ pthread_condattr_setpshared(v)
         \/ pthread_barrierattr_setpshared(v)
  PROVE  AttributesIInv'
<1>1. CASE AttributesDie \/ UNCHANGED attributesVars
  BY <1>1
  DEF AttributesDie, attributesVars, AttributesIInv, AttributesTypeOK, FieldsAsAsked, BitsAsAsked,
      NumbersAsAsked, ObjectsAsAsked
<1>2. ASSUME NEW f \in {"clock", "cond pshared", "barrier pshared"}, Asks(f, v),
             UNCHANGED <<mutexattr, attr>>
      PROVE  AttributesTypeOK' /\ FieldsAsAsked' /\ NumbersAsAsked' /\ ObjectsAsAsked'
  <2>1. AttributesTypeOK' /\ FieldsAsAsked'
    BY <1>2, SettingsApart
    DEF Asks, AttributesIInv, AttributesTypeOK, FieldsAsAsked
  <2>2. NumbersAsAsked'
    BY <1>2, SettingsApart DEF Asks, AttributesIInv, AttributesTypeOK, NumbersAsAsked
  <2> QED
    BY <1>2, <2>1, <2>2, NothingMade DEF Asks
<1> USE DEF CLOCK_REALTIME, CLOCK_MONOTONIC, PROCESS_PRIVATE, PROCESS_SHARED, MONOTONIC, SHARED,
            BARRIER_SHARED
<1>3. CASE /\ v \in {CLOCK_REALTIME, CLOCK_MONOTONIC} /\ Asks("clock", v)
           /\ condattr' = WithClock(v) /\ UNCHANGED <<mutexattr, barrierattr, attr>>
  <2>1. BitsAsAsked'
    BY <1>3, SettingsApart
    DEF Asks, AttributesIInv, AttributesTypeOK, BitsAsAsked, WithClock, NativeShared
  <2> QED
    BY <1>2, <1>3, <2>1 DEF AttributesIInv
<1>4. CASE /\ v \in {PROCESS_PRIVATE, PROCESS_SHARED} /\ Asks("cond pshared", v)
           /\ condattr' = WithShared(condattr, SHARED, v)
           /\ UNCHANGED <<mutexattr, barrierattr, attr>>
  <2>1. BitsAsAsked'
    BY <1>4, SettingsApart
    DEF Asks, AttributesIInv, AttributesTypeOK, BitsAsAsked, WithShared, NativeShared
  <2> QED
    BY <1>2, <1>4, <2>1 DEF AttributesIInv
<1>5. CASE /\ v \in {PROCESS_PRIVATE, PROCESS_SHARED} /\ Asks("barrier pshared", v)
           /\ barrierattr' = WithShared(barrierattr, BARRIER_SHARED, v)
           /\ UNCHANGED <<mutexattr, condattr, attr>>
  <2>1. BitsAsAsked'
    BY <1>5, SettingsApart
    DEF Asks, AttributesIInv, AttributesTypeOK, BitsAsAsked, WithShared, NativeShared
  <2> QED
    BY <1>2, <1>5, <2>1 DEF AttributesIInv
<1> QED
  BY <1>1, <1>3, <1>4, <1>5
  DEF pthread_condattr_setclock, pthread_condattr_setpshared, pthread_barrierattr_setpshared

LEMMA NumberSet ==
  ASSUME AttributesIInv, NEW f \in DOMAIN Tables, NEW v, pthread_attr_set(f, v)
  PROVE  AttributesIInv'
<1>1. CASE AttributesDie
  BY <1>1
  DEF AttributesDie, AttributesIInv, AttributesTypeOK, FieldsAsAsked, BitsAsAsked,
      NumbersAsAsked, ObjectsAsAsked
<1>2. CASE /\ Has(Tables[f], v) /\ Asks(f, v)
           /\ attr' = [attr EXCEPT ![f] = ToFreeBSD(Tables[f], v)]
           /\ UNCHANGED <<mutexattr, condattr, barrierattr>>
  <2>1. <<v, ToFreeBSD(Tables[f], v)>> \in Tables[f]
    BY <1>2, TablesConvert
  <2>2. AttributesTypeOK' /\ FieldsAsAsked'
    BY <1>2, SettingsApart DEF Asks, AttributesIInv, AttributesTypeOK, FieldsAsAsked
  <2>3. BitsAsAsked'
    BY <1>2, SettingsApart DEF Asks, AttributesIInv, AttributesTypeOK, BitsAsAsked
  <2>4. NumbersAsAsked'
    BY <1>2, <2>1 DEF Settings, Asks, AttributesIInv, AttributesTypeOK, NumbersAsAsked
  <2> QED
    BY <1>2, <2>2, <2>3, <2>4, NothingMade DEF Asks, AttributesIInv
<1> QED
  BY <1>1, <1>2 DEF pthread_attr_set

\* A priority is not stored.
LEMMA PrioritySet ==
  ASSUME AttributesIInv, NEW v, pthread_attr_setschedparam(v)
  PROVE  AttributesIInv'
<1>1. /\ asked' = [asked EXCEPT !["priority"] = v] /\ made' = NULL
      /\ UNCHANGED <<mutexattr, condattr, barrierattr, attr>>
  BY DEF pthread_attr_setschedparam, Asks
<1>2. AttributesTypeOK' /\ FieldsAsAsked'
  BY <1>1, SettingsApart DEF AttributesIInv, AttributesTypeOK, FieldsAsAsked
<1>3. BitsAsAsked'
  BY <1>1, SettingsApart DEF AttributesIInv, AttributesTypeOK, BitsAsAsked, NativeShared
<1>4. NumbersAsAsked'
  BY <1>1, SettingsApart DEF AttributesIInv, AttributesTypeOK, NumbersAsAsked
<1> QED
  BY <1>1, <1>2, <1>3, <1>4, NothingMade DEF AttributesIInv

LEMMA AttributesReset ==
  ASSUME AttributesIInv,
         pthread_mutexattr_init \/ pthread_condattr_init \/ pthread_barrierattr_init
  PROVE  AttributesIInv'
<1> USE SettingsApart
        DEF AttributesIInv, AttributesTypeOK, FieldsAsAsked, BitsAsAsked, NumbersAsAsked,
            NativeShared, CLOCK_REALTIME, PROCESS_PRIVATE
<1>1. CASE pthread_mutexattr_init
  <2>1. /\ mutexattr' = [f \in Fields |-> 0]
        /\ asked' = [f \in DOMAIN asked |-> IF f \in Fields THEN 0 ELSE asked[f]]
        /\ UNCHANGED <<condattr, barrierattr, attr>>
    BY <1>1 DEF pthread_mutexattr_init
  <2>2. AttributesTypeOK'
    <3>1. mutexattr' \in [Fields -> 0..3]
      BY ONLY <2>1, SmallNumbers, Zenon
    <3>2. DOMAIN asked' = DOMAIN asked
      BY ONLY <2>1
    <3> QED
      BY <2>1, <3>1, <3>2
  <2>3. FieldsAsAsked'
    BY <2>1
  <2>4. BitsAsAsked' /\ NumbersAsAsked'
    BY <2>1
  <2> QED
    BY <1>1, <2>2, <2>3, <2>4, NothingMade DEF pthread_mutexattr_init
<1>2. CASE pthread_condattr_init
  BY <1>2, NothingMade DEF pthread_condattr_init
<1>3. CASE pthread_barrierattr_init
  BY <1>3, NothingMade DEF pthread_barrierattr_init
<1> QED
  BY <1>1, <1>2, <1>3

LEMMA KindsConvert ==
  \A k \in 0..3 : LET native == ToFreeBSD(Kinds, k) IN native + k = 3 \/ (k = 3 /\ native = 4)
<1> SUFFICES ASSUME NEW k \in 0..3
             PROVE  ToFreeBSD(Kinds, k) + k = 3 \/ (k = 3 /\ ToFreeBSD(Kinds, k) = 4)
  OBVIOUS
<1> DEFINE c == CHOOSE p \in Kinds : p[1] = k
<1>1. \E p \in Kinds : p[1] = k
  BY DEF Kinds
<1>2. c \in Kinds /\ c[1] = k
  BY <1>1
<1>3. ToFreeBSD(Kinds, k) = c[2]
  BY DEF ToFreeBSD
<1> HIDE DEF c
<1> QED
  BY <1>2, <1>3 DEF Kinds

LEMMA ClocksConvert == ToFreeBSD(Clocks, 1) = 4 /\ ToFreeBSD(Clocks, 0) = 0
<1> SUFFICES ASSUME NEW k \in {0, 1} PROVE ToFreeBSD(Clocks, k) = 4 * k
  OBVIOUS
<1> DEFINE c == CHOOSE p \in Clocks : p[1] = k
<1>1. \E p \in Clocks : p[1] = k
  BY DEF Clocks
<1>2. c \in Clocks /\ c[1] = k
  BY <1>1
<1>3. ToFreeBSD(Clocks, k) = c[2]
  BY DEF ToFreeBSD
<1> HIDE DEF c
<1> QED
  BY <1>2, <1>3 DEF Clocks

LEMMA ObjectMade ==
  ASSUME AttributesIInv, pthread_mutex_init \/ pthread_cond_init \/ pthread_barrier_init
  PROVE  AttributesIInv'
<1>1. CASE AttributesDie
  BY <1>1
  DEF AttributesDie, AttributesIInv, AttributesTypeOK, FieldsAsAsked, BitsAsAsked,
      NumbersAsAsked, ObjectsAsAsked
<1>2. ASSUME NEW object, Makes(object), ObjectsAsAsked' PROVE AttributesIInv'
  BY <1>2 DEF Makes, AttributesIInv, AttributesTypeOK, FieldsAsAsked, BitsAsAsked, NumbersAsAsked
<1>3. CASE pthread_mutex_init /\ ~AttributesDie
  <2> DEFINE object == [is |-> "mutex", kind |-> ToFreeBSD(Kinds, mutexattr.kind),
                        protocol |-> mutexattr.protocol, pshared |-> mutexattr.pshared,
                        robust |-> mutexattr.robust]
  <2>1. Makes(object)
    BY <1>3 DEF pthread_mutex_init
  <2>2. mutexattr.kind \in 0..3 /\ asked.kind = mutexattr.kind
    BY SettingsApart DEF AttributesIInv, AttributesTypeOK, FieldsAsAsked
  <2>3. /\ object.is = "mutex" /\ object.kind = ToFreeBSD(Kinds, mutexattr.kind)
        /\ object["protocol"] = mutexattr["protocol"]
        /\ object["pshared"] = mutexattr["pshared"] /\ object["robust"] = mutexattr["robust"]
    OBVIOUS
  <2>4. \A f \in {"protocol", "pshared", "robust"} : asked[f] = mutexattr[f]
    BY SettingsApart DEF AttributesIInv, FieldsAsAsked
  <2> HIDE DEF object
  <2>5. ObjectsAsAsked'
    BY <2>1, <2>2, <2>3, <2>4, KindsConvert DEF Makes, ObjectsAsAsked
  <2> QED
    BY <1>2, <2>1, <2>5
<1>4. CASE pthread_cond_init
  <2> DEFINE object == [is |-> "condition", clock |-> NativeClock,
                        pshared |-> NativeShared(condattr, SHARED)]
  <2>1. Makes(object)
    BY <1>4 DEF pthread_cond_init
  <2>2. /\ object.is = "condition" /\ object.clock = NativeClock
        /\ object.pshared = NativeShared(condattr, SHARED)
    OBVIOUS
  <2> HIDE DEF object
  <2>3. NativeClock = 4 <=> asked["clock"] = CLOCK_MONOTONIC
    <3>1. asked["clock"] = IF MONOTONIC \in condattr THEN CLOCK_MONOTONIC ELSE CLOCK_REALTIME
      BY DEF AttributesIInv, BitsAsAsked
    <3>2. CASE MONOTONIC \in condattr
      BY <3>1, <3>2, ClocksConvert, Zenon DEF NativeClock, CLOCK_MONOTONIC
    <3>3. CASE MONOTONIC \notin condattr
      BY <3>1, <3>3, ClocksConvert, SmallNumbers, Zenon
      DEF NativeClock, CLOCK_MONOTONIC, CLOCK_REALTIME
    <3> QED
      BY <3>2, <3>3
  <2>4. ObjectsAsAsked'
    BY <2>1, <2>2, <2>3 DEF Makes, ObjectsAsAsked, AttributesIInv, BitsAsAsked
  <2> QED
    BY <1>2, <2>1, <2>4
<1>5. CASE pthread_barrier_init
  <2> DEFINE object == [is |-> "barrier", pshared |-> NativeShared(barrierattr, BARRIER_SHARED)]
  <2>1. Makes(object)
    BY <1>5 DEF pthread_barrier_init
  <2>2. object.is = "barrier" /\ object.pshared = NativeShared(barrierattr, BARRIER_SHARED)
    OBVIOUS
  <2> HIDE DEF object
  <2>3. ObjectsAsAsked'
    BY <2>1, <2>2 DEF Makes, ObjectsAsAsked, AttributesIInv, BitsAsAsked
  <2> QED
    BY <1>2, <2>1, <2>3
<1> QED
  BY <1>1, <1>3, <1>4, <1>5

LEMMA AttributesStep == AttributesIInv /\ [AttributesNext]_attributesVars => AttributesIInv'
<1> SUFFICES ASSUME AttributesIInv, [AttributesNext]_attributesVars PROVE AttributesIInv'
  OBVIOUS
<1>1. CASE UNCHANGED attributesVars
  BY <1>1
  DEF attributesVars, AttributesIInv, AttributesTypeOK, FieldsAsAsked, BitsAsAsked,
      NumbersAsAsked, ObjectsAsAsked
<1>2. CASE AttributesNext
  BY <1>2, FieldSet, BitSet, NumberSet, PrioritySet, AttributesReset, ObjectMade
  DEF AttributesNext
<1> QED
  BY <1>1, <1>2

\* What was asked for last is what the attribute has: in a bit field, as a bit
\* or as a number of FreeBSD's.
THEOREM AttributesIInvCorrect == AttributesSpec => []AttributesIInv
BY AttributesStart, AttributesStep, PTL DEF AttributesSpec

\* Whatever is set in between, in whatever order, a setting reads as it was set
\* last, a thread's priority as the default: the bit fields, the bits and
\* FreeBSD's numbers stay apart.
THEOREM SettingsReadCorrect == AttributesSpec => []SettingsRead
<1>1. AttributesIInv => SettingsRead
  <2> SUFFICES ASSUME AttributesIInv, NEW f \in Settings
               PROVE  Get(f) = IF f = "priority" THEN DEFAULT_PRIORITY ELSE asked[f]
    BY DEF SettingsRead
  <2>1. CASE f \in Fields
    BY <2>1, SettingsApart DEF Get, AttributesIInv, FieldsAsAsked
  <2>2. CASE f \in DOMAIN Tables
    <3>1. <<asked[f], attr[f]>> \in Tables[f]
      BY <2>2 DEF AttributesIInv, NumbersAsAsked
    <3>2. FromFreeBSD(Tables[f], attr[f]) = asked[f]
      BY <2>2, <3>1, TablesConvert
    <3> QED
      BY <2>2, <3>2, SettingsApart DEF Get
  <2>3. CASE f \in WordBits
    BY <2>3, SettingsApart DEF Get, AttributesIInv, BitsAsAsked
  <2>4. CASE f = "priority"
    BY <2>4, SettingsApart DEF Get
  <2> QED
    BY <2>1, <2>2, <2>3, <2>4, SettingsApart
<1> QED
  BY <1>1, AttributesIInvCorrect, PTL

\* A mutex, a condition or a barrier is made of the type, protocol, robustness,
\* clock and sharing that were asked for.
THEOREM ObjectsAsAskedCorrect == AttributesSpec => []ObjectsAsAsked
BY AttributesIInvCorrect, PTL DEF AttributesIInv

-----------------------------------------------------------------------------
(* Socket options                                                            *)

\* FreeBSD's number of each option of Linux, all of them different.
NativeNumbers ==
  {<<<<1, 2>>, <<65535, 4>>>>, <<<<1, 4>>, <<65535, 4103>>>>, <<<<1, 6>>, <<65535, 32>>>>,
   <<<<1, 7>>, <<65535, 4097>>>>, <<<<1, 8>>, <<65535, 4098>>>>, <<<<1, 9>>, <<65535, 8>>>>,
   <<<<1, 16>>, <<0, 3>>>>, <<<<0, 10>>, <<0, 67>>>>, <<<<0, 11>>, <<0, -1>>>>,
   <<<<0, 13>>, <<0, 68>>>>, <<<<41, 26>>, <<0, 27>>>>, <<<<6, 1>>, <<6, 1>>>>,
   <<<<6, 4>>, <<6, 256>>>>, <<<<6, 5>>, <<6, 512>>>>, <<<<6, 18>>, <<6, -1>>>>}

LEMMA LinuxOptionsAre == LinuxOptions = {p[1] : p \in NativeNumbers}
<1>1. /\ OptsOf(SOL_SOCKET) = so_opts \cup {<<16, 3>>}
      /\ OptsOf(SOL_IP) = ip4_opts
      /\ OptsOf(SOL_IPV6) = ip6_opts
      /\ OptsOf(SOL_TCP) = tcp_opts
  BY DEF OptsOf, SOL_SOCKET, SOL_IP, SOL_IPV6, SOL_TCP, SO_PASSCRED, LOCAL_CREDS_PERSISTENT
<1>2. LinuxOptions = {<<1, p[1]>> : p \in so_opts \cup {<<16, 3>>}}
                     \cup {<<0, p[1]>> : p \in ip4_opts} \cup {<<41, p[1]>> : p \in ip6_opts}
                     \cup {<<6, p[1]>> : p \in tcp_opts}
  BY <1>1 DEF LinuxOptions, SOL_SOCKET, SOL_IP, SOL_IPV6, SOL_TCP
<1>3. /\ {<<1, p[1]>> : p \in so_opts \cup {<<16, 3>>}}
         = {<<1, 2>>, <<1, 4>>, <<1, 6>>, <<1, 7>>, <<1, 8>>, <<1, 9>>, <<1, 16>>}
      /\ {<<0, p[1]>> : p \in ip4_opts} = {<<0, 10>>, <<0, 11>>, <<0, 13>>}
      /\ {<<41, p[1]>> : p \in ip6_opts} = {<<41, 26>>}
      /\ {<<6, p[1]>> : p \in tcp_opts} = {<<6, 1>>, <<6, 4>>, <<6, 5>>, <<6, 18>>}
  BY DEF so_opts, ip4_opts, ip6_opts, tcp_opts
<1>4. {p[1] : p \in NativeNumbers}
        = {<<1, 2>>, <<1, 4>>, <<1, 6>>, <<1, 7>>, <<1, 8>>, <<1, 9>>, <<1, 16>>,
           <<0, 10>>, <<0, 11>>, <<0, 13>>, <<41, 26>>, <<6, 1>>, <<6, 4>>, <<6, 5>>, <<6, 18>>}
  BY DEF NativeNumbers
<1> QED
  BY <1>2, <1>3, <1>4

LEMMA NativeOptionIs == \A p \in NativeNumbers : NativeOption(p[1]) = p[2] /\ KnownOption(p[1])
<1>1. /\ OptsOf(1) = so_opts \cup {<<16, 3>>}
      /\ OptsOf(0) = ip4_opts
      /\ OptsOf(41) = ip6_opts
      /\ OptsOf(6) = tcp_opts
  BY DEF OptsOf, SOL_SOCKET, SOL_IP, SOL_IPV6, SOL_TCP, SO_PASSCRED, LOCAL_CREDS_PERSISTENT
<1>2. \A level \in {0, 1, 6, 41} : \A p, q \in OptsOf(level) : p[1] = q[1] => p = q
  BY <1>1 DEF so_opts, ip4_opts, ip6_opts, tcp_opts
<1>3. ASSUME NEW level \in {0, 1, 6, 41}, NEW q \in OptsOf(level)
      PROVE  /\ NativeOption(<<level, q[1]>>) = <<NativeLevel(<<level, q[1]>>), q[2]>>
             /\ KnownOption(<<level, q[1]>>)
  <2> DEFINE o == <<level, q[1]>>
             c == CHOOSE p \in OptsOf(o[1]) : p[1] = o[2]
  <2>1. o[1] = level /\ o[2] = q[1]
    OBVIOUS
  <2>2. NativeOption(o) = <<NativeLevel(o), c[2]>>
    BY Zenon DEF NativeOption
  <2> HIDE DEF o
  <2>3. c \in OptsOf(o[1]) /\ c[1] = o[2]
    BY <2>1
  <2> HIDE DEF c
  <2>4. c = q
    BY <1>2, <2>1, <2>3
  <2>5. KnownOption(o)
    BY <2>1 DEF KnownOption
  <2> QED
    BY <2>2, <2>4, <2>5 DEF o
<1>4. \A n : /\ NativeLevel(<<1, n>>) = IF n = 16 THEN 0 ELSE 65535
             /\ NativeLevel(<<0, n>>) = 0
             /\ NativeLevel(<<41, n>>) = 0
             /\ NativeLevel(<<6, n>>) = 6
  BY DEF NativeLevel, SOL_SOCKET, SO_PASSCRED, SOL_IP, SOL_IPV6, SOL_TCP, SOL_LOCAL,
         NATIVE_SOL_SOCKET, IPPROTO_IP, IPPROTO_TCP
<1>5. ASSUME NEW q \in so_opts \cup {<<16, 3>>}
      PROVE  /\ NativeOption(<<1, q[1]>>) = <<IF q[1] = 16 THEN 0 ELSE 65535, q[2]>>
             /\ KnownOption(<<1, q[1]>>)
  <2> DEFINE n == IF q[1] = 16 THEN 0 ELSE 65535
  <2>1. q \in OptsOf(1)
    BY <1>1
  <2>2. NativeLevel(<<1, q[1]>>) = n
    BY <1>4
  <2> HIDE DEF n
  <2>3. NativeOption(<<1, q[1]>>) = <<n, q[2]>> /\ KnownOption(<<1, q[1]>>)
    BY <1>3, <2>1, <2>2, Zenon
  <2> QED
    BY <2>3 DEF n
<1>6. ASSUME NEW q \in ip4_opts
      PROVE  NativeOption(<<0, q[1]>>) = <<0, q[2]>> /\ KnownOption(<<0, q[1]>>)
  <2>1. q \in OptsOf(0)
    BY <1>1
  <2>2. NativeLevel(<<0, q[1]>>) = 0
    BY <1>4
  <2> QED
    BY <1>3, <2>1, <2>2, Zenon
<1>7. ASSUME NEW q \in ip6_opts
      PROVE  NativeOption(<<41, q[1]>>) = <<0, q[2]>> /\ KnownOption(<<41, q[1]>>)
  <2>1. q \in OptsOf(41)
    BY <1>1
  <2>2. NativeLevel(<<41, q[1]>>) = 0
    BY <1>4
  <2> QED
    BY <1>3, <2>1, <2>2, Zenon
<1>8. ASSUME NEW q \in tcp_opts
      PROVE  NativeOption(<<6, q[1]>>) = <<6, q[2]>> /\ KnownOption(<<6, q[1]>>)
  <2>1. q \in OptsOf(6)
    BY <1>1
  <2>2. NativeLevel(<<6, q[1]>>) = 6
    BY <1>4
  <2> QED
    BY <1>3, <2>1, <2>2, Zenon
<1> SUFFICES ASSUME NEW p \in NativeNumbers PROVE NativeOption(p[1]) = p[2] /\ KnownOption(p[1])
  OBVIOUS
<1> HIDE DEF NativeOption, KnownOption
<1>9. CASE p[1][1] = 1
  <2>1. \E q \in so_opts \cup {<<16, 3>>} :
          p[1] = <<1, q[1]>> /\ p[2] = <<IF q[1] = 16 THEN 0 ELSE 65535, q[2]>>
    BY <1>9 DEF NativeNumbers, so_opts
  <2> QED
    BY <1>5, <2>1
<1>10. CASE p[1][1] = 0
  <2>1. \E q \in ip4_opts : p[1] = <<0, q[1]>> /\ p[2] = <<0, q[2]>>
    BY <1>10 DEF NativeNumbers, ip4_opts
  <2> QED
    BY <1>6, <2>1
<1>11. CASE p[1][1] = 41
  <2>1. \E q \in ip6_opts : p[1] = <<41, q[1]>> /\ p[2] = <<0, q[2]>>
    BY <1>11 DEF NativeNumbers, ip6_opts
  <2> QED
    BY <1>7, <2>1
<1>12. CASE p[1][1] = 6
  <2>1. \E q \in tcp_opts : p[1] = <<6, q[1]>> /\ p[2] = <<6, q[2]>>
    BY <1>12 DEF NativeNumbers, tcp_opts
  <2> QED
    BY <1>8, <2>1
<1> QED
  BY <1>9, <1>10, <1>11, <1>12 DEF NativeNumbers

\* No option of Linux's is FreeBSD's of another, on whatever level it is.
LEMMA OptionsApart ==
  \A o, p \in LinuxOptions : NativeOption(o) = NativeOption(p) => o = p
<1>1. \A a, b \in NativeNumbers : a[2] = b[2] => a[1] = b[1]
  BY DEF NativeNumbers
<1> QED
  BY <1>1, LinuxOptionsAre, NativeOptionIs

\* A flag is kept as some bit, and what Linux counts FreeBSD keeps as a number,
\* or as 1 if it is flattened.
LEMMA StoredTells ==
  ASSUME OptionsTypeOK, NEW o \in LinuxOptions, NEW v
  PROVE  /\ o \in Counts => Stored(NativeOption(o), v) =
                             IF o \in Flattened /\ v # 0 THEN 1 ELSE v
         /\ Stored(NativeOption(o), v) = 0 <=> v = 0
<1>1. \A n : FlagBit(n) # 0
  BY DEF FlagBit
<1>2. Stored(NativeOption(o), v) = 0 <=> v = 0
  BY <1>1 DEF Stored
<1>3. ASSUME o \in Counts \ Flattened PROVE Stored(NativeOption(o), v) = v
  <2>1. o \in {<<1, 7>>, <<1, 8>>, <<6, 4>>, <<6, 5>>}
    BY <1>3 DEF Counts, Flattened, SOL_SOCKET, SOL_TCP
  <2>2. \E p \in NativeNumbers :
          p[1] = o /\ p[2] \in {<<65535, 4097>>, <<65535, 4098>>, <<6, 256>>, <<6, 512>>}
    BY <2>1 DEF NativeNumbers
  <2>3. NativeOption(o) \in {<<65535, 4097>>, <<65535, 4098>>, <<6, 256>>, <<6, 512>>}
    BY <2>2, NativeOptionIs
  <2>4. \A n \in {<<65535, 4097>>, <<65535, 4098>>, <<6, 256>>, <<6, 512>>} : KeepsNumber(n)
    BY DEF KeepsNumber, Numbers, SOL_LOCAL
  <2> QED
    BY <2>3, <2>4 DEF Stored
<1>4. ASSUME o \in Flattened
      PROVE  Stored(NativeOption(o), v) = IF v = 0 THEN 0 ELSE 1
  <2>1. o = <<0, 10>>
    BY <1>4 DEF Flattened, SOL_IP, IP_MTU_DISCOVER
  <2>2. <<<<0, 10>>, <<0, 67>>>> \in NativeNumbers
    BY DEF NativeNumbers
  <2>3. NativeOption(o) = <<0, 67>>
    BY <2>1, <2>2, NativeOptionIs
  <2>4. ~KeepsNumber(<<0, 67>>) /\ FlagBit(<<0, 67>>) = 1
    BY DEF KeepsNumber, Numbers, FlagBit
  <2> QED
    BY <2>3, <2>4 DEF Stored
<1> QED
  BY <1>2, <1>3, <1>4

LEMMA OptionsStart == OptionsInit => OptionsIInv
<1> SUFFICES ASSUME OptionsInit PROVE OptionsIInv
  OBVIOUS
<1>1. OptionsTypeOK
  BY DEF OptionsInit, OptionsTypeOK
<1>2. OptionsStored
  BY <1>1, StoredTells DEF OptionsInit, OptionsStored
<1>3. OptionsKept
  BY DEF OptionsInit, OptionsKept
<1> QED
  BY <1>1, <1>2, <1>3 DEF OptionsIInv

\* Steps that set no option keep what is stored.
LEMMA OptionsStay ==
  ASSUME OptionsIInv, UNCHANGED <<domain, option, accepted>>, read' = NULL \/ UNCHANGED read
  PROVE  OptionsIInv'
BY DEF OptionsIInv, OptionsTypeOK, OptionsStored, OptionsKept, Stored, KeepsNumber

LEMMA OptionSet ==
  ASSUME OptionsIInv, NEW o \in LinuxOptions, NEW v, setsockopt(o, v)
  PROVE  OptionsIInv'
<1> DEFINE n == NativeOption(o)
<1>1. accepted' = [accepted EXCEPT ![o] = v] /\ domain' = domain /\ read' = NULL
  BY DEF setsockopt, OptionsLive
<1>2. \A m, w : Stored(m, w)' = Stored(m, w)
  BY <1>1 DEF Stored, KeepsNumber
<1>3. \A p \in LinuxOptions : accepted'[p] = IF p = o THEN v ELSE accepted[p]
  BY <1>1 DEF OptionsIInv, OptionsTypeOK
<1>4. OptionsTypeOK'
  BY <1>1 DEF setsockopt, OptionsIInv, OptionsTypeOK
<1>5. ASSUME NEW p \in LinuxOptions, NativeOption(p) \in OptionsOf(domain),
             ~Dropped(p, accepted'[p])
      PROVE  option'[NativeOption(p)] = Stored(NativeOption(p), accepted'[p])
  <2>1. CASE p = o
    <3>1. option' = [option EXCEPT ![n] = Stored(n, v)]
      BY <1>3, <1>5, <2>1 DEF setsockopt
    <3> QED
      BY <1>3, <1>5, <2>1, <3>1 DEF OptionsIInv, OptionsTypeOK
  <2>2. CASE p # o
    <3>1. NativeOption(p) # n
      BY <2>2, OptionsApart
    <3>2. option'[NativeOption(p)] = option[NativeOption(p)]
      BY <1>5, <3>1 DEF setsockopt, OptionsIInv, OptionsTypeOK
    <3> QED
      BY <1>3, <1>5, <2>2, <3>2 DEF OptionsIInv, OptionsStored
  <2> QED
    BY <2>1, <2>2
<1>6. OptionsStored'
  BY <1>1, <1>2, <1>5 DEF OptionsStored, Dropped
<1> QED
  BY <1>1, <1>4, <1>6 DEF OptionsIInv, OptionsKept

LEMMA OptionRead ==
  ASSUME OptionsIInv, NEW o \in LinuxOptions, getsockopt(o)
  PROVE  OptionsIInv'
<1>1. UNCHANGED <<domain, option, accepted>>
  BY DEF getsockopt, OptionsLive
<1>2. OptionsTypeOK' /\ OptionsStored'
  BY <1>1 DEF OptionsIInv, OptionsTypeOK, OptionsStored, Stored, KeepsNumber
<1>3. CASE o = <<SOL_SOCKET, SO_ERROR>>
  <2>1. read'.option = o
    BY <1>3 DEF getsockopt
  <2> QED
    BY <1>2, <1>3, <2>1 DEF OptionsIInv, OptionsKept
<1>4. CASE o # <<SOL_SOCKET, SO_ERROR>>
  <2>1. /\ NativeOption(o) \in OptionsOf(domain)
        /\ read'.option = o /\ read'.value = option[NativeOption(o)]
    BY <1>4 DEF getsockopt
  <2>2. ASSUME ~Dropped(o, accepted[o])
        PROVE  /\ o \in Counts => read'.value = IF o \in Flattened /\ accepted[o] # 0
                                               THEN 1 ELSE accepted[o]
               /\ read'.value = 0 <=> accepted[o] = 0
    <3>1. read'.value = Stored(NativeOption(o), accepted[o])
      BY <2>1, <2>2 DEF OptionsIInv, OptionsStored
    <3> QED
      BY <3>1, StoredTells DEF OptionsIInv
  <2>3. OptionsKept'
    BY <1>1, <2>1, <2>2 DEF OptionsKept, Dropped
  <2> QED
    BY <1>2, <2>3 DEF OptionsIInv
<1> QED
  BY <1>3, <1>4

LEMMA OptionsStep == OptionsIInv /\ [OptionsNext]_optionsVars => OptionsIInv'
<1> SUFFICES ASSUME OptionsIInv, [OptionsNext]_optionsVars PROVE OptionsIInv'
  OBVIOUS
<1>1. CASE UNCHANGED optionsVars
  BY <1>1, OptionsStay DEF optionsVars
<1>2. ASSUME NEW o \in LinuxOptions, NEW v, setsockopt_fails(o, v) PROVE OptionsIInv'
  BY <1>2, OptionsStay DEF setsockopt_fails, OptionsLive
<1>3. ASSUME NEW o, UnknownOption(o) PROVE OptionsIInv'
  BY <1>3, OptionsStay DEF UnknownOption
<1>4. CASE SocketFails(60)
  BY <1>4, OptionsStay DEF SocketFails
<1> QED
  BY <1>1, <1>2, <1>3, <1>4, OptionSet, OptionRead DEF OptionsNext

\* Every option that was set is stored under the name and with the value that
\* its conversion gives.
THEOREM OptionsIInvCorrect == OptionsSpec => []OptionsIInv
BY OptionsStart, OptionsStep, PTL DEF OptionsSpec

\* What is read of an option is what setsockopt last took for it, for any values,
\* save for a send buffer of 0, which is dropped, and for IP_MTU_DISCOVER, of
\* which only zero or not is kept: no two options of Linux are one of FreeBSD's.
THEOREM OptionsKeptCorrect == OptionsSpec => []OptionsKept
BY OptionsIInvCorrect, PTL DEF OptionsIInv

-----------------------------------------------------------------------------
(* The end of libraries and of the process                                   *)

LEMMA Removed ==
  ASSUME NEW S, NEW s \in Seq(S), NEW i \in DOMAIN s
  PROVE  /\ RemoveAt(s, i) \in Seq(S)
         /\ DOMAIN RemoveAt(s, i) = 1..(Len(s) - 1)
         /\ \A j \in 1..(Len(s) - 1) : RemoveAt(s, i)[j] = s[IF j < i THEN j ELSE j + 1]
<1>1. i \in 1..Len(s) /\ Len(s) \in Nat
  OBVIOUS
<1> DEFINE a == SubSeq(s, 1, i - 1)
           b == SubSeq(s, i + 1, Len(s))
<1>2. a \in Seq(S) /\ Len(a) = i - 1 /\ \A j \in 1..(i - 1) : a[j] = s[j]
  BY <1>1
<1>3. b \in Seq(S) /\ Len(b) = Len(s) - i /\ \A j \in 1..(Len(s) - i) : b[j] = s[i + j]
  BY <1>1
<1>4. RemoveAt(s, i) = a \o b
  BY DEF RemoveAt
<1> HIDE DEF a, b
<1>5. a \o b \in Seq(S) /\ Len(a \o b) = Len(s) - 1
  BY <1>1, <1>2, <1>3
<1>6. \A j \in 1..(Len(s) - 1) : (a \o b)[j] = IF j < i THEN s[j] ELSE s[j + 1]
  BY <1>1, <1>2, <1>3
<1> QED
  BY <1>1, <1>4, <1>5, <1>6

\* Some index is the last of those that FreeBSD looks at.
LEMMA LastOne ==
  ASSUME NEW n \in Nat, NEW T, T \subseteq 1..n, T # {}
  PROVE  \E i \in T : \A j \in T : j <= i
<1> DEFINE U == {n - t : t \in T}
<1>1. IsWellFoundedOn(OpToRel(<, Nat), Nat)
  BY NatLessThanWellFounded
<1>2. U \subseteq Nat /\ U # {}
  <2>1. \A t \in T : t \in 1..n
    OBVIOUS
  <2>2. \A t \in T : n - t \in Nat
    BY <2>1
  <2> QED
    BY <2>2
<1>3. PICK x \in U : \A y \in U : ~ (<<y, x>> \in OpToRel(<, Nat))
  <2> HIDE DEF U
  <2> QED
    BY <1>1, <1>2, WFMin, Zenon
<1>4. \A y \in U : ~ (y < x)
  BY <1>2, <1>3 DEF OpToRel
<1>5. PICK i \in T : x = n - i
  OBVIOUS
<1>6. \A j \in T : ~ (n - j < n - i)
  BY <1>4, <1>5
<1> QED
  BY <1>6

\* The boxes of handlers that wait, and of the one that runs.
BoxesOf(s) == {s[i].box : i \in {j \in DOMAIN s : s[j].box # NULL}}

BoxesApart(s) == \A i, j \in DOMAIN s : s[i].box # NULL /\ s[i].box = s[j].box => i = j

RunningBox == IF calling = NULL THEN {} ELSE {calling.entry.box} \ {NULL}

LEMMA BoxesFreedIs ==
  BoxesFreed <=> /\ boxes = BoxesOf(atexit) \cup RunningBox
                 /\ BoxesOf(atexit) \cap RunningBox = {}
                 /\ BoxesApart(atexit)
BY DEF BoxesFreed, BoxesOf, RunningBox, BoxesApart

LEMMA BoxesFreedNext ==
  ASSUME boxes' = BoxesOf(atexit') \cup RunningBox', BoxesOf(atexit') \cap RunningBox' = {},
         BoxesApart(atexit')
  PROVE  BoxesFreed'
BY DEF BoxesFreed, BoxesOf, RunningBox, BoxesApart

LEMMA BoxAppended ==
  ASSUME NEW s \in Seq(Entries), NEW e \in Entries
  PROVE  /\ Append(s, e) \in Seq(Entries)
         /\ DOMAIN Append(s, e) = DOMAIN s \cup {Len(s) + 1}
         /\ Append(s, e)[Len(s) + 1] = e
         /\ \A i \in DOMAIN s : Append(s, e)[i] = s[i]
         /\ BoxesOf(Append(s, e)) = BoxesOf(s) \cup ({e.box} \ {NULL})
         /\ BoxesApart(s) /\ e.box \notin BoxesOf(s) => BoxesApart(Append(s, e))
<1> DEFINE r == Append(s, e)
<1>1. /\ r \in Seq(Entries) /\ DOMAIN r = DOMAIN s \cup {Len(s) + 1}
      /\ r[Len(s) + 1] = e /\ \A i \in DOMAIN s : r[i] = s[i]
  OBVIOUS
<1>2. DOMAIN s = 1..Len(s) /\ Len(s) \in Nat
  OBVIOUS
<1> HIDE DEF r
<1>3. BoxesOf(r) = BoxesOf(s) \cup ({e.box} \ {NULL})
  <2>1. ASSUME NEW b PROVE b \in BoxesOf(r) <=> b \in BoxesOf(s) \/ (b = e.box /\ b # NULL)
    BY <1>1 DEF BoxesOf
  <2> QED
    BY <2>1
<1>4. ASSUME BoxesApart(s), e.box \notin BoxesOf(s) PROVE BoxesApart(r)
  <2>1. \A i \in DOMAIN s : s[i].box # NULL => s[i].box # e.box
    BY <1>4 DEF BoxesOf
  <2> QED
    BY <1>1, <1>2, <1>4, <2>1 DEF BoxesApart
<1> QED
  BY <1>1, <1>3, <1>4 DEF r

LEMMA BoxRemoved ==
  ASSUME NEW s \in Seq(Entries), NEW i \in DOMAIN s, BoxesApart(s)
  PROVE  /\ RemoveAt(s, i) \in Seq(Entries)
         /\ \A j \in DOMAIN RemoveAt(s, i) : \E k \in DOMAIN s : RemoveAt(s, i)[j] = s[k]
         /\ BoxesOf(RemoveAt(s, i)) = BoxesOf(s) \ {s[i].box}
         /\ BoxesApart(RemoveAt(s, i))
<1> DEFINE r == RemoveAt(s, i)
           k(j) == IF j < i THEN j ELSE j + 1
<1>1. /\ r \in Seq(Entries) /\ DOMAIN r = 1..(Len(s) - 1)
      /\ \A j \in 1..(Len(s) - 1) : r[j] = s[k(j)]
  BY Removed
<1>2. DOMAIN s = 1..Len(s) /\ Len(s) \in Nat /\ i \in 1..Len(s)
  OBVIOUS
<1>3. \A j \in DOMAIN r : k(j) \in DOMAIN s /\ k(j) # i /\ r[j] = s[k(j)]
  BY <1>1, <1>2
<1>4. \A m, n \in DOMAIN r : k(m) = k(n) => m = n
  BY <1>1, <1>2
<1>5. \A m \in DOMAIN s : m # i => \E j \in DOMAIN r : k(j) = m
  <2> SUFFICES ASSUME NEW m \in DOMAIN s, m # i PROVE \E j \in DOMAIN r : k(j) = m
    OBVIOUS
  <2>1. CASE m < i
    <3>1. m \in DOMAIN r /\ k(m) = m
      BY <1>1, <1>2, <2>1
    <3> QED
      BY <3>1
  <2>2. CASE m > i
    <3>1. m - 1 \in DOMAIN r /\ k(m - 1) = m
      BY <1>1, <1>2, <2>2
    <3> QED
      BY <3>1
  <2> QED
    BY <1>2, <2>1, <2>2
<1> HIDE DEF r, k
<1>6. BoxesOf(r) = BoxesOf(s) \ {s[i].box}
  <2>1. ASSUME NEW b \in BoxesOf(r) PROVE b \in BoxesOf(s) /\ b # s[i].box
    <3>1. PICK j \in DOMAIN r : r[j].box # NULL /\ b = r[j].box
      BY <2>1 DEF BoxesOf
    <3>2. k(j) \in DOMAIN s /\ k(j) # i /\ b = s[k(j)].box /\ b # NULL
      BY <1>3, <3>1
    <3> QED
      BY <3>2 DEF BoxesOf, BoxesApart
  <2>2. ASSUME NEW b \in BoxesOf(s), b # s[i].box PROVE b \in BoxesOf(r)
    <3>1. PICK m \in DOMAIN s : s[m].box # NULL /\ b = s[m].box
      BY <2>2 DEF BoxesOf
    <3>2. PICK j \in DOMAIN r : k(j) = m
      BY <1>5, <2>2, <3>1
    <3> QED
      BY <1>3, <3>1, <3>2 DEF BoxesOf
  <2> QED
    BY <2>1, <2>2
<1>7. BoxesApart(r)
  <2> SUFFICES ASSUME NEW m \in DOMAIN r, NEW n \in DOMAIN r, r[m].box # NULL, r[m].box = r[n].box
               PROVE  m = n
    BY DEF BoxesApart
  <2>1. k(m) = k(n)
    BY <1>3 DEF BoxesApart
  <2> QED
    BY <1>4, <2>1
<1> QED
  BY <1>1, <1>3, <1>6, <1>7 DEF r

LEMMA ExitsStart == ExitsInit => ExitsIInv
<1> SUFFICES ASSUME ExitsInit PROVE ExitsIInv
  OBVIOUS
<1>1. ExitsTypeOK
  BY DEF ExitsInit, ExitsTypeOK
<1>2. HandlersBoxed /\ HandlersInTheirLibrary
  BY DEF ExitsInit, HandlersBoxed, HandlersInTheirLibrary
<1>3. BoxesFreed
  BY DEF ExitsInit, BoxesFreed
<1> QED
  BY <1>1, <1>2, <1>3 DEF ExitsIInv

\* The boxes of the handlers that wait are in use.
LEMMA WaitingInUse ==
  ASSUME ExitsIInv
  PROVE  \A i \in DOMAIN atexit : /\ atexit[i] \in Entries
                                  /\ atexit[i].box # NULL => atexit[i].box \in boxes
<1>1. \A i \in DOMAIN atexit : atexit[i] \in Entries
  BY DEF ExitsIInv, ExitsTypeOK
<1>2. \A i \in DOMAIN atexit : atexit[i].box # NULL => atexit[i].box \in boxes
  BY BoxesFreedIs DEF ExitsIInv, BoxesOf
<1> QED
  BY <1>1, <1>2

\* A new handler gets a box that no other has, of those that wait or run.
LEMMA HandlerRegistered ==
  ASSUME ExitsIInv, NEW l \in Libraries \cup {PROGRAM}, NEW h \in Handlers, __cxa_atexit(l, h)
  PROVE  ExitsIInv'
<1>1. CASE UNCHANGED <<phase, loaded, atexit, wrapper_args, boxes, calling, finalizing>>
  BY <1>1
  DEF ExitsIInv, ExitsTypeOK, HandlersBoxed, HandlersInTheirLibrary, BoxesFreed, Dsos
<1>2. ASSUME NEW b \in Boxes \ boxes, l \in Dsos, boxes' = boxes \cup {b},
             wrapper_args' = [wrapper_args EXCEPT ![b] = h], Register(l, h, b),
             UNCHANGED <<loaded, calling, finalizing>>
      PROVE  ExitsIInv'
  <2> DEFINE e == [dso |-> l, library |-> l, box |-> b, asked |-> h]
  <2>1. atexit' = Append(atexit, e)
    BY <1>2 DEF Register
  <2>2. e \in Entries /\ e.box = b /\ e.dso = l /\ e.library = l /\ e.asked = h /\ b # NULL
    BY BoxesAssumption DEF Entries
  <2> HIDE DEF e
  <2>3. atexit \in Seq(Entries) /\ wrapper_args \in [Boxes -> Handlers \cup {NULL}]
    BY DEF ExitsIInv, ExitsTypeOK
  <2>4. /\ atexit' \in Seq(Entries)
        /\ DOMAIN atexit' = DOMAIN atexit \cup {Len(atexit) + 1}
        /\ atexit'[Len(atexit) + 1] = e
        /\ \A i \in DOMAIN atexit : atexit'[i] = atexit[i]
        /\ BoxesOf(atexit') = BoxesOf(atexit) \cup ({b} \ {NULL})
        /\ BoxesApart(atexit) /\ b \notin BoxesOf(atexit) => BoxesApart(atexit')
    BY <2>1, <2>2, <2>3, BoxAppended
  <2>5. ExitsTypeOK'
    BY <1>2, <2>3, <2>4 DEF ExitsIInv, ExitsTypeOK
  <2>6. wrapper_args'[b] = h /\ \A c \in Boxes \ {b} : wrapper_args'[c] = wrapper_args[c]
    BY <1>2, <2>3
  <2>7. HandlersBoxed'
    <3>1. ASSUME NEW i \in DOMAIN atexit
          PROVE  /\ atexit[i].dso = atexit[i].library /\ atexit[i].library \in Dsos'
                 /\ atexit[i].asked = IF atexit[i].box = NULL THEN FINI
                                      ELSE wrapper_args'[atexit[i].box]
      <4>1. atexit[i].box # NULL => atexit[i].box \in Boxes \ {b}
        BY <1>2, WaitingInUse DEF ExitsIInv, ExitsTypeOK
      <4> QED
        BY <1>2, <2>6, <4>1 DEF ExitsIInv, HandlersBoxed, Dsos
    <3>2. e.dso = e.library /\ e.library \in Dsos' /\ e.asked = wrapper_args'[e.box] /\ e.box # NULL
      BY <1>2, <2>2, <2>6 DEF Dsos
    <3> QED
      BY <2>4, <3>1, <3>2 DEF HandlersBoxed
  <2>8. HandlersInTheirLibrary'
    BY <1>2 DEF ExitsIInv, HandlersInTheirLibrary, Dsos
  <2>9. BoxesFreed'
    <3>1. /\ boxes = BoxesOf(atexit) \cup RunningBox /\ BoxesOf(atexit) \cap RunningBox = {}
          /\ BoxesApart(atexit)
      BY BoxesFreedIs DEF ExitsIInv
    <3>2. RunningBox' = RunningBox
      BY <1>2 DEF RunningBox
    <3>3. /\ boxes' = BoxesOf(atexit') \cup RunningBox'
          /\ BoxesOf(atexit') \cap RunningBox' = {} /\ BoxesApart(atexit')
      BY <1>2, <2>2, <2>4, <3>1, <3>2
    <3> QED
      BY <3>3, BoxesFreedNext
  <2> QED
    BY <2>5, <2>7, <2>8, <2>9 DEF ExitsIInv
<1> QED
  BY <1>1, <1>2 DEF __cxa_atexit, ExitsLive

\* A handler is called with what it was registered with; its box stays in use.
LEMMA HandlerCalled ==
  ASSUME ExitsIInv, Call_handler
  PROVE  ExitsIInv'
<1>1. PICK i \in OfFinalizing :
        /\ atexit' = RemoveAt(atexit, i)
        /\ calling' = [entry  |-> atexit[i],
                       called |-> IF atexit[i].box = NULL THEN FINI
                                  ELSE wrapper_args[atexit[i].box]]
  <2>1. atexit \in Seq(Entries)
    BY DEF ExitsIInv, ExitsTypeOK
  <2>2. Len(atexit) \in Nat /\ DOMAIN atexit = 1..Len(atexit)
    BY <2>1
  <2>3. OfFinalizing \subseteq DOMAIN atexit /\ OfFinalizing # {}
    BY DEF Call_handler, OfFinalizing
  <2>4. \E i \in OfFinalizing : \A j \in OfFinalizing : j <= i
    BY <2>2, <2>3, LastOne
  <2>5. (CHOOSE i \in OfFinalizing : \A j \in OfFinalizing : j <= i) \in OfFinalizing
    BY <2>4
  <2> QED
    BY <2>5 DEF Call_handler
<1>2. UNCHANGED <<loaded, wrapper_args, boxes, finalizing>> /\ calling = NULL
  BY DEF Call_handler
<1> DEFINE e == atexit[i]
           c == IF e.box = NULL THEN FINI ELSE wrapper_args[e.box]
<1>3. i \in DOMAIN atexit /\ e \in Entries /\ atexit \in Seq(Entries)
  BY WaitingInUse DEF OfFinalizing, ExitsIInv, ExitsTypeOK
<1>4. e.asked = c /\ e.library \in Dsos /\ e.asked \in Handlers \cup {FINI}
  BY <1>3 DEF ExitsIInv, HandlersBoxed, Entries
<1>5. calling' = [entry |-> e, called |-> c]
  BY <1>1
<1> HIDE DEF c
<1>6. calling'.entry = e /\ calling'.called = c
  BY <1>5
<1>7. calling' \in [entry : Entries, called : Handlers \cup {FINI}]
  BY <1>3, <1>4, <1>5
<1>8. calling' # NULL
  BY <1>7, BoxesAssumption
<1>9. BoxesApart(atexit) /\ boxes = BoxesOf(atexit)
  BY <1>2, BoxesFreedIs DEF ExitsIInv, RunningBox
<1>10. /\ atexit' \in Seq(Entries)
       /\ \A j \in DOMAIN atexit' : \E k \in DOMAIN atexit : atexit'[j] = atexit[k]
       /\ BoxesOf(atexit') = BoxesOf(atexit) \ {e.box}
       /\ BoxesApart(atexit')
  BY <1>1, <1>3, <1>9, BoxRemoved
<1>11. ExitsTypeOK'
  BY <1>2, <1>7, <1>10 DEF ExitsIInv, ExitsTypeOK
<1>12. HandlersBoxed'
  BY <1>2, <1>10 DEF ExitsIInv, HandlersBoxed, Dsos
<1>13. HandlersInTheirLibrary'
  BY <1>2, <1>4, <1>6 DEF HandlersInTheirLibrary, Dsos
<1>14. BoxesFreed'
  <2>1. RunningBox' = {e.box} \ {NULL}
    BY <1>6, <1>8 DEF RunningBox
  <2>2. e.box # NULL => e.box \in BoxesOf(atexit)
    BY <1>3 DEF BoxesOf
  <2>3. NULL \notin BoxesOf(atexit)
    BY DEF BoxesOf
  <2> HIDE DEF e
  <2>4. /\ boxes' = BoxesOf(atexit') \cup RunningBox'
        /\ BoxesOf(atexit') \cap RunningBox' = {}
    BY <1>2, <1>9, <1>10, <2>1, <2>2, <2>3
  <2> QED
    BY <1>10, <2>4, BoxesFreedNext
<1> QED
  BY <1>11, <1>12, <1>13, <1>14 DEF ExitsIInv

\* The handler returns, and its box is free.
LEMMA HandlerReturned ==
  ASSUME ExitsIInv, __cxa_atexit_cb_wrapper
  PROVE  ExitsIInv'
<1>1. /\ calling # NULL /\ calling' = NULL /\ boxes' = boxes \ {calling.entry.box}
      /\ UNCHANGED <<loaded, atexit, wrapper_args, finalizing>>
  BY DEF __cxa_atexit_cb_wrapper, FreeBox
<1>2. ExitsTypeOK' /\ HandlersBoxed' /\ HandlersInTheirLibrary'
  BY <1>1 DEF ExitsIInv, ExitsTypeOK, HandlersBoxed, HandlersInTheirLibrary, Dsos
<1>3. BoxesFreed'
  <2>1. RunningBox = {calling.entry.box} \ {NULL} /\ RunningBox' = {}
    BY <1>1 DEF RunningBox
  <2>2. NULL \notin BoxesOf(atexit)
    BY DEF BoxesOf
  <2>3. /\ boxes = BoxesOf(atexit) \cup RunningBox /\ BoxesOf(atexit) \cap RunningBox = {}
        /\ BoxesApart(atexit)
    BY BoxesFreedIs DEF ExitsIInv
  <2>4. boxes' = BoxesOf(atexit)
    BY <1>1, <2>1, <2>2, <2>3
  <2>5. atexit' = atexit
    BY <1>1
  <2> QED
    BY <2>1, <2>3, <2>4, <2>5, BoxesFreedNext
<1> QED
  BY <1>2, <1>3 DEF ExitsIInv

\* A library goes when none of its handlers waits or runs.
LEMMA Unloaded ==
  ASSUME ExitsIInv, Unload
  PROVE  ExitsIInv'
<1>1. /\ finalizing # NULL /\ calling = NULL /\ loaded' = loaded \ {finalizing}
      /\ finalizing' = NULL /\ UNCHANGED <<atexit, wrapper_args, boxes, calling>>
  BY DEF Unload
<1>2. \A i \in DOMAIN atexit : atexit[i].dso # finalizing
  BY <1>1 DEF Unload, OfFinalizing
<1>3. ExitsTypeOK' /\ HandlersInTheirLibrary' /\ BoxesFreed'
  BY <1>1 DEF ExitsIInv, ExitsTypeOK, HandlersInTheirLibrary, BoxesFreed
<1>4. HandlersBoxed'
  BY <1>1, <1>2 DEF ExitsIInv, HandlersBoxed, Dsos
<1> QED
  BY <1>3, <1>4 DEF ExitsIInv

\* fini is registered without a box.
LEMMA FiniRegistered ==
  ASSUME ExitsIInv, __libc_start_main
  PROVE  ExitsIInv'
<1> DEFINE e == [dso |-> PROGRAM, library |-> PROGRAM, box |-> NULL, asked |-> FINI]
<1>1. atexit' = Append(atexit, e) /\ UNCHANGED <<loaded, wrapper_args, boxes, calling, finalizing>>
  BY DEF __libc_start_main
<1>2. e \in Entries /\ e.box = NULL /\ e.dso = PROGRAM /\ e.library = PROGRAM /\ e.asked = FINI
  BY DEF Entries
<1> HIDE DEF e
<1>3. atexit \in Seq(Entries)
  BY DEF ExitsIInv, ExitsTypeOK
<1>4. NULL \notin BoxesOf(atexit)
  BY DEF BoxesOf
<1>5. /\ atexit' \in Seq(Entries)
      /\ DOMAIN atexit' = DOMAIN atexit \cup {Len(atexit) + 1}
      /\ atexit'[Len(atexit) + 1] = e
      /\ \A i \in DOMAIN atexit : atexit'[i] = atexit[i]
      /\ BoxesOf(atexit') = BoxesOf(atexit) \cup ({e.box} \ {NULL})
      /\ BoxesApart(atexit) /\ e.box \notin BoxesOf(atexit) => BoxesApart(atexit')
  BY <1>1, <1>2, <1>3, BoxAppended
<1>6. ExitsTypeOK' /\ HandlersInTheirLibrary'
  BY <1>1, <1>5 DEF ExitsIInv, ExitsTypeOK, HandlersInTheirLibrary, Dsos
<1>7. HandlersBoxed'
  <2>1. Dsos' = Dsos /\ PROGRAM \in Dsos
    BY <1>1 DEF Dsos
  <2> QED
    BY <1>1, <1>2, <1>5, <2>1 DEF ExitsIInv, HandlersBoxed
<1>8. BoxesFreed'
  <2>1. RunningBox' = RunningBox
    BY <1>1 DEF RunningBox
  <2>2. /\ boxes = BoxesOf(atexit) \cup RunningBox /\ BoxesOf(atexit) \cap RunningBox = {}
        /\ BoxesApart(atexit)
    BY BoxesFreedIs DEF ExitsIInv
  <2>3. BoxesOf(atexit') = BoxesOf(atexit) /\ BoxesApart(atexit')
    BY <1>2, <1>4, <1>5, <2>2
  <2>4. boxes' = BoxesOf(atexit') \cup RunningBox' /\ BoxesOf(atexit') \cap RunningBox' = {}
    BY <1>1, <2>1, <2>2, <2>3
  <2> QED
    BY <2>3, <2>4, BoxesFreedNext
<1> QED
  BY <1>6, <1>7, <1>8 DEF ExitsIInv

LEMMA ExitsStep == ExitsIInv /\ [ExitsNext]_exitsVars => ExitsIInv'
<1> SUFFICES ASSUME ExitsIInv, [ExitsNext]_exitsVars PROVE ExitsIInv'
  OBVIOUS
<1>1. ASSUME UNCHANGED <<atexit, wrapper_args, boxes, calling>>,
             loaded \subseteq loaded', loaded' \subseteq Libraries,
             finalizing' \in Libraries \cup {NULL}
      PROVE  ExitsIInv'
  BY <1>1
  DEF ExitsIInv, ExitsTypeOK, HandlersBoxed, HandlersInTheirLibrary, BoxesFreed, Dsos
<1>2. loaded \subseteq Libraries /\ finalizing \in Libraries \cup {NULL}
  BY DEF ExitsIInv, ExitsTypeOK
<1>3. CASE UNCHANGED exitsVars
  BY <1>1, <1>2, <1>3 DEF exitsVars
<1>4. ASSUME NEW l \in Libraries, dlopen(l) \/ __cxa_finalize(l) PROVE ExitsIInv'
  BY <1>1, <1>2, <1>4 DEF dlopen, __cxa_finalize
<1>5. CASE exit \/ Ended
  BY <1>1, <1>2, <1>5 DEF exit, Ended
<1> QED
  BY <1>3, <1>4, <1>5, HandlerRegistered, HandlerCalled, HandlerReturned, Unloaded, FiniRegistered
  DEF ExitsNext

\* Every handler that waits on i386 has a box of its own, with the function and
\* the argument it was registered with.
THEOREM ExitsIInvCorrect == ExitsSpec => []ExitsIInv
BY ExitsStart, ExitsStep, PTL DEF ExitsSpec

\* A handler is called with the function and the argument it was registered
\* with, while its library is loaded, for any handlers, libraries and boxes.
THEOREM HandlersInTheirLibraryCorrect == ExitsSpec => []HandlersInTheirLibrary
BY ExitsIInvCorrect, PTL DEF ExitsIInv

\* No box outlives its handler, and no two handlers have one.
THEOREM BoxesFreedCorrect == ExitsSpec => []BoxesFreed
BY ExitsIInvCorrect, PTL DEF ExitsIInv

-----------------------------------------------------------------------------
(* Files by their names                                                      *)

\* A number of eight bits is the sum of its bits.
LEMMA SumOfBits ==
  ASSUME NEW n \in 0..255
  PROVE  n = (n % 2) + 2 * ((n \div 2) % 2) + 4 * ((n \div 4) % 2) + 8 * ((n \div 8) % 2)
             + 16 * ((n \div 16) % 2) + 32 * ((n \div 32) % 2) + 64 * ((n \div 64) % 2)
             + 128 * ((n \div 128) % 2)
<1>1. n = 2 * (n \div 2) + (n % 2)
  OBVIOUS
<1>2. n \div 2 = 2 * (n \div 4) + ((n \div 2) % 2)
  OBVIOUS
<1>3. n \div 4 = 2 * (n \div 8) + ((n \div 4) % 2)
  OBVIOUS
<1>4. n \div 8 = 2 * (n \div 16) + ((n \div 8) % 2)
  OBVIOUS
<1>5. n \div 16 = 2 * (n \div 32) + ((n \div 16) % 2)
  OBVIOUS
<1>6. n \div 32 = 2 * (n \div 64) + ((n \div 32) % 2)
  OBVIOUS
<1>7. n \div 64 = 2 * (n \div 128) + ((n \div 64) % 2)
  OBVIOUS
<1>8. n \div 128 = (n \div 128) % 2
  OBVIOUS
<1> QED
  BY <1>1, <1>2, <1>3, <1>4, <1>5, <1>6, <1>7, <1>8

LEMMA BitsDetermine ==
  ASSUME NEW m \in 0..255, NEW n \in 0..255,
         \A b \in 0..7 : b \in Bits(m) <=> b \in Bits(n)
  PROVE  m = n
<1>1. /\ 2 ^ 0 = 1 /\ 2 ^ 1 = 2 /\ 2 ^ 2 = 4 /\ 2 ^ 3 = 8
      /\ 2 ^ 4 = 16 /\ 2 ^ 5 = 32 /\ 2 ^ 6 = 64 /\ 2 ^ 7 = 128
  OBVIOUS
<1>2. \A b \in 0..7 : (m \div 2 ^ b) % 2 = 1 <=> (n \div 2 ^ b) % 2 = 1
  <2>1. \A b \in 0..7 : b \in 0..15
    OBVIOUS
  <2>2. \A k : \A b \in 0..15 : b \in Bits(k) <=> (k \div 2 ^ b) % 2 = 1
    BY Zenon DEF Bits
  <2> QED
    BY <2>1, <2>2, Zenon
<1>3. /\ (m \div 1) % 2 = 1 <=> (n \div 1) % 2 = 1
      /\ (m \div 2) % 2 = 1 <=> (n \div 2) % 2 = 1
      /\ (m \div 4) % 2 = 1 <=> (n \div 4) % 2 = 1
      /\ (m \div 8) % 2 = 1 <=> (n \div 8) % 2 = 1
      /\ (m \div 16) % 2 = 1 <=> (n \div 16) % 2 = 1
      /\ (m \div 32) % 2 = 1 <=> (n \div 32) % 2 = 1
      /\ (m \div 64) % 2 = 1 <=> (n \div 64) % 2 = 1
      /\ (m \div 128) % 2 = 1 <=> (n \div 128) % 2 = 1
  BY ONLY <1>1, <1>2
<1>4. \A k \in 0..255 : \A d \in {1, 2, 4, 8, 16, 32, 64, 128} : (k \div d) % 2 \in {0, 1}
  OBVIOUS
<1>5. m \div 1 = m /\ n \div 1 = n
  OBVIOUS
<1>6. /\ m % 2 = n % 2
      /\ (m \div 2) % 2 = (n \div 2) % 2
      /\ (m \div 4) % 2 = (n \div 4) % 2
      /\ (m \div 8) % 2 = (n \div 8) % 2
      /\ (m \div 16) % 2 = (n \div 16) % 2
      /\ (m \div 32) % 2 = (n \div 32) % 2
      /\ (m \div 64) % 2 = (n \div 64) % 2
      /\ (m \div 128) % 2 = (n \div 128) % 2
  BY <1>3, <1>4, <1>5
<1> QED
  BY <1>6, SumOfBits

\* The low bits of a device's number are those of its minor number.
LEMMA MinorIsRead ==
  ASSUME NEW major, NEW minor, NEW b \in 0..7
  PROVE  b \in make_dev_id(major, minor) <=> b \in Bits(minor)
<1>1. \A n : Bits(n) \subseteq 0..15
  BY DEF Bits
<1>2. \A x \in 0..15 : x + 8 # b /\ x + 32 # b /\ x + 12 # b
  OBVIOUS
<1>3. /\ b \notin {x + 8 : x \in Bits(major) \cap (0..11)}
      /\ b \notin {x + 32 : x \in Bits(major) \ (0..11)}
      /\ b \notin {x + 12 : x \in Bits(minor) \ (0..7)}
  BY <1>1, <1>2
<1>4. b \in {x : x \in Bits(minor) \cap (0..7)} <=> b \in Bits(minor)
  OBVIOUS
<1> QED
  BY <1>3, <1>4 DEF make_dev_id

LEMMA MinorsApart ==
  ASSUME NEW m \in 0..255, NEW n \in 0..255, make_dev_id(195, m) = make_dev_id(195, n)
  PROVE  m = n
<1>1. \A b \in 0..7 : b \in Bits(m) <=> b \in Bits(n)
  BY MinorIsRead
<1> QED
  BY <1>1, BitsDetermine

\* The numbers 254 and 255 are not those of /dev/nvidia<number>, and 254 is
\* that of all /dev/nvidia-*.
LEMMA NodesApart ==
  ASSUME NEW p \in DeviceNodes, NEW q \in DeviceNodes, MinorOf(p) = MinorOf(q),
         p[1] = "number" => MinorKnown(p[2]), q[1] = "number" => MinorKnown(q[2])
  PROVE  p = q \/ (p[1] = "-" /\ q[1] = "-")
<1>1. \A r \in DeviceNodes :
        \/ r = <<"c", 0>> /\ r[1] = "c"
        \/ r[1] = "-"
        \/ r[1] = "number" /\ r = <<"number", r[2]>> /\ r[2] \in Nat
  BY NodesAssumption DEF DeviceNodes
<1>2. \A r : /\ r[1] = "c" => MinorOf(r) = 255
             /\ r[1] = "-" => MinorOf(r) = 254
             /\ r[1] = "number" => MinorOf(r) = r[2]
  BY DEF MinorOf
<1>3. \A i \in Nat : MinorKnown(i) => i < 254
  BY DEF MinorKnown
<1>4. "c" # "-" /\ "c" # "number" /\ "-" # "number"
  OBVIOUS
<1>5. ASSUME NEW r \in {p, q}, r[1] = "number"
      PROVE  r = <<"number", MinorOf(r)>> /\ MinorOf(r) \notin {254, 255}
  <2>1. r = <<"number", r[2]>> /\ r[2] \in Nat /\ MinorOf(r) = r[2]
    BY <1>1, <1>2, <1>4, <1>5
  <2>2. r[2] < 254
    BY <1>3, <1>5, <2>1
  <2> QED
    BY <2>1, <2>2
<1>6. ASSUME NEW r \in {p, q}, r[1] # "number"
      PROVE  \/ r = <<"c", 0>> /\ r[1] = "c" /\ MinorOf(r) = 255
             \/ r[1] = "-" /\ MinorOf(r) = 254
  BY <1>1, <1>2, <1>6
<1>7. CASE p[1] = "number"
  <2>1. q[1] = "number"
    BY <1>5, <1>6, <1>7
  <2> QED
    BY <1>5, <1>7, <2>1, Zenon
<1>8. CASE p[1] # "number"
  <2>1. q[1] # "number"
    BY <1>5, <1>6, <1>8
  <2> QED
    BY <1>6, <1>8, <2>1
<1> QED
  BY <1>7, <1>8

LEMMA FilesStart == FilesInit => FilesIInv
BY DEF FilesInit, FilesIInv, Pids

\* Old answers stay right, whatever becomes of the process.
LEMMA AnswersStay ==
  ASSUME FilesIInv, UNCHANGED <<proc_self_exe_override, answers>>, pid' \in Pids
  PROVE  FilesIInv'
<1>1. answers[1] = NULL \/ AnswerIs(answers[1])'
  BY DEF FilesIInv, AnswerIs
<1>2. answers[2] = NULL \/ AnswerIs(answers[2])'
  BY DEF FilesIInv, AnswerIs
<1> QED
  BY <1>1, <1>2 DEF FilesIInv

LEMMA Answered ==
  ASSUME FilesIInv, NEW by, NEW path, NEW file, Sees(by, path, file),
         AnswerIs([by |-> by, path |-> path, file |-> file])
  PROVE  FilesIInv'
<1> DEFINE a == [by |-> by, path |-> path, file |-> file]
<1>1. answers' = <<answers[2], a>> /\ UNCHANGED <<pid, proc_self_exe_override>>
  BY DEF Sees, FilesLive
<1> HIDE DEF a
<1>2. DOMAIN answers' = {1, 2} /\ answers'[1] = answers[2] /\ answers'[2] = a
  BY <1>1
<1>3. AnswerIs(a)
  BY DEF a
<1>4. answers[2] = NULL \/ AnswerIs(answers[2])
  BY DEF FilesIInv
<1>5. AnswerIs(answers[2])'
  BY <1>1, <1>2, <1>3 DEF AnswerIs
<1>6. answers'[1] = NULL \/ AnswerIs(answers[1])'
  BY <1>1, <1>2, <1>4 DEF AnswerIs
<1> QED
  BY <1>1, <1>2, <1>5, <1>6 DEF FilesIInv

LEMMA FilesStep == FilesIInv /\ [FilesNext]_filesVars => FilesIInv'
<1> SUFFICES ASSUME FilesIInv, [FilesNext]_filesVars PROVE FilesIInv'
  OBVIOUS
<1>1. pid \in Pids
  BY DEF FilesIInv
<1>2. CASE UNCHANGED filesVars
  BY <1>1, <1>2, AnswersStay DEF filesVars
<1>3. CASE FilesDie
  BY <1>1, <1>3, AnswersStay DEF FilesDie
<1>4. ASSUME FilesLive, UNCHANGED <<pid, answers>> PROVE FilesIInv'
  BY <1>1, <1>4, AnswersStay DEF FilesLive
<1>5. ASSUME NEW by \in Redirecting, NEW p, NEW file, Sees(by, p, file),
             (by = "fopen" /\ p \in {PARAMS, COMM}) \/ file = redirect(p)
      PROVE  FilesIInv'
  <2>1. by \notin Calls /\ by \notin AsTheyAre /\ by # "stat device"
    BY DEF Redirecting, AsTheyAre, Calls
  <2>2. AnswerIs([by |-> by, path |-> p, file |-> file])
    BY <1>5, <2>1 DEF AnswerIs, MadeUp
  <2> QED
    BY <1>5, <2>2, Answered
<1>6. ASSUME NEW p, NEW mode, fopen(p, mode) PROVE FilesIInv'
  <2>1. "fopen" \in Redirecting
    BY DEF Redirecting
  <2>2. \/ FilesDie
        \/ \E file : Sees("fopen", p, file) /\ (p \in {PARAMS, COMM} \/ file = redirect(p))
    BY <1>6 DEF fopen, PARAMS, COMM
  <2> QED
    BY <1>3, <1>5, <2>1, <2>2
<1>7. ASSUME NEW p, access(p) \/ lstat(p) PROVE FilesIInv'
  BY <1>5, <1>7 DEF access, lstat, Redirecting
<1>8. ASSUME NEW p, stat(p) \/ remove(p) \/ chmod(p) \/ link(p) PROVE FilesIInv'
  <2>1. ASSUME NEW by \in AsTheyAre, Sees(by, p, p) PROVE FilesIInv'
    <3>1. by \notin Calls /\ by \notin Redirecting /\ by # "stat device"
      BY DEF Redirecting, AsTheyAre, Calls
    <3>2. AnswerIs([by |-> by, path |-> p, file |-> p])
      BY <3>1 DEF AnswerIs
    <3> QED
      BY <2>1, <3>2, Answered
  <2>2. {"stat", "remove", "chmod", "link"} \subseteq AsTheyAre
    BY DEF AsTheyAre
  <2> QED
    BY <1>3, <1>4, <1>8, <2>1, <2>2 DEF stat, remove, chmod, link
<1>9. ASSUME NEW node \in DeviceNodes, FIX_NV_DEV_ID(node) PROVE FilesIInv'
  <2>1. "stat device" \notin Redirecting \cup AsTheyAre \cup Calls
    BY DEF Redirecting, AsTheyAre, Calls
  <2>2. ASSUME MinorOf(node) \in 0..255, node[1] = "number" => MinorKnown(node[2]),
               Sees("stat device", node, make_dev_id(195, MinorOf(node)))
        PROVE  FilesIInv'
    <3>1. AnswerIs([by |-> "stat device", path |-> node,
                    file |-> make_dev_id(195, MinorOf(node))])
      BY <2>1, <2>2 DEF AnswerIs
    <3> QED
      BY <2>2, <3>1, Answered
  <2>3. CASE node[1] = "c"
    <3>1. MinorOf(node) = 255 /\ node[1] # "number"
      BY <2>3 DEF MinorOf
    <3>2. Sees("stat device", node, make_dev_id(195, 255))
      BY <1>9, <2>3 DEF FIX_NV_DEV_ID
    <3>3. Sees("stat device", node, make_dev_id(195, MinorOf(node)))
      BY <3>1, <3>2, Zenon
    <3>4. MinorOf(node) \in 0..255
      BY <3>1
    <3> QED
      BY <2>2, <3>1, <3>3, <3>4, Zenon
  <2>4. CASE node[1] = "-"
    <3>1. MinorOf(node) = 254 /\ node[1] # "number"
      BY <2>4 DEF MinorOf
    <3>2. Sees("stat device", node, make_dev_id(195, 254))
      BY <1>9, <2>4 DEF FIX_NV_DEV_ID
    <3>3. Sees("stat device", node, make_dev_id(195, MinorOf(node)))
      BY <3>1, <3>2, Zenon
    <3>4. MinorOf(node) \in 0..255
      BY <3>1
    <3> QED
      BY <2>2, <3>1, <3>3, <3>4, Zenon
  <2>5. CASE node[1] \notin {"c", "-"}
    <3>1. node[2] \in Nat
      <4>1. node \notin {<<"c", 0>>, <<"-", 0>>, <<"-", 1>>}
        BY <2>5
      <4>2. PICK i \in Nodes : node = <<"number", i>>
        BY <4>1 DEF DeviceNodes
      <4> QED
        BY <4>2, NodesAssumption
    <3>2. MinorKnown(node[2]) => node[2] \in 0..255
      BY <3>1 DEF MinorKnown
    <3>3. MinorOf(node) = node[2]
      BY <2>5 DEF MinorOf
    <3>4. IF MinorKnown(node[2])
          THEN Sees("stat device", node, make_dev_id(195, node[2])) ELSE FilesDie
      BY <1>9, <2>5 DEF FIX_NV_DEV_ID
    <3> QED
      BY <1>3, <2>2, <3>2, <3>3, <3>4
  <2> QED
    BY <1>9, <2>3, <2>4, <2>5
<1>10. ASSUME NEW node \in {"self", "thread-self"} \cup Pids, NEW by \in Calls,
              NEW cut \in BOOLEAN, exe(by, node, cut)
       PROVE  FilesIInv'
  <2>1. CASE node = "thread-self"
    BY <1>1, <1>3, <1>10, <2>1 DEF exe, Overridden, Pids
  <2>2. CASE node # "thread-self"
    <3> DEFINE path == [asker |-> pid, of |-> ProcessOf(node)]
               program == IF Overridden(node) /\ proc_self_exe_override # NULL
                          THEN proc_self_exe_override ELSE EXE
               file == <<program, cut>>
    <3>1. Sees(by, path, file)
      BY <1>10, <2>2 DEF exe
    <3>2. Overridden(node) <=> path.asker = path.of
      BY <2>2 DEF Overridden, ProcessOf, Pids
    <3>3. by \notin Redirecting \cup AsTheyAre /\ by # "stat device"
      BY DEF Redirecting, AsTheyAre, Calls
    <3>4. program = IF path.asker = path.of /\ proc_self_exe_override # NULL
                    THEN proc_self_exe_override ELSE EXE
      BY <3>2
    <3>5. file[1] = program
      OBVIOUS
    <3> HIDE DEF path, program, file
    <3>6. AnswerIs([by |-> by, path |-> path, file |-> file])
      BY <3>3, <3>4, <3>5 DEF AnswerIs, AsksOfItself
    <3> QED
      BY <3>1, <3>6, Answered
  <2> QED
    BY <2>1, <2>2
<1>11. ASSUME NEW node, readlink_fails(node) PROVE FilesIInv'
  BY <1>4, <1>11 DEF readlink_fails
<1>12. CASE fork
  BY <1>12, AnswersStay DEF fork, FilesLive, Pids
<1> QED
  BY <1>2, <1>6, <1>7, <1>8, <1>9, <1>10, <1>11, <1>12 DEF FilesNext

\* The last two answers are what the calls tell of a name, whichever program
\* runs and whichever process asks.
THEOREM FilesIInvCorrect == FilesSpec => []FilesIInv
BY FilesStart, FilesStep, PTL DEF FilesSpec

\* One path is one file to all calls that redirect and one to all that do not,
\* a process's program is one file save to itself where it is overridden, and
\* two devices are two numbers unless both are /dev/nvidia-*: for any paths,
\* devices and overrides, and two processes.
THEOREM NamesToldCorrect == FilesSpec => []NamesTold
<1>1. FilesIInv => NamesTold
  <2> DEFINE a == answers[1]
             b == answers[2]
  <2> SUFFICES ASSUME FilesIInv, a # NULL, b # NULL
               PROVE  PathsAgree(a, b) /\ LinksAgree(a, b) /\ DevicesApart(a, b)
    BY DEF NamesTold
  <2>1. AnswerIs(a) /\ AnswerIs(b)
    BY DEF FilesIInv
  <2> HIDE DEF a, b
  <2>2. PathsAgree(a, b)
    <3> SUFFICES ASSUME a.by \in Redirecting \cup AsTheyAre, b.by \in Redirecting \cup AsTheyAre,
                        a.path = b.path, ~MadeUp(a), ~MadeUp(b)
                 PROVE  a.file = b.file <=>
                          (a.by \in Redirecting <=> b.by \in Redirecting)
                          \/ redirect(a.path) = a.path
      BY DEF PathsAgree
    <3>1. /\ a.file = IF a.by \in Redirecting THEN redirect(a.path) ELSE a.path
          /\ b.file = IF b.by \in Redirecting THEN redirect(a.path) ELSE a.path
      BY <2>1 DEF AnswerIs
    <3> QED
      BY <3>1
  <2>3. LinksAgree(a, b)
    <3> SUFFICES ASSUME a.by \in Calls, b.by \in Calls
                 PROVE  \/ a.file[1] = b.file[1]
                        \/ /\ proc_self_exe_override # NULL
                           /\ AsksOfItself(a) # AsksOfItself(b)
      BY DEF LinksAgree
    <3>1. /\ a.file[1] = IF AsksOfItself(a) /\ proc_self_exe_override # NULL
                         THEN proc_self_exe_override ELSE EXE
          /\ b.file[1] = IF AsksOfItself(b) /\ proc_self_exe_override # NULL
                         THEN proc_self_exe_override ELSE EXE
      BY <2>1 DEF AnswerIs
    <3>2. CASE AsksOfItself(a) = AsksOfItself(b)
      BY <3>1, <3>2
    <3>3. CASE AsksOfItself(a) # AsksOfItself(b)
      <4>1. CASE proc_self_exe_override = NULL
        BY <3>1, <4>1
      <4> QED
        BY <3>3, <4>1
    <3> QED
      BY <3>2, <3>3
  <2>4. DevicesApart(a, b)
    <3> SUFFICES ASSUME a.by = "stat device", b.by = "stat device"
                 PROVE  a.file = b.file <=>
                          a.path = b.path \/ (a.path[1] = "-" /\ b.path[1] = "-")
      BY DEF DevicesApart
    <3>1. /\ a.path \in DeviceNodes /\ b.path \in DeviceNodes
          /\ MinorOf(a.path) \in 0..255 /\ MinorOf(b.path) \in 0..255
          /\ a.path[1] = "number" => MinorKnown(a.path[2])
          /\ b.path[1] = "number" => MinorKnown(b.path[2])
          /\ a.file = make_dev_id(195, MinorOf(a.path))
          /\ b.file = make_dev_id(195, MinorOf(b.path))
      BY <2>1 DEF AnswerIs
    <3>2. a.path = b.path => a.file = b.file
      BY <3>1
    <3>3. ASSUME a.path[1] = "-", b.path[1] = "-" PROVE a.file = b.file
      <4>1. MinorOf(a.path) = MinorOf(b.path)
        BY <3>3 DEF MinorOf
      <4>2. /\ a.file = make_dev_id(195, MinorOf(a.path))
            /\ b.file = make_dev_id(195, MinorOf(b.path))
        BY <3>1
      <4> QED
        BY ONLY <4>1, <4>2, Zenon
    <3>4. a.file = b.file => MinorOf(a.path) = MinorOf(b.path)
      BY <3>1, MinorsApart
    <3> QED
      BY <3>1, <3>2, <3>3, <3>4, NodesApart
  <2> QED
    BY <2>2, <2>3, <2>4
<1> QED
  BY <1>1, FilesIInvCorrect, PTL

-----------------------------------------------------------------------------
(* Lists                                                                     *)

\* The calls that give the program something to free.
Results == {"getaddrinfo", "getifaddrs", "scandir", "scandir, sorted", "glob"}

\* So many blocks of one result.
LEMMA SoMany ==
  ASSUME NEW r, NEW n \in Nat
  PROVE  IsFiniteSet({r} \X (1..n)) /\ Cardinality({r} \X (1..n)) = n
<1> DEFINE f == [i \in 1..n |-> <<r, i>>]
<1>1. f \in Bijection(1..n, {r} \X (1..n))
  <2>1. f \in [1..n -> {r} \X (1..n)]
    OBVIOUS
  <2>2. \A i, j \in 1..n : f[i] = f[j] => i = j
    OBVIOUS
  <2>3. \A b \in {r} \X (1..n) : \E i \in 1..n : f[i] = b
    OBVIOUS
  <2> QED
    BY <2>1, <2>2, <2>3 DEF Bijection, Injection, Surjection, IsInjective
<1>2. IsFiniteSet(1..n) /\ Cardinality(1..n) = n
  BY FS_Interval
<1> QED
  BY <1>1, <1>2, FS_Bijection DEF ExistsBijection

LEMMA Counted ==
  ASSUME NEW n \in Nat, NEW list, DOMAIN list = 1..n, NEW T \in SUBSET (1..n)
  PROVE  Cardinality(T) \in Nat
<1>1. IsFiniteSet(1..n)
  BY FS_Interval
<1> QED
  BY <1>1, FS_Subset, FS_CardinalityType

\* A result is made of a number of blocks of each kind.
LEMMA OwesNumbers ==
  ASSUME NEW h, h.call \in Results, h.list \in Seq(Range(h.list))
  PROVE  \A k : Of(Owes(h), k) \in Nat
<1>1. Len(h.list) \in Nat
  OBVIOUS
<1>2. /\ Count(h.list, Named) \in Nat
      /\ Count(h.list, HasAddress) \in Nat
      /\ Count(h.list, HasMask) \in Nat
  BY <1>1, Counted DEF Count
<1>3. CASE h.call = "getaddrinfo"
  <2> DEFINE c == [node |-> Len(h.list), address |-> Len(h.list), name |-> Count(h.list, Named)]
  <2>1. Owes(h) = c
    BY <1>3 DEF Owes
  <2>2. \A k \in DOMAIN c : c[k] \in Nat
    BY <1>1, <1>2
  <2> QED
    BY <2>1, <2>2 DEF Of
<1>4. CASE h.call = "getifaddrs"
  <2>1. Owes(h) = OfIfaddrs(h.list)
    BY <1>4 DEF Owes
  <2>2. \A k \in DOMAIN OfIfaddrs(h.list) : OfIfaddrs(h.list)[k] \in Nat
    BY <1>1, <1>2 DEF OfIfaddrs
  <2> QED
    BY <2>1, <2>2 DEF Of
<1>5. CASE h.call \in {"scandir", "scandir, sorted"}
  <2> DEFINE c == [array |-> 1, entry |-> Len(h.list)]
  <2>1. Owes(h) = c
    BY <1>5 DEF Owes
  <2>2. \A k \in DOMAIN c : c[k] \in Nat
    BY <1>1
  <2> QED
    BY <2>1, <2>2 DEF Of
<1>6. CASE h.call = "glob"
  <2> DEFINE c == [array |-> 1, native |-> Len(h.list)]
  <2>1. Owes(h) = c
    BY <1>6 DEF Owes
  <2>2. \A k \in DOMAIN c : c[k] \in Nat
    BY <1>1
  <2> QED
    BY <2>1, <2>2 DEF Of
<1> QED
  BY <1>3, <1>4, <1>5, <1>6 DEF Results

\* A call that gives a result leaves as much on the heap as the result is
\* made of.
LEMMA ResultGiven ==
  ASSUME ListsIInv, NEW call \in Results, NEW of, NEW list, NEW counts,
         Gives(call, of, list, counts),
         list \in Seq(Range(list)),
         counts = Owes([call |-> call, of |-> of, list |-> list]),
         Complete([call |-> call, of |-> of, list |-> list])
  PROVE  ListsIInv'
<1> DEFINE h == [call |-> call, of |-> of, list |-> list]
<1>0. h.call = call /\ h.list = list
  OBVIOUS
<1>1. PICK r \in Slots \ DOMAIN held :
        held' = [s \in DOMAIN held \cup {r} |-> IF s = r THEN h ELSE held[s]]
  BY DEF Gives
<1>2. heap' = [k \in BlockKinds |-> heap[k] + Of(counts, k)]
  BY DEF Gives
<1>3. counts = Owes(h) /\ Complete(h)
  OBVIOUS
<1> HIDE DEF h
<1>10. \A k \in BlockKinds : Of(counts, k) \in Nat
  BY <1>0, <1>3, OwesNumbers
<1>4. /\ DOMAIN held' = DOMAIN held \cup {r}
      /\ held'[r] = h
      /\ \A s \in DOMAIN held : held'[s] = held[s]
      /\ r \notin DOMAIN held /\ r \in Slots
  BY <1>1
<1>5. CopiesComplete'
  BY <1>3, <1>4, Zenon DEF CopiesComplete, ListsIInv
<1>6. ListsTypeOK'
  <2>1. heap' \in [BlockKinds -> Nat]
    <3>1. \A k \in BlockKinds : heap[k] + Of(counts, k) \in Nat
      <4> TAKE k \in BlockKinds
      <4>1. heap[k] \in Nat
        BY DEF ListsIInv, ListsTypeOK
      <4> QED
        BY <4>1, <1>10
    <3> QED
      BY <1>2, <3>1
  <2>2. DOMAIN held' \subseteq Slots
    BY <1>4 DEF ListsIInv, ListsTypeOK
  <2>3. \A s \in DOMAIN held' :
          held'[s].call \in Results /\ held'[s].list \in Seq(Range(held'[s].list))
    BY <1>0, <1>4 DEF ListsIInv, ListsTypeOK, Results
  <2> QED
    BY <2>1, <2>2, <2>3, <1>1 DEF ListsTypeOK, Results
<1>7. ASSUME NEW k \in BlockKinds
      PROVE  IsFiniteSet(BlocksOf(k)') /\ heap'[k] = Cardinality(BlocksOf(k)')
  <2> DEFINE X == {r} \X (1..Of(counts, k))
  <2>1. IsFiniteSet(X) /\ Cardinality(X) = Of(counts, k)
    BY <1>10, SoMany
  <2>2. BlocksOf(k)' = BlocksOf(k) \cup X
    <3>1. \A b : b \in BlocksOf(k)' <=>
             \E s \in DOMAIN held' : b \in {s} \X (1..Of(Owes(held'[s]), k))
      BY DEF BlocksOf
    <3>2. \A b : b \in BlocksOf(k) <=>
             \E s \in DOMAIN held : b \in {s} \X (1..Of(Owes(held[s]), k))
      BY DEF BlocksOf
    <3> QED
      BY <1>3, <1>4, <3>1, <3>2
  <2>3. BlocksOf(k) \cap X = {}
    BY <1>4 DEF BlocksOf
  <2>4. IsFiniteSet(BlocksOf(k)) /\ heap[k] = Cardinality(BlocksOf(k)) /\ heap[k] \in Nat
    BY DEF ListsIInv, HeapHeld, ListsTypeOK
  <2>5. heap'[k] = heap[k] + Of(counts, k)
    BY <1>2
  <2> HIDE DEF X
  <2>6. /\ IsFiniteSet(BlocksOf(k) \cup X)
        /\ Cardinality(BlocksOf(k) \cup X)
             = Cardinality(BlocksOf(k)) + Cardinality(X) - Cardinality(BlocksOf(k) \cap X)
    BY <2>1, <2>4, FS_Union
  <2>7. Cardinality(BlocksOf(k) \cap X) = 0
    BY <2>3, FS_EmptySet
  <2>8. Of(counts, k) \in Nat
    BY <1>10
  <2> QED
    BY <2>1, <2>2, <2>4, <2>5, <2>6, <2>7, <2>8
<1>8. HeapHeld'
  BY <1>7 DEF HeapHeld
<1> QED
  BY <1>5, <1>6, <1>8 DEF ListsIInv

\* A function that frees a result takes what it was made of from the heap.
LEMMA ResultTaken ==
  ASSUME ListsIInv, NEW r \in DOMAIN held, NEW counts, Takes(r, counts),
         counts = Owes(held[r])
  PROVE  ListsIInv'
<1>10. \A k \in BlockKinds : Of(counts, k) \in Nat
  <2>1. held[r].call \in Results /\ held[r].list \in Seq(Range(held[r].list))
    BY DEF ListsIInv, ListsTypeOK, Results
  <2> QED
    BY <2>1, OwesNumbers
<1>1. held' = [s \in DOMAIN held \ {r} |-> held[s]]
  BY DEF Takes
<1>2. heap' = [k \in BlockKinds |-> heap[k] - Of(counts, k)]
  BY DEF Takes
<1>4. /\ DOMAIN held' = DOMAIN held \ {r}
      /\ \A s \in DOMAIN held' : held'[s] = held[s]
  BY <1>1
<1>5. CopiesComplete'
  BY <1>4 DEF CopiesComplete, ListsIInv
<1>7. ASSUME NEW k \in BlockKinds
      PROVE  /\ IsFiniteSet(BlocksOf(k)') /\ heap'[k] = Cardinality(BlocksOf(k)')
             /\ heap'[k] \in Nat
  <2> DEFINE X == {r} \X (1..Of(counts, k))
  <2>1. IsFiniteSet(X) /\ Cardinality(X) = Of(counts, k) /\ Of(counts, k) \in Nat
    BY <1>10, SoMany
  <2>2. BlocksOf(k) = BlocksOf(k)' \cup X
    BY <1>4 DEF BlocksOf
  <2>3. BlocksOf(k)' \cap X = {}
    BY <1>4 DEF BlocksOf
  <2>4. IsFiniteSet(BlocksOf(k)) /\ heap[k] = Cardinality(BlocksOf(k)) /\ heap[k] \in Nat
    BY DEF ListsIInv, HeapHeld, ListsTypeOK
  <2>5. heap'[k] = heap[k] - Of(counts, k)
    BY <1>2
  <2>6. IsFiniteSet(BlocksOf(k)') /\ Cardinality(BlocksOf(k)') \in Nat
    BY <2>2, <2>4, FS_Subset, FS_CardinalityType
  <2> HIDE DEF X
  <2>7. Cardinality(BlocksOf(k)' \cup X)
          = Cardinality(BlocksOf(k)') + Cardinality(X) - Cardinality(BlocksOf(k)' \cap X)
    BY <2>1, <2>6, FS_Union
  <2>8. Cardinality(BlocksOf(k)' \cap X) = 0
    BY <2>3, FS_EmptySet
  <2> QED
    BY <2>1, <2>2, <2>4, <2>5, <2>6, <2>7, <2>8
<1>6. ListsTypeOK'
  <2>1. heap' \in [BlockKinds -> Nat]
    BY <1>2, <1>7
  <2>2. DOMAIN held' \subseteq Slots
    BY <1>4 DEF ListsIInv, ListsTypeOK
  <2>3. \A s \in DOMAIN held' :
          held'[s].call \in Results /\ held'[s].list \in Seq(Range(held'[s].list))
    BY <1>4 DEF ListsIInv, ListsTypeOK, Results
  <2> QED
    BY <2>1, <2>2, <2>3, <1>1 DEF ListsTypeOK, Results
<1>8. HeapHeld'
  BY <1>7 DEF HeapHeld
<1> QED
  BY <1>5, <1>6, <1>8 DEF ListsIInv


\* What holds at first, and of the next if of one, holds of all up to a number.
LEMMA UpTo ==
  ASSUME NEW n \in Nat, NEW T, 0 \in T, \A i \in 0..(n - 1) : i \in T => i + 1 \in T
  PROVE  0..n \subseteq T
<1> DEFINE U == (0..n) \ T
<1>1. SUFFICES ASSUME U # {} PROVE FALSE
  OBVIOUS
<1>6. U \subseteq Nat
  OBVIOUS
<1>2. IsWellFoundedOn(OpToRel(<, Nat), Nat) /\ U \subseteq Nat
  BY <1>6, NatLessThanWellFounded, Zenon
<1>3. PICK x \in U : \A y \in U : ~ (<<y, x>> \in OpToRel(<, Nat))
  <2> HIDE DEF U
  <2> QED
    BY <1>1, <1>2, WFMin, Zenon
<1>4. \A y \in U : ~ (y < x)
  BY <1>2, <1>3 DEF OpToRel
<1>5. x \in 1..n /\ x - 1 \in 0..(n - 1) /\ x - 1 < x /\ x - 1 + 1 = x
  OBVIOUS
<1>7. x - 1 \in T
  BY <1>4, <1>5
<1> QED
  BY <1>5, <1>7

\* A function on 1..n is a sequence.
LEMMA ArrayIsList ==
  ASSUME NEW n \in Nat, NEW f, f = [i \in 1..n |-> f[i]]
  PROVE  f \in Seq(Range(f)) /\ Len(f) = n /\ DOMAIN f = 1..n
<1>1. f \in [1..n -> Range(f)]
  BY DEF Range
<1> QED
  BY <1>1

\* A call that fails, and one that ends the process, leave everything alone.
LEMMA ListsStay ==
  ASSUME ListsIInv, UNCHANGED <<heap, held>>
  PROVE  ListsIInv'
<1>1. \A k : BlocksOf(k)' = BlocksOf(k)
  BY DEF BlocksOf
<1>2. HeapHeld'
  BY <1>1 DEF HeapHeld, ListsIInv
<1>3. ListsTypeOK'
  BY DEF ListsTypeOK, ListsIInv
<1>4. CopiesComplete'
  BY DEF CopiesComplete, ListsIInv
<1> QED
  BY <1>2, <1>3, <1>4 DEF ListsIInv

-----------------------------------------------------------------------------
(* Copies of lists                                                           *)

\* A copy of a native list is a list of the same length.
LEMMA NativeCopied ==
  ASSUME NEW S, NEW list \in NativeLists(S), NEW copy, DOMAIN copy = DOMAIN list,
         copy = [i \in DOMAIN copy |-> copy[i]]
  PROVE  /\ copy \in Seq(Range(copy))
         /\ Len(copy) = Len(list)
         /\ \A i \in DOMAIN list : list[i] \in S
<1>1. PICK n \in 1..MaxLength : list \in [1..n -> S]
  BY DEF NativeLists
<1>2. n \in Nat
  BY ListsAssumption
<1> QED
  BY <1>1, <1>2, ArrayIsList

LEMMA InfosGiven ==
  ASSUME ListsIInv, NEW list \in NativeLists(Infos),
         \A i \in DOMAIN list : list[i].family \in {AF_INET, AF_INET6},
         NEW copy, copy = [i \in DOMAIN list |-> copy_addrinfo(list[i])],
         Gives("getaddrinfo", list, copy,
               [node |-> Len(copy), address |-> Len(copy), name |-> Count(copy, Named)])
  PROVE  ListsIInv'
<1> DEFINE h == [call |-> "getaddrinfo", of |-> list, list |-> copy]
           c == [node |-> Len(copy), address |-> Len(copy), name |-> Count(copy, Named)]
<1>1. copy \in Seq(Range(copy)) /\ Len(copy) = Len(list)
  BY NativeCopied
<1>2. c = Owes(h)
  BY DEF Owes
<1>3. \A i \in DOMAIN list : copy[i].family = FamilyOf(list[i].family)
  BY DEF copy_addrinfo, ToLinuxFamily, FamilyOf, AF_INET, AF_INET6, AF_LINK, AF_PACKET
<1>4. Complete(h)
  BY <1>1, <1>3 DEF Complete
<1> QED
  BY <1>1, <1>2, <1>4, ResultGiven DEF Results

LEMMA InfosCopied ==
  ASSUME ListsIInv, NEW list \in NativeLists(Infos), getaddrinfo(list)
  PROVE  ListsIInv'
<1> DEFINE copy == [i \in Copied(list) |-> copy_addrinfo(list[i])]
<1>1. CASE ListsFail \/ ListsDie
  BY <1>1, ListsStay DEF ListsFail, ListsDie, ListsLive
<1>2. CASE /\ \A i \in DOMAIN list : list[i].family \in {AF_INET, AF_INET6}
           /\ Gives("getaddrinfo", list, copy,
                    [node |-> Len(copy), address |-> Len(copy), name |-> Count(copy, Named)])
  BY <1>2, InfosGiven DEF Copied
<1> QED
  BY <1>1, <1>2 DEF getaddrinfo

LEMMA InterfacesGiven ==
  ASSUME ListsIInv, NEW list \in NativeLists(Interfaces),
         \A i \in DOMAIN list : IfaddrsKnown(list[i]),
         NEW copy, copy = [i \in DOMAIN list |-> copy_ifaddrs(list[i])],
         Gives("getifaddrs", list, copy, OfIfaddrs(copy))
  PROVE  ListsIInv'
<1> DEFINE h == [call |-> "getifaddrs", of |-> list, list |-> copy]
<1>1. copy \in Seq(Range(copy)) /\ Len(copy) = Len(list)
  BY NativeCopied
<1>2. OfIfaddrs(copy) = Owes(h)
  BY DEF Owes
<1>3. \A i \in DOMAIN list : copy[i].family = FamilyOf(list[i].family)
  BY ListsAssumption
  DEF copy_ifaddrs, IfaddrsKnown, ToLinuxFamily, FamilyOf, AF_INET, AF_INET6, AF_LINK, AF_PACKET
<1>4. Complete(h)
  BY <1>1, <1>3 DEF Complete
<1> QED
  BY <1>1, <1>2, <1>4, ResultGiven DEF Results

LEMMA InterfacesCopied ==
  ASSUME ListsIInv, NEW list \in NativeLists(Interfaces), getifaddrs(list)
  PROVE  ListsIInv'
<1> DEFINE copy == [i \in Copied(list) |-> copy_ifaddrs(list[i])]
<1>1. CASE ListsFail \/ ListsDie
  BY <1>1, ListsStay DEF ListsFail, ListsDie, ListsLive
<1>2. CASE /\ \A i \in DOMAIN list : IfaddrsKnown(list[i])
           /\ Gives("getifaddrs", list, copy, OfIfaddrs(copy))
  BY <1>2, InterfacesGiven DEF Copied
<1> QED
  BY <1>1, <1>2 DEF getifaddrs

LEMMA PathsFound ==
  ASSUME ListsIInv, NEW append \in BOOLEAN, NEW n \in 0..2, glob(append, n)
  PROVE  ListsIInv'
<1> DEFINE paths == [i \in 1..n |-> [path |-> i]]
           h == [call |-> "glob", of |-> paths, list |-> paths]
           c == [array |-> 1, native |-> n]
<1>1. CASE ListsFail \/ ListsDie
  BY <1>1, ListsStay DEF ListsFail, ListsDie, ListsLive
<1>2. CASE Gives("glob", paths, paths, c)
  <2>1. paths \in Seq(Range(paths)) /\ Len(paths) = n
    BY ArrayIsList
  <2>2. c = Owes(h)
    BY <2>1 DEF Owes
  <2>3. Complete(h)
    BY DEF Complete
  <2> QED
    BY <1>2, <2>1, <2>2, <2>3, ResultGiven DEF Results
<1> QED
  BY <1>1, <1>2 DEF glob

\* What is freed is what the result was made of.
LEMMA ResultsFreed ==
  ASSUME ListsIInv, NEW r \in Slots,
         freeaddrinfo(r) \/ freeifaddrs(r) \/ FreeEntries(r) \/ globfree(r)
  PROVE  ListsIInv'
<1>1. CASE freeaddrinfo(r)
  BY <1>1, ResultTaken DEF freeaddrinfo, Owes
<1>2. CASE freeifaddrs(r)
  BY <1>2, ResultTaken DEF freeifaddrs, Owes
<1>3. CASE FreeEntries(r)
  BY <1>3, ResultTaken DEF FreeEntries, Owes
<1>4. CASE globfree(r)
  BY <1>4, ResultTaken DEF globfree, Owes
<1> QED
  BY <1>1, <1>2, <1>3, <1>4

-----------------------------------------------------------------------------
(* Directories                                                               *)

\* The array before the first entry, and after each entry.
LEMMA ScanGoesOn ==
  ASSUME NEW n \in Nat, NEW dir, Len(dir) = n
  PROVE  Scanned(dir) = [i \in 0..n |-> IF i = 0 THEN [arr |-> <<>>, len |-> FirstRoom]
                                        ELSE Insert(Scanned(dir)[i - 1], dir[i])]
<1> DEFINE first == [arr |-> <<>>, len |-> FirstRoom]
           Upto(m, out) ==
             out = [i \in 0..m |-> IF i = 0 THEN first ELSE Insert(out[i - 1], dir[i])]
           T == {m \in Nat : \E out : Upto(m, out)}
<1>1. Scanned(dir) = CHOOSE out : Upto(n, out)
  BY DEF Scanned
<1> HIDE DEF first
<1>2. 0 \in T
  <2> DEFINE one == [i \in 0..0 |-> first]
  <2>1. Upto(0, one)
    OBVIOUS
  <2> HIDE DEF Upto, one
  <2> QED
    BY <2>1
<1>3. ASSUME NEW m \in 0..(n - 1), m \in T
      PROVE  m + 1 \in T
  <2>1. PICK out : Upto(m, out)
    BY <1>3
  <2> DEFINE more == [i \in 0..(m + 1) |-> IF i = m + 1 THEN Insert(out[m], dir[m + 1]) ELSE out[i]]
  <2>2. \A i \in 0..m : more[i] = out[i]
    OBVIOUS
  <2>3. more[m + 1] = Insert(more[m], dir[m + 1])
    BY <2>2
  <2>4. \A i \in 0..(m + 1) : more[i] = IF i = 0 THEN first ELSE Insert(more[i - 1], dir[i])
    <3> TAKE i \in 0..(m + 1)
    <3>1. CASE i = m + 1
      BY <3>1, <2>3
    <3>2. CASE i \in 0..m
      <4>1. out[i] = IF i = 0 THEN first ELSE Insert(out[i - 1], dir[i])
        BY <2>1, <3>2
      <4>2. i # 0 => i - 1 \in 0..m
        BY <3>2
      <4> HIDE DEF more
      <4> QED
        BY <2>2, <3>2, <4>1, <4>2
    <3> QED
      BY <3>1, <3>2
  <2>5. Upto(m + 1, more)
    <3>1. more = [i \in 0..(m + 1) |-> more[i]]
      OBVIOUS
    <3> HIDE DEF more
    <3> QED
      BY <2>4, <3>1
  <2> HIDE DEF Upto, more
  <2> QED
    BY <2>5
<1>4. n \in T
  <2> HIDE DEF T
  <2>1. \A m \in 0..(n - 1) : m \in T => m + 1 \in T
    BY <1>3
  <2>2. 0..n \subseteq T
    BY <1>2, <2>1, UpTo
  <2> QED
    BY <2>2
<1>5. Upto(n, CHOOSE out : Upto(n, out))
  <2> HIDE DEF Upto
  <2> QED
    BY <1>4
<1> QED
  BY <1>1, <1>5 DEF first

\* Where the entries of the array are, among the first i of the directory.
PlacedAt(at, arr, i, dir) ==
  /\ at \in [1..Len(arr) -> 1..i]
  /\ \A m, k \in 1..Len(arr) : m < k => at[m] < at[k]
  /\ \A m \in 1..Len(arr) : arr[m] = dir[at[m]] /\ dir[at[m]].selected
  /\ \A j \in 1..i : dir[j].selected => \E m \in 1..Len(arr) : at[m] = j

\* What the array has after i of the entries: those selected, in their order.
HasSelected(out, i, dir) ==
  /\ out.arr \in Seq(Files) /\ out.len \in Nat \ {0} /\ Len(out.arr) <= out.len
  /\ \E at : PlacedAt(at, out.arr, i, dir)

\* One entry more.  The array has a place for it, or gets one.
LEMMA EntryInserted ==
  ASSUME NEW n \in Nat, NEW dir \in [1..n -> Files], NEW i \in 0..(n - 1), NEW out,
         HasSelected(out, i, dir)
  PROVE  HasSelected(Insert(out, dir[i + 1]), i + 1, dir)
<1> DEFINE e == dir[i + 1]
           L == Len(out.arr)
<1>0. PICK at : PlacedAt(at, out.arr, i, dir)
  BY DEF HasSelected
<1>1. /\ at \in [1..L -> 1..i]
      /\ \A m, k \in 1..L : m < k => at[m] < at[k]
      /\ \A m \in 1..L : out.arr[m] = dir[at[m]] /\ dir[at[m]].selected
      /\ \A j \in 1..i : dir[j].selected => \E m \in 1..L : at[m] = j
  BY <1>0 DEF PlacedAt
<1>2. out.arr \in Seq(Files) /\ out.len \in Nat \ {0} /\ L <= out.len /\ L \in Nat
  BY DEF HasSelected
<1>3. e \in Files /\ i + 1 \in 1..n /\ i \in Nat /\ 1..i \subseteq 1..(i + 1)
  OBVIOUS
<1>4. CASE ~e.selected
  <2>1. Insert(out, e) = out
    BY <1>4 DEF Insert
  <2>2. at \in [1..L -> 1..(i + 1)]
    BY <1>1, <1>3
  <2>3. \A j \in 1..(i + 1) : dir[j].selected => \E m \in 1..L : at[m] = j
    BY <1>1, <1>3, <1>4
  <2>4. PlacedAt(at, out.arr, i + 1, dir)
    BY <1>1, <2>2, <2>3 DEF PlacedAt
  <2> QED
    BY <1>2, <2>1, <2>4 DEF HasSelected
<1>5. CASE e.selected
  <2> DEFINE len == IF Full(out) THEN 2 * out.len ELSE out.len
             now == [arr |-> Append(out.arr, e), len |-> len]
             to == [m \in 1..(L + 1) |-> IF m = L + 1 THEN i + 1 ELSE at[m]]
  <2>1. len \in Nat \ {0} /\ L < len
    BY <1>2 DEF Full
  <2>2. Insert(out, e) = now
    BY <1>5, <2>1 DEF Insert
  <2>3. /\ Append(out.arr, e) \in Seq(Files) /\ Len(Append(out.arr, e)) = L + 1
        /\ Append(out.arr, e)[L + 1] = e
        /\ \A m \in 1..L : Append(out.arr, e)[m] = out.arr[m]
    BY <1>2, <1>3
  <2>4. now.arr = Append(out.arr, e) /\ now.len = len
    OBVIOUS
  <2>5. to \in [1..(L + 1) -> 1..(i + 1)]
    BY <1>1, <1>2, <1>3
  <2>6. to[L + 1] = i + 1 /\ \A m \in 1..L : to[m] = at[m] /\ at[m] \in 1..i
    BY <1>1, <1>2
  <2> HIDE DEF now, to, len
  <2>7. \A m, k \in 1..(L + 1) : m < k => to[m] < to[k]
    <3> SUFFICES ASSUME NEW m \in 1..(L + 1), NEW k \in 1..(L + 1), m < k
                 PROVE  to[m] < to[k]
      OBVIOUS
    <3>1. m \in 1..L /\ to[m] = at[m] /\ to[m] \in 1..i
      BY <1>2, <2>6
    <3>2. CASE k = L + 1
      BY <1>3, <2>6, <3>1, <3>2
    <3>3. CASE k \in 1..L
      BY <1>1, <2>6, <3>1, <3>3
    <3> QED
      BY <1>2, <3>2, <3>3
  <2>8. \A m \in 1..(L + 1) : now.arr[m] = dir[to[m]] /\ dir[to[m]].selected
    <3> TAKE m \in 1..(L + 1)
    <3>1. CASE m = L + 1
      BY <1>5, <2>3, <2>4, <2>6, <3>1
    <3>2. CASE m \in 1..L
      BY <1>1, <2>3, <2>4, <2>6, <3>2
    <3> QED
      BY <1>2, <3>1, <3>2
  <2>9. \A j \in 1..(i + 1) : dir[j].selected => \E m \in 1..(L + 1) : to[m] = j
    <3> SUFFICES ASSUME NEW j \in 1..(i + 1), dir[j].selected
                 PROVE  \E m \in 1..(L + 1) : to[m] = j
      OBVIOUS
    <3>1. CASE j = i + 1
      BY <1>2, <2>6, <3>1
    <3>2. CASE j \in 1..i
      <4>1. PICK m \in 1..L : at[m] = j
        BY <1>1, <3>2
      <4>2. m \in 1..(L + 1) /\ to[m] = j
        BY <1>2, <2>6, <4>1
      <4> QED
        BY <4>2
    <3> QED
      BY <1>3, <3>1, <3>2
  <2>10. L + 1 <= now.len /\ now.len \in Nat \ {0}
    BY <1>2, <2>1, <2>4
  <2>11. now.arr \in Seq(Files) /\ Len(now.arr) = L + 1
    BY <2>3, <2>4
  <2>12. PlacedAt(to, now.arr, i + 1, dir)
    BY <2>5, <2>7, <2>8, <2>9, <2>11 DEF PlacedAt
  <2> QED
    BY <2>2, <2>10, <2>11, <2>12 DEF HasSelected
<1> QED
  BY <1>4, <1>5

\* After the last entry the array has what the program has selected, in order.
LEMMA DirectoryScanned ==
  ASSUME NEW n \in Nat, NEW dir \in [1..n -> Files]
  PROVE  LET arr == Scanned(dir)[Len(dir)].arr IN
           /\ arr \in Seq(Range(arr))
           /\ \E at \in Places(arr, dir) : \A i, j \in DOMAIN arr : i < j => at[i] < at[j]
<1> DEFINE out == Scanned(dir)
           first == [arr |-> <<>>, len |-> FirstRoom]
           T == {i \in 0..n : HasSelected(out[i], i, dir)}
<1>1. Len(dir) = n
  BY ArrayIsList
<1>2. out = [i \in 0..n |-> IF i = 0 THEN first ELSE Insert(out[i - 1], dir[i])]
  BY <1>1, ScanGoesOn
<1> HIDE DEF out
<1>3. 0 \in T
  <2>1. out[0] = first
    BY <1>2
  <2>2. HasSelected(first, 0, dir)
    <3>1. first.arr = <<>> /\ first.len = FirstRoom /\ Len(<<>>) = 0 /\ <<>> \in Seq(Files)
      OBVIOUS
    <3> DEFINE at == [m \in 1..0 |-> 0]
    <3>2. 1..0 = {} /\ at \in [1..0 -> 1..0]
      OBVIOUS
    <3> HIDE DEF first, at
    <3>3. FirstRoom \in Nat \ {0} /\ 0 <= FirstRoom
      BY ListsAssumption
    <3>4. PlacedAt(at, <<>>, 0, dir)
      BY <3>1, <3>2 DEF PlacedAt
    <3> QED
      BY <3>1, <3>3, <3>4 DEF HasSelected
  <2> QED
    BY <2>1, <2>2
<1>4. \A i \in 0..(n - 1) : i \in T => i + 1 \in T
  <2> SUFFICES ASSUME NEW i \in 0..(n - 1), HasSelected(out[i], i, dir)
               PROVE  HasSelected(out[i + 1], i + 1, dir)
    OBVIOUS
  <2>1. i + 1 \in 0..n /\ i + 1 # 0 /\ i + 1 - 1 = i
    OBVIOUS
  <2>2. out[i + 1] = Insert(out[i], dir[i + 1])
    BY <1>2, <2>1
  <2> QED
    BY <2>2, EntryInserted
<1>5. HasSelected(out[n], n, dir)
  <2> HIDE DEF T
  <2>1. 0..n \subseteq T
    BY <1>3, <1>4, UpTo
  <2>2. n \in T
    BY <2>1
  <2> QED
    BY <2>2 DEF T
<1> DEFINE arr == out[n].arr
           L == Len(arr)
<1>6. PICK at : PlacedAt(at, arr, n, dir)
  BY <1>5 DEF HasSelected
<1>7. arr \in Seq(Files) /\ DOMAIN arr = 1..L /\ L \in Nat
  BY <1>5 DEF HasSelected
<1> HIDE DEF arr
<1>8. arr \in Seq(Range(arr))
  BY <1>7 DEF Range
<1>9. at \in Bijection(DOMAIN arr, Selected(dir))
  <2>1. at \in [DOMAIN arr -> Selected(dir)]
    BY <1>1, <1>6, <1>7 DEF Selected, PlacedAt
  <2>2. \A i, j \in DOMAIN arr : at[i] = at[j] => i = j
    BY <1>6, <1>7 DEF PlacedAt
  <2>3. \A j \in Selected(dir) : \E i \in DOMAIN arr : at[i] = j
    BY <1>1, <1>6, <1>7 DEF Selected, PlacedAt
  <2> QED
    BY <2>1, <2>2, <2>3 DEF Bijection, Injection, Surjection, IsInjective
<1>10. at \in Places(arr, dir)
  BY <1>6, <1>7, <1>9 DEF Places, PlacedAt
<1>12. \A i, j \in DOMAIN arr : i < j => at[i] < at[j]
  BY <1>6, <1>7 DEF PlacedAt
<1>11. Scanned(dir)[Len(dir)].arr = arr
  BY <1>1 DEF arr, out
<1> QED
  BY <1>8, <1>10, <1>11, <1>12

\* Sorted, the entries are the same, each at a place of its own.
LEMMA PlacesSorted ==
  ASSUME NEW arr, arr \in Seq(Range(arr)), NEW dir,
         NEW at \in Places(arr, dir), NEW t \in qsort(arr)
  PROVE  t \in Seq(Range(t)) /\ Places(t, dir) # {} /\ DOMAIN t = DOMAIN arr
<1>1. PICK p \in Bijection(DOMAIN arr, DOMAIN arr) : t = [i \in DOMAIN arr |-> arr[p[i]]]
  BY DEF qsort
<1>2. DOMAIN t = DOMAIN arr /\ DOMAIN arr = 1..Len(arr) /\ Len(arr) \in Nat
  BY <1>1
<1>3. t \in Seq(Range(t))
  BY <1>1, <1>2, ArrayIsList
<1> DEFINE to == [i \in DOMAIN arr |-> at[p[i]]]
<1>4. at \in Bijection(DOMAIN arr, Selected(dir)) /\ \A i \in DOMAIN arr : arr[i] = dir[at[i]]
  BY DEF Places
<1>5. to \in Bijection(DOMAIN arr, Selected(dir))
  BY <1>4, Fun_BijTransitive
<1>6. \A i \in DOMAIN arr : p[i] \in DOMAIN arr
  BY DEF Bijection, Injection
<1>7. \A i \in DOMAIN t : t[i] = dir[to[i]]
  BY <1>1, <1>4, <1>6
<1> HIDE DEF to
<1>8. to \in Places(t, dir)
  BY <1>2, <1>5, <1>7 DEF Places
<1> QED
  BY <1>2, <1>3, <1>8

LEMMA EntriesFound ==
  ASSUME ListsIInv, NEW dir \in NativeLists(Files), NEW compar, scandir(dir, compar)
  PROVE  ListsIInv'
<1> DEFINE arr == Scanned(dir)[Len(dir)].arr
<1>1. PICK n \in 1..MaxLength : dir \in [1..n -> Files]
  BY DEF NativeLists
<1>2. n \in Nat
  BY ListsAssumption
<1>3. /\ arr \in Seq(Range(arr))
      /\ \E at \in Places(arr, dir) : \A i, j \in DOMAIN arr : i < j => at[i] < at[j]
  BY <1>1, <1>2, DirectoryScanned
<1>4. CASE ListsFail
  BY <1>4, ListsStay DEF ListsFail, ListsLive
<1>5. CASE Gives("scandir", dir, arr, [array |-> 1, entry |-> Len(arr)])
  <2> HIDE DEF arr
  <2> DEFINE h == [call |-> "scandir", of |-> dir, list |-> arr]
  <2>1. [array |-> 1, entry |-> Len(arr)] = Owes(h)
    BY DEF Owes
  <2>2. Complete(h)
    BY <1>3 DEF Complete
  <2> QED
    BY <1>3, <1>5, <2>1, <2>2, ResultGiven DEF Results
<1>6. CASE \E sorted \in qsort(arr) :
             Gives("scandir, sorted", dir, sorted, [array |-> 1, entry |-> Len(sorted)])
  <2> HIDE DEF arr
  <2>1. PICK t \in qsort(arr) :
          Gives("scandir, sorted", dir, t, [array |-> 1, entry |-> Len(t)])
    BY <1>6
  <2> DEFINE h == [call |-> "scandir, sorted", of |-> dir, list |-> t]
  <2>2. [array |-> 1, entry |-> Len(t)] = Owes(h)
    BY DEF Owes
  <2>3. t \in Seq(Range(t)) /\ Places(t, dir) # {} /\ DOMAIN t = DOMAIN arr
    BY <1>3, PlacesSorted
  <2>4. \A i, j \in DOMAIN t : i < j => t[i].name <= t[j].name
    BY <2>3 DEF qsort
  <2>5. Complete(h)
    BY <2>3, <2>4 DEF Complete
  <2> QED
    BY <2>1, <2>2, <2>3, <2>5, ResultGiven DEF Results
<1> QED
  BY <1>4, <1>5, <1>6 DEF scandir

-----------------------------------------------------------------------------
LEMMA ListsStart == ListsInit => ListsIInv
<1> SUFFICES ASSUME ListsInit PROVE ListsIInv
  OBVIOUS
<1>1. DOMAIN held = {}
  BY DEF ListsInit
<1>2. ListsTypeOK
  BY <1>1 DEF ListsInit, ListsTypeOK
<1>3. \A k : BlocksOf(k) = {}
  BY <1>1 DEF BlocksOf
<1>4. HeapHeld
  BY <1>3, FS_EmptySet DEF HeapHeld, ListsInit
<1> QED
  BY <1>1, <1>2, <1>4 DEF ListsIInv, CopiesComplete

LEMMA ListsStep == ListsIInv /\ [ListsNext]_listsVars => ListsIInv'
<1> SUFFICES ASSUME ListsIInv, [ListsNext]_listsVars PROVE ListsIInv'
  OBVIOUS
<1>1. CASE UNCHANGED listsVars
  BY <1>1, ListsStay DEF listsVars
<1>2. CASE ListsNext
  BY <1>2, InfosCopied, InterfacesCopied, EntriesFound, PathsFound, ResultsFreed DEF ListsNext
<1> QED
  BY <1>1, <1>2

\* Every block on the heap is a part of a result that the program has, and
\* every result is a complete copy.
THEOREM ListsIInvCorrect == ListsSpec => []ListsIInv
BY ListsStart, ListsStep, PTL DEF ListsSpec

\* What the calls have allocated the functions that belong to them free, once
\* and completely, for lists of any length, in any order.
THEOREM NothingLeftCorrect == ListsSpec => []NothingLeft
<1>1. ListsIInv => NothingLeft
  <2> SUFFICES ASSUME ListsIInv, DOMAIN held = {}, NEW k \in BlockKinds
               PROVE  heap[k] = 0
    BY DEF NothingLeft
  <2>1. BlocksOf(k) = {}
    BY DEF BlocksOf
  <2> QED
    BY <2>1, FS_EmptySet DEF ListsIInv, HeapHeld
<1> QED
  BY <1>1, ListsIInvCorrect, PTL

\* No address is left out of a copy, and no entry of a directory, however many
\* there are and wherever scandir's array had to grow.
THEOREM CopiesCompleteCorrect == ListsSpec => []CopiesComplete
BY ListsIInvCorrect, PTL DEF ListsIInv
=============================================================================
