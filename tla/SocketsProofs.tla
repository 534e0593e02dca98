---------------------------- MODULE SocketsProofs ----------------------------
(* What Sockets promises, for any sockets, addresses, flags and bounds.    *)
EXTENDS Sockets, NaturalsInduction, WellFoundedInduction, TLAPS

-----------------------------------------------------------------------------
(* Names                                                                   *)

LEMMA FamilyPairs ==
  /\ {p[2] : p \in Families} = {1, 2, 28}
  /\ \A f : (\E p \in Families : p[1] = f) <=> f \in {1, 2, 10}
  /\ linux_to_native_domain(1) = 1
  /\ linux_to_native_domain(2) = 2
  /\ linux_to_native_domain(10) = 28
<1>1. /\ \A p \in Families : p \in {<<1, 1>>, <<2, 2>>, <<10, 28>>}
      /\ <<1, 1>> \in Families /\ <<2, 2>> \in Families /\ <<10, 28>> \in Families
  BY DEF Families
<1>2. ASSUME NEW q \in Families PROVE linux_to_native_domain(q[1]) = q[2]
  <2>1. \A p \in Families : p[1] = q[1] => p[2] = q[2]
    BY <1>1
  <2> QED
    BY <2>1 DEF linux_to_native_domain
<1>3. /\ linux_to_native_domain(1) = 1
      /\ linux_to_native_domain(2) = 2
      /\ linux_to_native_domain(10) = 28
  BY <1>1, <1>2
<1> QED
  BY <1>1, <1>3

\* There is a first NUL, or none.
LEMMA FirstNul ==
  ASSUME NEW x \in Seq(Pieces \cup {NUL})
  PROVE  \E n \in 0..Len(x) : (n < Len(x) => x[n + 1] = NUL) /\ \A i \in 1..n : x[i] # NUL
<1> DEFINE U == {i \in 1..(Len(x) + 1) : i <= Len(x) => x[i] = NUL}
<1>1. Len(x) \in Nat /\ Len(x) + 1 \in U
  OBVIOUS
<1>2. U \subseteq Nat /\ U # {}
  BY <1>1
<1>3. PICK m \in U : \A y \in U : ~ (<<y, m>> \in OpToRel(<, Nat))
  <2> HIDE DEF U
  <2>1. IsWellFoundedOn(OpToRel(<, Nat), Nat)
    BY NatLessThanWellFounded
  <2> QED
    BY <1>2, <2>1, WFMin, Zenon
<1>4. \A y \in U : ~ (y < m)
  BY <1>2, <1>3 DEF OpToRel
<1>5. m \in 1..(Len(x) + 1) /\ (m <= Len(x) => x[m] = NUL)
  OBVIOUS
<1>6. \A i \in 1..(m - 1) : x[i] # NUL
  BY <1>1, <1>4, <1>5
<1>7. m - 1 \in 0..Len(x) /\ (m - 1 < Len(x) => x[(m - 1) + 1] = NUL)
  BY <1>1, <1>5
<1> QED
  BY <1>6, <1>7

\* What C reads has no NUL in it, and is all that comes before the first one.
LEMMA CStringOf ==
  ASSUME NEW x \in Seq(Pieces \cup {NUL})
  PROVE  /\ CString(x) \in Seq(Pieces)
         /\ \A p, q : p \in Seq(Pieces) /\ q \in Seq(Pieces \cup {NUL})
                        /\ x = p \o q /\ (q # <<>> => q[1] = NUL) => CString(x) = p
<1> DEFINE First(n) == (n < Len(x) => x[n + 1] = NUL) /\ \A i \in 1..n : x[i] # NUL
           n == CHOOSE n \in 0..Len(x) : First(n)
<1>1. n \in 0..Len(x) /\ First(n) /\ CString(x) = SubSeq(x, 1, n)
  BY FirstNul DEF CString
<1> HIDE DEF n
<1>2. /\ SubSeq(x, 1, n) \in Seq(Pieces \cup {NUL}) /\ Len(SubSeq(x, 1, n)) = n
      /\ \A i \in 1..n : SubSeq(x, 1, n)[i] = x[i]
  BY <1>1
<1>3. CString(x) \in Seq(Pieces)
  <2>1. \A i \in 1..n : SubSeq(x, 1, n)[i] \in Pieces
    BY <1>1, <1>2
  <2> QED
    BY <1>1, <1>2, <2>1
<1>4. ASSUME NEW p \in Seq(Pieces), NEW q \in Seq(Pieces \cup {NUL}), x = p \o q,
             q # <<>> => q[1] = NUL
      PROVE  CString(x) = p
  <2>1. NUL \notin Pieces
    BY DEF Pieces
  <2>2. /\ Len(x) = Len(p) + Len(q) /\ Len(p) \in Nat /\ Len(q) \in Nat
        /\ \A i \in 1..Len(p) : x[i] = p[i] /\ p[i] # NUL
    BY <1>4, <2>1
  <2>3. Len(q) > 0 => x[Len(p) + 1] = NUL
    BY <1>4
  <2>4. n = Len(p)
    <3>1. n \in Int /\ Len(p) \in Int /\ 0 <= n /\ n <= Len(x) /\ Len(p) <= Len(x)
      BY <1>1, <2>2
    <3>2. ~ (n < Len(p))
      <4> SUFFICES ASSUME n < Len(p) PROVE FALSE
        OBVIOUS
      <4>1. n + 1 \in 1..Len(p) /\ n < Len(x)
        BY <3>1, <2>2
      <4>2. x[n + 1] = NUL
        BY <1>1, <4>1
      <4> QED
        BY <2>2, <4>1, <4>2
    <3>3. ~ (n > Len(p))
      <4> SUFFICES ASSUME n > Len(p) PROVE FALSE
        OBVIOUS
      <4>1. Len(p) + 1 \in 1..n /\ Len(q) > 0
        BY <3>1, <2>2
      <4>2. x[Len(p) + 1] = NUL
        BY <2>3, <4>1
      <4> QED
        BY <1>1, <4>1, <4>2
    <3> QED
      BY <3>1, <3>2, <3>3
  <2> QED
    BY <1>1, <1>2, <2>2, <2>4
<1> QED
  BY <1>3, <1>4

\* What is put together for an abstract name fits, and nothing is lost of one
\* that is short enough.
LEMMA AbstractName ==
  ASSUME NEW x \in Seq(Pieces)
  PROVE  LET y == InVarRun(x, SunPathMax) IN
         /\ y \in Seq(Pieces) /\ Len(y) <= SunPathMax
         /\ Len(x) < SunPathMax => Len(y) = 1 + Len(x)
         /\ Len(x) < SunPathMax => \A i \in 1..Len(x) : y[i + 1] = x[i]
<1> DEFINE full == <<VarRun>> \o x
           n == Least(SunPathMax, 1 + Len(x))
<1>1. VarRun \in Pieces
  BY SocketsAssumption DEF Pieces
<1>2. full \in Seq(Pieces) /\ Len(full) = 1 + Len(x)
  BY <1>1
<1>3. n \in 1..Len(full) /\ n <= SunPathMax /\ (Len(x) < SunPathMax => n = 1 + Len(x))
  BY <1>2, SocketsAssumption DEF Least
<1>4. \A i \in 1..Len(x) : full[i + 1] = x[i]
  OBVIOUS
<1> HIDE DEF full, n
<1>5. /\ SubSeq(full, 1, n) \in Seq(Pieces) /\ Len(SubSeq(full, 1, n)) = n
      /\ \A i \in 1..n : SubSeq(full, 1, n)[i] = full[i]
  BY <1>2, <1>3
<1> QED
  BY <1>3, <1>4, <1>5 DEF full, n, InVarRun

\* What an address is made of, and the string in it.
LEMMA AddressFields ==
  ASSUME NEW a \in Addresses
  PROVE  /\ a.sa_family \in Nat /\ a.abstract \in BOOLEAN
         /\ a.name \in Seq(Pieces \cup {NUL}) /\ a.behind \in Seq(Pieces \cup {NUL})
         /\ a.name \o a.behind \in Seq(Pieces \cup {NUL})
         /\ SunPath(a) \in Seq(Pieces)
         /\ a.abstract => a.sa_family = 1
         /\ a.sa_family # 1 => a.name \in Seq(Pieces) /\ a.behind = <<>>
<1>1. /\ a \in [sa_family : Nat, abstract : BOOLEAN,
                name : Seq(Pieces \cup {NUL}), behind : Seq(Pieces \cup {NUL})]
      /\ a.abstract => a.sa_family = 1
      /\ a.sa_family # 1 => a.name \in Seq(Pieces) /\ a.behind = <<>>
  BY SocketsAssumption DEF PF_UNIX
<1>2. a.name \o a.behind \in Seq(Pieces \cup {NUL})
  BY <1>1
<1> QED
  BY <1>1, <1>2, CStringOf DEF SunPath

\* The string in an address is its name if that is plain.
LEMMA PlainPath ==
  ASSUME NEW a \in Addresses, Plain(a)
  PROVE  SunPath(a) = a.name /\ a.name \in Seq(Pieces)
<1>1. a.name \in Seq(Pieces)
  <2>1. a.name \in Seq(Pieces \cup {NUL}) /\ \A i \in 1..Len(a.name) : a.name[i] # NUL
    BY AddressFields DEF Plain
  <2>2. \A i \in 1..Len(a.name) : a.name[i] \in Pieces
    BY <2>1
  <2> QED
    BY <2>1, <2>2
<1> QED
  BY <1>1, AddressFields, CStringOf DEF SunPath, Plain

\* An address converts to a native name.
LEMMA NameConverts ==
  ASSUME NEW a \in Addresses, Known(a)
  PROVE  /\ linux_to_native_sockaddr(a) \in NativeNames
         /\ linux_to_native_sockaddr(a).sa_family = linux_to_native_domain(a.sa_family)
<1>1. SunPath(a) \in Seq(Pieces) /\ (a.sa_family # 1 => a.name \in Seq(Pieces))
  BY AddressFields
<1>2. a.sa_family \in {1, 2, 10}
  BY FamilyPairs DEF Known
<1>3. ASSUME NEW f \in {1, 2, 28}, NEW x \in Seq(Pieces), f = 1 => Len(x) <= SunPathMax
      PROVE  [sa_family |-> f, name |-> x] \in NativeNames
  BY <1>3, FamilyPairs DEF NativeNames, PF_UNIX
<1>4. CASE a.sa_family = 1 /\ a.abstract
  <2> DEFINE y == InVarRun(SunPath(a), SunPathMax)
  <2>1. linux_to_native_sockaddr(a) = [sa_family |-> 1, name |-> y]
    BY <1>4 DEF linux_to_native_sockaddr, linux_to_native_sockaddr_un, PF_UNIX
  <2>2. y \in Seq(Pieces) /\ Len(y) <= SunPathMax
    BY <1>1, AbstractName
  <2> HIDE DEF y
  <2> QED
    BY <1>3, <1>4, <2>1, <2>2, FamilyPairs
<1>5. CASE a.sa_family = 1 /\ ~a.abstract
  <2>1. linux_to_native_sockaddr(a) = [sa_family |-> 1, name |-> SunPath(a)]
    BY <1>5 DEF linux_to_native_sockaddr, linux_to_native_sockaddr_un, PF_UNIX
  <2>2. Len(SunPath(a)) <= SunPathMax
    BY <1>5 DEF Known, PF_UNIX
  <2> QED
    BY <1>1, <1>3, <1>5, <2>1, <2>2, FamilyPairs
<1>6. CASE a.sa_family # 1
  <2> DEFINE d == linux_to_native_domain(a.sa_family)
  <2>1. d \in {2, 28}
    BY <1>2, <1>6, FamilyPairs
  <2>2. linux_to_native_sockaddr(a) = [sa_family |-> d, name |-> a.name]
    BY <1>6 DEF linux_to_native_sockaddr, PF_UNIX
  <2> HIDE DEF d
  <2>3. linux_to_native_sockaddr(a) \in NativeNames
    BY <1>1, <1>3, <1>6, <2>1, <2>2
  <2> QED
    BY <2>2, <2>3 DEF d
<1> QED
  BY <1>1, <1>4, <1>5, <1>6

\* Two plain addresses have two native names.
LEMMA NamesDiffer ==
  ASSUME NEW a \in Addresses, NEW b \in Addresses, Known(a), Known(b), Plain(a), Plain(b),
         a.abstract = b.abstract,
         linux_to_native_sockaddr(a) = linux_to_native_sockaddr(b)
  PROVE  a.sa_family = b.sa_family /\ a.name = b.name
<1>1. /\ SunPath(a) = a.name /\ a.name \in Seq(Pieces)
      /\ SunPath(b) = b.name /\ b.name \in Seq(Pieces)
      /\ a.abstract \in BOOLEAN
      /\ a.abstract => a.sa_family = 1
      /\ b.abstract => b.sa_family = 1
  BY PlainPath, AddressFields
<1>2. a.sa_family \in {1, 2, 10} /\ b.sa_family \in {1, 2, 10}
  BY FamilyPairs DEF Known
<1>3. a.sa_family = b.sa_family
  BY <1>2, FamilyPairs, NameConverts
<1>4. a.name = b.name
  <2>1. CASE ~a.abstract
    BY <1>1, <1>3, <2>1 DEF linux_to_native_sockaddr, linux_to_native_sockaddr_un, PF_UNIX
  <2>2. CASE a.abstract
    <3>1. Len(a.name) < SunPathMax /\ Len(b.name) < SunPathMax
      BY <2>2 DEF Plain
    <3> DEFINE ya == InVarRun(a.name, SunPathMax)
               yb == InVarRun(b.name, SunPathMax)
    <3>2. /\ linux_to_native_sockaddr(a) = [sa_family |-> 1, name |-> ya]
          /\ linux_to_native_sockaddr(b) = [sa_family |-> 1, name |-> yb]
      BY <1>1, <2>2 DEF linux_to_native_sockaddr, linux_to_native_sockaddr_un, PF_UNIX
    <3>3. /\ Len(ya) = 1 + Len(a.name) /\ \A i \in 1..Len(a.name) : ya[i + 1] = a.name[i]
          /\ Len(yb) = 1 + Len(b.name) /\ \A i \in 1..Len(b.name) : yb[i + 1] = b.name[i]
      BY <1>1, <3>1, AbstractName
    <3> HIDE DEF ya, yb
    <3>4. ya = yb
      <4>1. [sa_family |-> 1, name |-> ya] = [sa_family |-> 1, name |-> yb]
        BY <3>2
      <4>2. [sa_family |-> 1, name |-> ya].name = [sa_family |-> 1, name |-> yb].name
        BY ONLY <4>1
      <4> QED
        BY ONLY <4>2
    <3>5. Len(a.name) = Len(b.name)
      BY <1>1, <3>3, <3>4
    <3>6. \A i \in 1..Len(a.name) : a.name[i] = b.name[i]
      BY <3>3, <3>4, <3>5
    <3> QED
      BY <1>1, <3>5, <3>6
  <2> QED
    BY <1>1, <2>1, <2>2
<1> QED
  BY <1>3, <1>4

\* A native name that is told converts back to itself.
LEMMA NameComesBack ==
  ASSUME NEW n \in NativeNames, n.name # <<>>
  PROVE  /\ Known(native_to_linux_sockaddr(n))
         /\ linux_to_native_sockaddr(native_to_linux_sockaddr(n)) = n
<1>1. PICK p \in Families : p[2] = n.sa_family
  BY DEF NativeNames
<1>2. n \in [sa_family : {q[2] : q \in Families}, name : Seq(Pieces)]
  BY DEF NativeNames
<1> DEFINE f == (CHOOSE q \in Families : q[2] = n.sa_family)[1]
<1>3. /\ \E q \in Families : q[1] = f
      /\ linux_to_native_domain(f) = n.sa_family /\ (f = 1 <=> n.sa_family = 1)
  <2>1. ASSUME NEW q \in Families, q[2] = n.sa_family PROVE q[1] = p[1]
    <3>1. q \in {<<1, 1>>, <<2, 2>>, <<10, 28>>} /\ p \in {<<1, 1>>, <<2, 2>>, <<10, 28>>}
      BY DEF Families
    <3> QED
      BY <1>1, <2>1, <3>1
  <2>2. f = p[1]
    BY <1>1, <2>1
  <2>3. p = <<1, 1>> \/ p = <<2, 2>> \/ p = <<10, 28>>
    BY DEF Families
  <2>4. \E q \in Families : q[1] = f
    BY <2>2
  <2> HIDE DEF f
  <2>5. (f = 1 /\ n.sa_family = 1) \/ (f = 2 /\ n.sa_family = 2) \/ (f = 10 /\ n.sa_family = 28)
    BY <1>1, <2>2, <2>3
  <2> QED
    BY <2>4, <2>5, FamilyPairs
<1> DEFINE told == native_to_linux_sockaddr(n)
<1>4. told = [sa_family |-> f, abstract |-> FALSE, name |-> n.name, behind |-> <<>>]
  BY DEF native_to_linux_sockaddr
<1>5. /\ told.sa_family = f /\ told.abstract = FALSE
      /\ told.name = n.name /\ told.behind = <<>>
  BY <1>4
<1> HIDE DEF f, told
<1>6. SunPath(told) = n.name
  <2>1. n.name \in Seq(Pieces) /\ n.name \o <<>> \in Seq(Pieces \cup {NUL})
        /\ <<>> \in Seq(Pieces \cup {NUL})
    BY <1>2
  <2> QED
    BY <1>5, <2>1, CStringOf DEF SunPath
<1>7. Known(told)
  BY <1>3, <1>5, <1>6 DEF Known, NativeNames, PF_UNIX
<1>8. linux_to_native_sockaddr(told) = [sa_family |-> n.sa_family, name |-> n.name]
  BY <1>3, <1>5, <1>6 DEF linux_to_native_sockaddr, linux_to_native_sockaddr_un, PF_UNIX
<1> QED
  BY <1>2, <1>7, <1>8 DEF told

-----------------------------------------------------------------------------
(* Numbers                                                                 *)

LEMMA BitsConvert ==
  ASSUME NEW B
  PROVE  /\ ToNative(TypeBits, B) \subseteq {b[2] : b \in TypeBits}
         /\ 29 \in ToNative(TypeBits, B) <=> 11 \in B
         /\ 7 \in ToNative(MsgFlags, B) <=> 6 \in B
         /\ 14 \notin ToNative(MsgFlags, B)
<1>1. ToNative(TypeBits, B) \subseteq {b[2] : b \in TypeBits}
  BY DEF ToNative
<1>2. \A b \in TypeBits : b[2] = 29 <=> b[1] = 11
  BY DEF TypeBits
<1>3. \E b \in TypeBits : b[2] = 29
  BY DEF TypeBits
<1>4. 29 \in ToNative(TypeBits, B) <=> 11 \in B
  BY <1>2, <1>3 DEF ToNative
<1>5. \A b \in MsgFlags : b[2] = 7 <=> b[1] = 6
  BY DEF MsgFlags
<1>6. \E b \in MsgFlags : b[2] = 7
  <2>1. <<6, 7>> \in MsgFlags
    BY DEF MsgFlags
  <2> QED
    BY <2>1
<1>7. 7 \in ToNative(MsgFlags, B) <=> 6 \in B
  BY <1>5, <1>6 DEF ToNative
<1>8. 14 \notin ToNative(MsgFlags, B)
  <2>1. \A b \in MsgFlags : b[2] # 14
    BY DEF MsgFlags
  <2> QED
    BY <2>1 DEF ToNative
<1> QED
  BY <1>1, <1>4, <1>7, <1>8

LEMMA EAGAINConverts == native_to_linux_errno(EAGAIN) = 11
<1>1. \A p \in Errnos : p[2] = 35 <=> p[1] = 11
  BY DEF Errnos
<1>2. \E p \in Errnos : p[2] = 35
  BY DEF Errnos
<1> QED
  BY <1>1, <1>2 DEF native_to_linux_errno, EAGAIN

\* The message that carries descriptors is the only one that converts to
\* Linux's.
LEMMA RightsConvert ==
  /\ linux_to_native_cmsg(LinuxRights) = Rights
  /\ native_to_linux_cmsg(Rights) = LinuxRights
<1>1. \A p \in Levels : p[1] = 1 <=> p[2] = 65535
  BY DEF Levels
<1>2. \E p \in Levels : p[1] = 1
  BY DEF Levels
<1>3. linux_to_native_sock_level(1) = 65535 /\ native_to_linux_sock_level(65535) = 1
  BY <1>1, <1>2 DEF linux_to_native_sock_level, native_to_linux_sock_level
<1> QED
  BY <1>3 DEF linux_to_native_cmsg, native_to_linux_cmsg, LinuxRights, Rights

-----------------------------------------------------------------------------
(* The invariant, by what it is about: sockets, queues, the rest, answers  *)

GoodSocket(w) ==
  /\ w.name.sa_family = w.domain
  /\ w.type.bits = ToNative(TypeBits, w.asked.bits)
  /\ w.meant # NONE =>
       /\ Known(w.meant) /\ w.name = linux_to_native_sockaddr(w.meant)
       /\ w.domain # PF_UNIX => w.name.name # <<>>

SockOK ==
  /\ sock \in [Sockets -> NativeSockets \cup {NONE}]
  /\ \A s \in Open : GoodSocket(sock[s]) /\ sock[s].peer \in Open \cup {NONE}

QueueOK ==
  /\ queue \in [Sockets -> Seq(Messages)]
  /\ \A s \in Sockets :
       /\ Len(queue[s]) <= MaxQueue /\ (queue[s] # <<>> => s \in Open)
       /\ \A i \in DOMAIN queue[s] : queue[s][i].rights <=> Rights \in queue[s][i].control

RestOK ==
  /\ \A n \in files : n \in NativeNames /\ n.sa_family = PF_UNIX
  /\ msg_control \in BOOLEAN /\ dead \in BOOLEAN

DescriptorsTold ==
  ret # NONE /\ ret.says = "received" =>
    /\ LinuxRights \in ret.told => ret.rights
    /\ ret.rights => LinuxRights \in ret.told \/ CTRUNC.linux \in ret.flags

RetOK == NamesConverted /\ NamesApart /\ NonblockingCallsReturn /\ DescriptorsTold

LEMMA IInvParts == IInv <=> SockOK /\ QueueOK /\ RestOK /\ RetOK
<1>1. TypeOK /\ SocketsAsAsked /\ RightsArrive <=>
        SockOK /\ QueueOK /\ RestOK /\ DescriptorsTold
  <2>1. ASSUME queue \in [Sockets -> Seq(Messages)],
               \A s \in Sockets : queue[s] # <<>> => s \in Open
        PROVE  (\A s \in Open : \A i \in DOMAIN queue[s] :
                  queue[s][i].rights <=> Rights \in queue[s][i].control)
               <=> (\A s \in Sockets : \A i \in DOMAIN queue[s] :
                  queue[s][i].rights <=> Rights \in queue[s][i].control)
    <3>1. \A s \in Sockets : queue[s] = <<>> => DOMAIN queue[s] = {}
      OBVIOUS
    <3> QED
      BY <2>1, <3>1 DEF Open
  <2> QED
    BY <2>1, Zenon
    DEF TypeOK, SocketsAsAsked, RightsArrive, SockOK, QueueOK, RestOK, GoodSocket, DescriptorsTold
<1> QED
  BY <1>1 DEF IInv, RetOK

LEMMA IInvPartsNext == IInv' <=> SockOK' /\ QueueOK' /\ RestOK' /\ RetOK'
BY IInvParts, PTL

-----------------------------------------------------------------------------
(* What steps do to one part                                               *)

\* One socket becomes w.
LEMMA SocketSet ==
  ASSUME SockOK, NEW s \in Sockets, NEW w \in NativeSockets, GoodSocket(w),
         w.peer \in Open \cup {s, NONE}, sock' = [sock EXCEPT ![s] = w]
  PROVE  SockOK' /\ Open' = Open \cup {s}
<1>1. w # NONE
  BY SocketsAssumption
<1>2. sock' \in [Sockets -> NativeSockets \cup {NONE}]
  BY DEF SockOK
<1>3. sock'[s] = w /\ \A r \in Sockets \ {s} : sock'[r] = sock[r]
  BY DEF SockOK
<1>4. Open' = Open \cup {s}
  BY <1>1, <1>3 DEF Open
<1>5. \A r \in Open' : GoodSocket(sock[r])' /\ sock'[r].peer \in Open' \cup {NONE}
  <2>1. \A r \in Open' : GoodSocket(sock'[r]) /\ sock'[r].peer \in Open' \cup {NONE}
    BY <1>3, <1>4 DEF SockOK
  <2> QED
    BY <2>1 DEF GoodSocket
<1> QED
  BY <1>2, <1>4, <1>5 DEF SockOK

LEMMA SocketsSame ==
  ASSUME SockOK, sock' = sock
  PROVE  SockOK' /\ Open' = Open
BY DEF SockOK, Open, GoodSocket

\* The fields of a good socket, and of one that changes its name or its peer.
LEMMA SocketFields ==
  ASSUME SockOK, NEW s \in Open
  PROVE  /\ s \in Sockets /\ sock[s] \in NativeSockets /\ GoodSocket(sock[s])
         /\ sock[s].peer \in Open \cup {NONE}
         /\ Sender(s) \in NativeNames /\ Sender(s).sa_family = sock[s].domain
         /\ sock[s].meant # NONE => Sender(s) = sock[s].name
<1>1. s \in Sockets /\ sock[s] \in NativeSockets /\ GoodSocket(sock[s])
      /\ sock[s].peer \in Open \cup {NONE}
  BY DEF SockOK, Open
<1>2. CASE sock[s].domain = PF_UNIX \/ sock[s].name.name # <<>>
  <2>1. sock[s].name \in NativeNames
    BY <1>1 DEF NativeSockets
  <2> QED
    BY <1>1, <1>2, <2>1 DEF Sender, GoodSocket
<1>3. CASE ~(sock[s].domain = PF_UNIX \/ sock[s].name.name # <<>>)
  <2>1. Sender(s) = [sa_family |-> sock[s].domain, name |-> <<s>>]
    BY <1>3 DEF Sender, Ephemeral
  <2>2. sock[s].domain \in {p[2] : p \in Families} /\ sock[s].domain # PF_UNIX
    BY <1>1, <1>3 DEF NativeSockets
  <2>3. <<s>> \in Seq(Pieces)
    <3>1. s \in Pieces
      BY <1>1, SocketsAssumption DEF Pieces
    <3> QED
      BY <3>1
  <2>4. Sender(s) \in NativeNames
    BY <2>1, <2>2, <2>3 DEF NativeNames
  <2>5. sock[s].meant = NONE
    BY <1>1, <1>3 DEF GoodSocket
  <2> QED
    BY <1>1, <2>1, <2>4, <2>5
<1> QED
  BY <1>2, <1>3

\* A socket that is given a peer and a name of its own family stays good.
LEMMA Renamed ==
  ASSUME SockOK, NEW s \in Open, NEW r \in Open \cup {NONE}
  PROVE  LET w == [sock[s] EXCEPT !.peer = r, !.name = Sender(s)] IN
         w \in NativeSockets /\ GoodSocket(w) /\ w.peer = r
<1> DEFINE w == [sock[s] EXCEPT !.peer = r, !.name = Sender(s)]
<1>1. /\ sock[s] \in NativeSockets /\ GoodSocket(sock[s])
      /\ Sender(s) \in NativeNames /\ Sender(s).sa_family = sock[s].domain
      /\ sock[s].meant # NONE => Sender(s) = sock[s].name
  BY SocketFields
<1>2. r \in Sockets \cup {NONE}
  BY DEF Open
<1>3. w \in NativeSockets
  BY <1>1, <1>2 DEF NativeSockets
<1>4. /\ w.domain = sock[s].domain /\ w.type = sock[s].type /\ w.asked = sock[s].asked
      /\ w.meant = sock[s].meant /\ w.name = Sender(s) /\ w.peer = r
  BY <1>1 DEF NativeSockets
<1> HIDE DEF w
<1>5. GoodSocket(w)
  BY <1>1, <1>4 DEF GoodSocket
<1> QED
  BY <1>3, <1>4, <1>5 DEF w

LEMMA QueuesSame ==
  ASSUME QueueOK, queue' = queue, Open \subseteq Open'
  PROVE  QueueOK'
BY DEF QueueOK

LEMMA MessageQueued ==
  ASSUME QueueOK, NEW r \in Open, NEW m \in Messages, m.rights <=> Rights \in m.control,
         Len(queue[r]) < MaxQueue, queue' = [queue EXCEPT ![r] = Append(@, m)],
         Open' = Open
  PROVE  QueueOK'
<1>1. r \in Sockets /\ queue[r] \in Seq(Messages)
  BY DEF QueueOK, Open
<1>2. /\ queue'[r] = Append(queue[r], m)
      /\ \A s \in Sockets \ {r} : queue'[s] = queue[s]
      /\ queue' \in [Sockets -> Seq(Messages)]
  BY <1>1 DEF QueueOK
<1>3. Len(queue'[r]) <= MaxQueue
  BY <1>1, <1>2, SocketsAssumption
<1>4. \A i \in DOMAIN queue'[r] : queue'[r][i].rights <=> Rights \in queue'[r][i].control
  <2> SUFFICES ASSUME NEW i \in DOMAIN Append(queue[r], m)
               PROVE  Append(queue[r], m)[i].rights <=> Rights \in Append(queue[r], m)[i].control
    BY <1>2
  <2>1. \/ i \in DOMAIN queue[r] /\ Append(queue[r], m)[i] = queue[r][i]
        \/ Append(queue[r], m)[i] = m
    BY <1>1
  <2> QED
    BY <1>1, <2>1 DEF QueueOK
<1> QED
  BY <1>2, <1>3, <1>4 DEF QueueOK

LEMMA MessageTaken ==
  ASSUME QueueOK, NEW s \in Open, queue[s] # <<>>,
         queue' = [queue EXCEPT ![s] = Tail(@)], Open' = Open
  PROVE  /\ QueueOK'
         /\ Head(queue[s]) \in Messages
         /\ Head(queue[s]).rights <=> Rights \in Head(queue[s]).control
<1>1. s \in Sockets /\ queue[s] \in Seq(Messages)
  BY DEF QueueOK, Open
<1>2. /\ queue'[s] = Tail(queue[s])
      /\ \A r \in Sockets \ {s} : queue'[r] = queue[r]
      /\ queue' \in [Sockets -> Seq(Messages)]
  BY <1>1 DEF QueueOK
<1>3. Len(queue'[s]) <= MaxQueue
  BY <1>1, <1>2, SocketsAssumption DEF QueueOK
<1>4. \A i \in DOMAIN queue'[s] : queue'[s][i].rights <=> Rights \in queue'[s][i].control
  <2> SUFFICES ASSUME NEW i \in DOMAIN Tail(queue[s])
               PROVE  Tail(queue[s])[i].rights <=> Rights \in Tail(queue[s])[i].control
    BY <1>2
  <2>1. i + 1 \in DOMAIN queue[s] /\ Tail(queue[s])[i] = queue[s][i + 1]
    BY <1>1
  <2> QED
    BY <1>1, <2>1 DEF QueueOK
<1>5. 1 \in DOMAIN queue[s] /\ Head(queue[s]) = queue[s][1] /\ queue[s][1] \in Messages
  BY <1>1
<1>6. queue[s][1].rights <=> Rights \in queue[s][1].control
  BY <1>1, <1>5 DEF QueueOK
<1> QED
  BY <1>2, <1>3, <1>4, <1>5, <1>6 DEF QueueOK

-----------------------------------------------------------------------------
(* What the calls say                                                      *)

LEMMA SaysNothing ==
  ASSUME Done
  PROVE  RetOK'
BY DEF Done, RetOK, DescriptorsTold, NamesConverted, NamesApart, NonblockingCallsReturn, Named

LEMMA SaysFailed ==
  ASSUME NEW e, NEW errno,
         ret' = [says |-> "failed", error |-> e, errno |-> errno]
  PROVE  RetOK'
BY DEF RetOK, DescriptorsTold, NamesConverted, NamesApart, NonblockingCallsReturn, Named

\* A call that converts waits only where it may, and gives up only where it may;
\* one that does not gives up at least on a socket that may not wait.
LEMMA SaysStops ==
  ASSUME SockOK, NEW s \in Open, NEW F, NEW N, NEW converts \in BOOLEAN,
         converts => N = linux_to_native_msg_flags(F), Stops(s, F, N, converts)
  PROVE  RetOK'
<1> DEFINE nonblock == NONBLOCK.linux \in sock[s].asked.bits
           dontwait == DONTWAIT.linux \in F
<1>1. GoodSocket(sock[s])
  BY DEF SockOK
<1>2. 29 \in sock[s].type.bits <=> nonblock
  BY <1>1, BitsConvert DEF GoodSocket, NONBLOCK
<1>3. converts => (N \cap {7, 14} = {} <=> ~dontwait)
  BY BitsConvert DEF linux_to_native_msg_flags, DONTWAIT
<1>4. MayWait(s, N) => ~nonblock /\ (converts => ~dontwait)
  BY <1>2, <1>3 DEF MayWait, NONBLOCK, DONTWAIT, NBIO
<1>5. ~MayWait(s, N) /\ converts => nonblock \/ dontwait
  BY <1>2, <1>3 DEF MayWait, NONBLOCK, DONTWAIT, NBIO
<1>6. /\ ret'.says = IF MayWait(s, N) THEN "waits" ELSE "again"
      /\ ret'.nonblock = nonblock /\ ret'.dontwait = dontwait /\ ret'.converts = converts
      /\ ret'.errno = IF converts THEN native_to_linux_errno(EAGAIN) ELSE EAGAIN
  BY DEF Stops
<1> HIDE DEF nonblock, dontwait
<1>7. NonblockingCallsReturn'
  BY <1>4, <1>5, <1>6, EAGAINConverts DEF NonblockingCallsReturn
<1>8. ret'.says \in {"waits", "again"}
  BY <1>6
<1> QED
  BY <1>7, <1>8 DEF RetOK, DescriptorsTold, NamesConverted, NamesApart, Named

\* What is sent to an address arrives at a socket of that address.
LEMMA SaysSent ==
  ASSUME SockOK, NEW r \in Open, NEW a \in Addresses, Known(a),
         sock[r].name = linux_to_native_sockaddr(a),
         ret' = [says |-> "sent", dest |-> a, at |-> sock[r].meant]
  PROVE  RetOK'
<1>1. sock[r] \in NativeSockets /\ GoodSocket(sock[r])
  BY SocketFields
<1>2. sock[r].meant \in Addresses \cup {NONE}
  BY <1>1 DEF NativeSockets
<1>3. sock[r].meant # NONE /\ Plain(a) /\ Plain(sock[r].meant)
        /\ a.abstract = sock[r].meant.abstract
          => a.sa_family = sock[r].meant.sa_family /\ a.name = sock[r].meant.name
  BY <1>1, <1>2, NamesDiffer DEF GoodSocket
<1>4. ret'.says = "sent" /\ ret'.dest = a /\ ret'.at = sock[r].meant
  OBVIOUS
<1>5. NamesApart'
  BY <1>3, <1>4 DEF NamesApart
<1> QED
  BY <1>4, <1>5 DEF RetOK, DescriptorsTold, NamesConverted, NonblockingCallsReturn, Named

LEMMA SaysFrom ==
  ASSUME NEW n \in NativeNames,
         ret' = [says |-> "from",
                 name |-> [addr |-> native_to_linux_sockaddr(n), from |-> n]]
  PROVE  RetOK'
<1>1. /\ ret'.says = "from"
      /\ ret'.name.from = n /\ ret'.name.addr = native_to_linux_sockaddr(n)
  OBVIOUS
<1> QED
  BY <1>1 DEF RetOK, DescriptorsTold, NamesConverted, NamesApart, NonblockingCallsReturn, Named

LEMMA SaysReceived ==
  ASSUME NEW n \in NativeNames, NEW name, NEW rights, NEW told, NEW flags,
         LinuxRights \in told => rights,
         rights => LinuxRights \in told \/ CTRUNC.linux \in flags,
         name = NONE \/ name = [addr |-> native_to_linux_sockaddr(n), from |-> n],
         ret' = [says |-> "received", name |-> name, rights |-> rights,
                 told |-> told, flags |-> flags]
  PROVE  RetOK'
<1>1. /\ ret'.says = "received" /\ ret'.name = name
      /\ ret'.rights = rights /\ ret'.told = told /\ ret'.flags = flags
  OBVIOUS
<1>2. name # NONE => name.from = n /\ name.addr = native_to_linux_sockaddr(n)
  OBVIOUS
<1> QED
  BY <1>1, <1>2
  DEF RetOK, DescriptorsTold, NamesConverted, NamesApart, NonblockingCallsReturn, Named

-----------------------------------------------------------------------------
(* Steps that several calls share                                          *)

LEMMA InitKeeps == Init => IInv
<1> SUFFICES ASSUME Init PROVE IInv
  OBVIOUS
<1>1. Open = {}
  BY DEF Init, Open
<1>2. SockOK /\ RestOK
  BY <1>1 DEF Init, SockOK, RestOK
<1>3. QueueOK
  BY SocketsAssumption DEF Init, QueueOK
<1>4. RetOK
  BY DEF Init, RetOK, DescriptorsTold, NamesConverted, NamesApart, NonblockingCallsReturn, Named
<1> QED
  BY <1>2, <1>3, <1>4, IInvParts

LEMMA DiesKeeps ==
  ASSUME IInv, Dies
  PROVE  IInv'
<1>1. Open' = {}
  BY DEF Dies, Open
<1>2. SockOK' /\ RestOK'
  BY <1>1, IInvParts DEF Dies, SockOK, RestOK
<1>3. QueueOK'
  BY SocketsAssumption DEF Dies, QueueOK
<1>4. RetOK'
  BY SaysNothing DEF Dies
<1> QED
  BY <1>2, <1>3, <1>4, IInvPartsNext

LEMMA FailsKeeps ==
  ASSUME IInv, NEW e, NEW errno, Fails(e, errno), UNCHANGED dead
  PROVE  IInv'
<1>1. SockOK /\ QueueOK /\ RestOK
  BY IInvParts
<1>2. SockOK' /\ QueueOK' /\ RestOK'
  BY <1>1, SocketsSame, QueuesSame DEF Fails, RestOK
<1>3. RetOK'
  BY SaysFailed DEF Fails
<1> QED
  BY <1>2, <1>3, IInvPartsNext

LEMMA StopsKeeps ==
  ASSUME IInv, NEW s \in Open, NEW F, NEW N, NEW converts \in BOOLEAN,
         converts => N = linux_to_native_msg_flags(F), Stops(s, F, N, converts),
         UNCHANGED dead
  PROVE  IInv'
<1>1. SockOK /\ QueueOK /\ RestOK
  BY IInvParts
<1>2. SockOK' /\ QueueOK' /\ RestOK'
  BY <1>1, SocketsSame, QueuesSame DEF Stops, RestOK
<1>3. RetOK'
  BY <1>1, SaysStops
<1> QED
  BY <1>2, <1>3, IInvPartsNext

LEMMA NoMessageKeeps ==
  ASSUME IInv, NEW s \in Open, NEW F, Live,
         NoMessage(s, F, linux_to_native_msg_flags(F), TRUE) \/ NoMessage(s, F, F, FALSE)
  PROVE  IInv'
<1>1. ASSUME NEW N, NEW converts \in BOOLEAN, converts => N = linux_to_native_msg_flags(F),
             NoMessage(s, F, N, converts)
      PROVE  IInv'
  BY <1>1, StopsKeeps DEF NoMessage, Live
<1> QED
  BY <1>1

LEMMA KernelSendsKeeps ==
  ASSUME IInv, NEW s \in Open, NEW r \in Open, NEW m \in Messages,
         m.rights <=> Rights \in m.control, NEW dest, NEW F, Live,
         dest = NONE \/ (dest \in Addresses /\ Known(dest)
                           /\ sock[r].name = linux_to_native_sockaddr(dest)),
         KernelSends(s, r, m, dest, F, linux_to_native_msg_flags(F))
  PROVE  IInv'
<1>1. SockOK /\ QueueOK /\ RestOK
  BY IInvParts
<1>2. CASE Len(queue[r]) < MaxQueue
  <2> DEFINE w == [sock[s] EXCEPT !.peer = sock[s].peer, !.name = Sender(s)]
  <2>1. /\ s \in Sockets /\ sock[s] \in NativeSockets
        /\ sock[s].peer \in Open \cup {NONE}
    BY <1>1, SocketFields
  <2>2. w \in NativeSockets /\ GoodSocket(w) /\ w.peer = sock[s].peer
    BY <1>1, <2>1, Renamed
  <2>3. w = [sock[s] EXCEPT !.name = Sender(s)]
    BY <2>1 DEF NativeSockets
  <2>4. sock' = [sock EXCEPT ![s] = w]
    BY <1>2, <2>3 DEF KernelSends
  <2> HIDE DEF w
  <2>5. SockOK' /\ Open' = Open
    BY <1>1, <2>1, <2>2, <2>4, SocketSet
  <2>6. QueueOK'
    BY <1>1, <1>2, <2>5, MessageQueued DEF KernelSends
  <2>7. RetOK'
    <3>1. CASE dest = NONE
      BY <1>2, <3>1, SaysNothing DEF KernelSends, Done
    <3>2. CASE dest # NONE
      BY <1>1, <1>2, <3>2, SaysSent DEF KernelSends
    <3> QED
      BY <3>1, <3>2
  <2>8. RestOK'
    BY <1>1, <1>2 DEF KernelSends, RestOK, Live
  <2> QED
    BY <2>5, <2>6, <2>7, <2>8, IInvPartsNext
<1>3. CASE ~(Len(queue[r]) < MaxQueue)
  <2>1. CASE Fails(ENOBUFS, native_to_linux_errno(ENOBUFS))
    BY <2>1, FailsKeeps DEF Live
  <2>2. CASE Stops(s, F, linux_to_native_msg_flags(F), TRUE)
    BY <2>2, StopsKeeps DEF Live
  <2> QED
    BY <1>3, <2>1, <2>2 DEF KernelSends
<1> QED
  BY <1>2, <1>3

-----------------------------------------------------------------------------
(* The calls                                                               *)

LEMMA KnownFamily ==
  ASSUME NEW a \in Addresses, Known(a)
  PROVE  linux_to_native_domain(a.sa_family) \in {1, 2, 28}
BY FamilyPairs DEF Known

LEMMA NewSocketGood ==
  ASSUME NEW d \in {1, 2, 28}, NEW t \in Types, TypeKnown(t), NEW r \in Sockets \cup {NONE}
  PROVE  LET w == [NewSocket(d, linux_to_native_sock_type(t), t) EXCEPT !.peer = r] IN
         w \in NativeSockets /\ GoodSocket(w) /\ w.peer = r
<1> DEFINE n == [sa_family |-> d, name |-> <<>>]
           k == linux_to_native_sock_type(t)
           w == [domain |-> d, type |-> k, name |-> n, peer |-> r, asked |-> t, meant |-> NONE]
<1>1. [NewSocket(d, k, t) EXCEPT !.peer = r] = w
  BY DEF NewSocket, Unnamed
<1>2. n \in NativeNames
  <2>1. <<>> \in Seq(Pieces) /\ Len(<<>>) = 0 /\ 0 <= SunPathMax
    BY SocketsAssumption
  <2> QED
    BY <2>1, FamilyPairs DEF NativeNames
<1>3. k = [kind |-> t.kind, bits |-> ToNative(TypeBits, t.bits)]
  BY DEF linux_to_native_sock_type
<1>4. k \in [kind : 1..7, bits : SUBSET {b[2] : b \in TypeBits}]
  <2>1. t.kind \in 1..7 /\ ToNative(TypeBits, t.bits) \in SUBSET {b[2] : b \in TypeBits}
    BY BitsConvert DEF TypeKnown
  <2> QED
    BY <1>3, <2>1
<1>5. k.bits = ToNative(TypeBits, t.bits)
  BY <1>3
<1> HIDE DEF n, k
<1>6. w \in NativeSockets
  BY <1>2, <1>4, FamilyPairs DEF NativeSockets
<1>7. n.sa_family = d
  BY DEF n
<1>8. GoodSocket(w)
  BY <1>5, <1>7 DEF GoodSocket
<1> QED
  BY <1>1, <1>6, <1>8 DEF k

LEMMA SocketKeeps ==
  ASSUME IInv, NEW s \in Sockets, NEW a \in Addresses, Known(a), NEW t \in Types,
         socket(s, a.sa_family, t)
  PROVE  IInv'
<1>1. SockOK /\ QueueOK /\ RestOK
  BY IInvParts
<1> DEFINE d == linux_to_native_domain(a.sa_family)
           new == NewSocket(d, linux_to_native_sock_type(t), t)
           w == [new EXCEPT !.peer = NONE]
<1>2. d \in {1, 2, 28} /\ TypeKnown(t)
  BY KnownFamily DEF socket
<1>3. w = new /\ sock' = [sock EXCEPT ![s] = new]
  BY DEF socket, NewSocket
<1> HIDE DEF d
<1>4. w \in NativeSockets /\ GoodSocket(w) /\ w.peer = NONE
  BY <1>2, NewSocketGood
<1> HIDE DEF w, new
<1>5. SockOK' /\ Open' = Open \cup {s}
  BY <1>1, <1>3, <1>4, SocketSet
<1>6. QueueOK' /\ RestOK' /\ RetOK'
  BY <1>1, <1>5, QueuesSame, SaysNothing DEF socket, RestOK, Live
<1> QED
  BY <1>5, <1>6, IInvPartsNext

LEMMA SocketpairKeeps ==
  ASSUME IInv, NEW s \in Sockets, NEW r \in Sockets, NEW t \in Types, socketpair(s, r, t)
  PROVE  IInv'
<1>1. SockOK /\ QueueOK /\ RestOK
  BY IInvParts
<1> DEFINE new == NewSocket(PF_UNIX, linux_to_native_sock_type(t), t)
           w(q) == [new EXCEPT !.peer = q]
<1>2. TypeKnown(t) /\ PF_UNIX \in {1, 2, 28} /\ s # r
  BY DEF socketpair, PF_UNIX
<1>3. w(r) \in NativeSockets /\ GoodSocket(w(r)) /\ w(r).peer = r
  BY <1>2, NewSocketGood
<1>4. w(s) \in NativeSockets /\ GoodSocket(w(s)) /\ w(s).peer = s
  BY <1>2, NewSocketGood
<1>5. sock' = [sock EXCEPT ![s] = w(r), ![r] = w(s)]
  BY DEF socketpair
<1> HIDE DEF w
<1>6. w(r) # NONE /\ w(s) # NONE
  BY <1>3, <1>4, SocketsAssumption
<1>7. sock' \in [Sockets -> NativeSockets \cup {NONE}]
  BY <1>1, <1>3, <1>4, <1>5 DEF SockOK
<1>8. sock'[s] = w(r) /\ sock'[r] = w(s) /\ \A q \in Sockets \ {s, r} : sock'[q] = sock[q]
  BY <1>1, <1>2, <1>5 DEF SockOK
<1>9. Open' = Open \cup {s, r}
  BY <1>6, <1>8 DEF Open
<1>10. ASSUME NEW q \in Open'
       PROVE  GoodSocket(sock'[q]) /\ sock'[q].peer \in Open' \cup {NONE}
  <2>1. CASE q \in {s, r}
    BY <1>3, <1>4, <1>8, <1>9, <2>1
  <2>2. CASE q \notin {s, r}
    <3>1. q \in Open /\ sock'[q] = sock[q]
      BY <1>8, <1>9, <2>2 DEF Open
    <3>2. GoodSocket(sock[q]) /\ sock[q].peer \in Open \cup {NONE}
      BY <1>1, <3>1, SocketFields
    <3> QED
      BY <1>9, <3>1, <3>2
  <2> QED
    BY <2>1, <2>2
<1>11. SockOK'
  BY <1>7, <1>10 DEF SockOK, GoodSocket
<1>12. QueueOK' /\ RestOK' /\ RetOK'
  BY <1>1, <1>9, QueuesSame, SaysNothing DEF socketpair, RestOK, Live
<1> QED
  BY <1>11, <1>12, IInvPartsNext

LEMMA BindKeeps ==
  ASSUME IInv, NEW s \in Sockets, NEW a \in Addresses, bind(s, a)
  PROVE  IInv'
<1>1. SockOK /\ QueueOK /\ RestOK /\ s \in Open /\ Known(a)
  BY IInvParts DEF bind
<1> DEFINE n == linux_to_native_sockaddr(a)
<1>2. n \in NativeNames /\ n.sa_family = linux_to_native_domain(a.sa_family)
  BY <1>1, NameConverts
<1>3. CASE Fails(EINVAL, EINVAL) \/ Fails(EADDRINUSE, EADDRINUSE)
  BY <1>3, FailsKeeps DEF bind, Live
<1>4. CASE /\ n.sa_family = sock[s].domain
           /\ Done
           /\ sock' = [sock EXCEPT ![s].name = n, ![s].meant = a]
           /\ files' = IF n.sa_family = PF_UNIX THEN files \cup {n} ELSE files
           /\ UNCHANGED <<queue, msg_control>>
  <2> DEFINE w == [sock[s] EXCEPT !.name = n, !.meant = a]
  <2>1. sock[s] \in NativeSockets /\ GoodSocket(sock[s]) /\ sock[s].peer \in Open \cup {NONE}
    BY <1>1, SocketFields
  <2>2. sock' = [sock EXCEPT ![s] = w]
    BY <1>4
  <2>3. n.sa_family # PF_UNIX => n.name # <<>>
    <3>1. CASE a.sa_family = PF_UNIX
      BY <1>2, <3>1, FamilyPairs DEF PF_UNIX
    <3>2. CASE a.sa_family # PF_UNIX
      <4>1. a.name # <<>>
        BY <1>1, <3>2, SocketsAssumption
      <4>2. n = [sa_family |-> linux_to_native_domain(a.sa_family), name |-> a.name]
        BY <3>2 DEF linux_to_native_sockaddr
      <4> HIDE DEF n
      <4> QED
        BY <4>1, <4>2
    <3> QED
      BY <3>1, <3>2
  <2> HIDE DEF n
  <2>4. w \in NativeSockets
    BY <1>2, <2>1 DEF NativeSockets
  <2>5. /\ w.name = n /\ w.meant = a /\ w.domain = sock[s].domain /\ w.type = sock[s].type
        /\ w.asked = sock[s].asked /\ w.peer = sock[s].peer
    BY <2>1 DEF NativeSockets
  <2> HIDE DEF w
  <2>6. GoodSocket(w)
    BY <1>1, <1>4, <2>1, <2>3, <2>5 DEF GoodSocket, n
  <2>7. SockOK' /\ Open' = Open
    BY <1>1, <2>1, <2>2, <2>4, <2>5, <2>6, SocketSet
  <2>8. QueueOK' /\ RetOK'
    BY <1>1, <1>4, <2>7, QueuesSame, SaysNothing
  <2>9. RestOK'
    BY <1>1, <1>2, <1>4 DEF RestOK, bind, Live
  <2> QED
    BY <2>7, <2>8, <2>9, IInvPartsNext
<1> QED
  BY <1>3, <1>4 DEF bind

LEMMA ConnectKeeps ==
  ASSUME IInv, NEW s \in Sockets, NEW a \in Addresses, connect(s, a)
  PROVE  IInv'
<1>1. SockOK /\ QueueOK /\ RestOK /\ s \in Open /\ Known(a)
  BY IInvParts DEF connect
<1> DEFINE n == linux_to_native_sockaddr(a)
<1>2. CASE Fails(EINVAL, native_to_linux_errno(EINVAL))
           \/ Fails(ECONNREFUSED, native_to_linux_errno(ECONNREFUSED))
  BY <1>2, FailsKeeps DEF connect, Live
<1>3. ASSUME NEW r \in Holders(n), Done,
             sock' = [sock EXCEPT ![s].peer = r, ![s].name = Sender(s)],
             UNCHANGED <<files, queue, msg_control>>
      PROVE  IInv'
  <2> DEFINE w == [sock[s] EXCEPT !.peer = r, !.name = Sender(s)]
  <2>1. r \in Open /\ s \in Sockets
    BY <1>1, SocketFields DEF Holders
  <2>2. w \in NativeSockets /\ GoodSocket(w) /\ w.peer = r
    BY <1>1, <2>1, Renamed
  <2>3. sock' = [sock EXCEPT ![s] = w]
    BY <1>3
  <2> HIDE DEF w
  <2>4. SockOK' /\ Open' = Open
    BY <1>1, <2>1, <2>2, <2>3, SocketSet
  <2>5. QueueOK' /\ RetOK' /\ RestOK'
    BY <1>1, <1>3, <2>4, QueuesSame, SaysNothing DEF RestOK, connect, Live
  <2> QED
    BY <2>4, <2>5, IInvPartsNext
<1> QED
  BY <1>2, <1>3 DEF connect

LEMMA CloseKeeps ==
  ASSUME IInv, NEW s \in Sockets, close(s)
  PROVE  IInv'
<1>1. SockOK /\ QueueOK /\ RestOK /\ s \in Open
  BY IInvParts DEF close
<1> DEFINE w(r) == CASE r = s -> NONE
                     [] r \in Open \ {s} /\ sock[r].peer = s -> [sock[r] EXCEPT !.peer = NONE]
                     [] OTHER -> sock[r]
<1>2. sock' = [r \in Sockets |-> w(r)] /\ queue' = [queue EXCEPT ![s] = <<>>]
  BY DEF close
<1>3. ASSUME NEW r \in Open \ {s}
      PROVE  w(r) \in NativeSockets /\ GoodSocket(w(r)) /\ w(r).peer \in (Open \ {s}) \cup {NONE}
  <2>1. sock[r] \in NativeSockets /\ GoodSocket(sock[r]) /\ sock[r].peer \in Open \cup {NONE}
    BY <1>1, SocketFields
  <2>2. CASE sock[r].peer = s
    <3> DEFINE v == [sock[r] EXCEPT !.peer = NONE]
    <3>1. w(r) = v
      BY <2>2
    <3>2. v \in NativeSockets
      BY <2>1 DEF NativeSockets
    <3>3. /\ v.name = sock[r].name /\ v.meant = sock[r].meant /\ v.domain = sock[r].domain
          /\ v.type = sock[r].type /\ v.asked = sock[r].asked /\ v.peer = NONE
      BY <2>1 DEF NativeSockets
    <3> HIDE DEF v
    <3>4. GoodSocket(v)
      BY <2>1, <3>3 DEF GoodSocket
    <3> QED
      BY <3>1, <3>2, <3>3, <3>4
  <2>3. CASE sock[r].peer # s
    BY <2>1, <2>3
  <2> QED
    BY <2>2, <2>3
<1>4. w(s) = NONE /\ \A r \in Sockets \ Open : w(r) = NONE
  BY DEF Open
<1> HIDE DEF w
<1>5. sock' \in [Sockets -> NativeSockets \cup {NONE}]
  BY <1>1, <1>2, <1>3, <1>4 DEF Open
<1>6. Open' = Open \ {s}
  BY <1>1, <1>2, <1>3, <1>4, SocketsAssumption DEF Open
<1>7. \A r \in Open' : GoodSocket(sock'[r]) /\ sock'[r].peer \in Open' \cup {NONE}
  BY <1>2, <1>3, <1>6 DEF Open
<1>8. SockOK'
  BY <1>5, <1>7 DEF SockOK, GoodSocket
<1>9. QueueOK'
  <2>1. /\ queue'[s] = <<>> /\ \A r \in Sockets \ {s} : queue'[r] = queue[r]
        /\ queue' \in [Sockets -> Seq(Messages)]
    BY <1>1, <1>2 DEF QueueOK
  <2>2. Len(queue'[s]) <= MaxQueue /\ DOMAIN queue'[s] = {}
    BY <2>1, SocketsAssumption
  <2>3. ASSUME NEW r \in Sockets
        PROVE  /\ Len(queue'[r]) <= MaxQueue /\ (queue'[r] # <<>> => r \in Open')
               /\ \A i \in DOMAIN queue'[r] :
                    queue'[r][i].rights <=> Rights \in queue'[r][i].control
    <3>1. CASE r = s
      BY <2>1, <2>2, <3>1
    <3>2. CASE r # s
      BY <1>1, <1>6, <2>1, <3>2 DEF QueueOK
    <3> QED
      BY <3>1, <3>2
  <2> QED
    BY <2>1, <2>3 DEF QueueOK
<1>10. RestOK' /\ RetOK'
  BY <1>1, SaysNothing DEF RestOK, close, Live
<1> QED
  BY <1>8, <1>9, <1>10, IInvPartsNext

LEMMA MessageTyped ==
  ASSUME SockOK, NEW s \in Open, NEW control \in SUBSET {Rights}, NEW rights \in BOOLEAN
  PROVE  /\ Message(s, control, rights) \in Messages
         /\ Message(s, control, rights).rights = rights
         /\ Message(s, control, rights).control = control
<1>1. Sender(s) \in NativeNames
  BY SocketFields
<1> QED
  BY <1>1, Zenon DEF Message, Messages

LEMMA SendKeeps ==
  ASSUME IInv, NEW s \in Sockets, NEW F, send(s, F)
  PROVE  IInv'
<1>1. SockOK /\ s \in Open /\ Live
  BY IInvParts DEF send
<1>2. sock[s].peer \in Open
  BY <1>1, SocketFields DEF send
<1> DEFINE m == Message(s, {}, FALSE)
<1>3. /\ Message(s, {}, FALSE) \in Messages
      /\ Message(s, {}, FALSE).rights = FALSE
      /\ Message(s, {}, FALSE).control = {}
  <2>1. {} \in SUBSET {Rights} /\ FALSE \in BOOLEAN
    OBVIOUS
  <2> QED
    BY ONLY <1>1, <2>1, MessageTyped
<1>4. m \in Messages /\ m.rights = FALSE /\ m.control = {}
  BY <1>3
<1> HIDE DEF m
<1>5. m \in Messages /\ (m.rights <=> Rights \in m.control)
  BY <1>4
<1> QED
  BY <1>1, <1>2, <1>5, KernelSendsKeeps DEF send, m

LEMMA SendToKeeps ==
  ASSUME IInv, NEW s \in Sockets, NEW a \in Addresses, NEW control \in SUBSET {Rights},
         NEW rights \in BOOLEAN, rights <=> Rights \in control, NEW F,
         SendTo(s, a, control, rights, F)
  PROVE  IInv'
<1>1. SockOK /\ s \in Open /\ Live /\ Known(a)
  BY IInvParts DEF SendTo
<1> DEFINE m == Message(s, control, rights)
           n == linux_to_native_sockaddr(a)
<1>2. m \in Messages /\ (m.rights <=> Rights \in m.control)
  BY <1>1, MessageTyped
<1> HIDE DEF m
<1>3. CASE Fails(ECONNREFUSED, native_to_linux_errno(ECONNREFUSED))
  BY <1>1, <1>3, FailsKeeps DEF Live
<1>4. ASSUME NEW r \in Holders(n),
             KernelSends(s, r, m, a, F, linux_to_native_msg_flags(F))
      PROVE  IInv'
  <2>1. r \in Open /\ sock[r].name = n
    BY DEF Holders
  <2> QED
    BY <1>1, <1>2, <1>4, <2>1, KernelSendsKeeps
<1> QED
  BY <1>3, <1>4 DEF SendTo, m

LEMMA SendtoKeeps ==
  ASSUME IInv, NEW s \in Sockets, NEW a \in Addresses \cup {NONE}, NEW F, sendto(s, a, F)
  PROVE  IInv'
<1>1. CASE Dies
  BY <1>1, DiesKeeps
<1>2. CASE a # NONE /\ SendTo(s, a, {}, FALSE, F)
  BY <1>2, SendToKeeps
<1> QED
  BY <1>1, <1>2 DEF sendto

LEMMA SendmsgKeeps ==
  ASSUME IInv, NEW s \in Sockets, NEW a \in Addresses \cup {NONE}, NEW F, sendmsg(s, a, F)
  PROVE  IInv'
<1> DEFINE control == {linux_to_native_cmsg(LinuxRights)}
<1>1. control = {Rights}
  BY RightsConvert
<1> HIDE DEF control
<1>2. CASE a # NONE /\ SendTo(s, a, control, TRUE, F)
  BY <1>1, <1>2, SendToKeeps
<1>3. CASE /\ a = NONE /\ Live /\ s \in Open /\ sock[s].peer # NONE
           /\ KernelSends(s, sock[s].peer, Message(s, control, TRUE), NONE, F,
                          linux_to_native_msg_flags(F))
  <2>1. SockOK /\ sock[s].peer \in Open
    BY <1>3, IInvParts, SocketFields
  <2> DEFINE m == Message(s, control, TRUE)
  <2>2. control \in SUBSET {Rights} /\ TRUE \in BOOLEAN
    BY <1>1
  <2>3. m \in Messages /\ m.rights = TRUE /\ m.control = control
    BY <1>3, <2>1, <2>2, MessageTyped
  <2> HIDE DEF m
  <2>4. m.rights <=> Rights \in m.control
    BY <1>1, <2>3
  <2> QED
    BY <1>3, <2>1, <2>3, <2>4, KernelSendsKeeps DEF m
<1> QED
  BY <1>2, <1>3 DEF sendmsg, control

\* A message is taken, and the call says what is allowed.
LEMMA TakeKeeps ==
  ASSUME IInv, NEW s \in Open, queue[s] # <<>>, NEW told, Take(s, told), UNCHANGED dead,
         msg_control' \in BOOLEAN, RetOK'
  PROVE  IInv'
<1>1. SockOK /\ QueueOK /\ RestOK
  BY IInvParts
<1>2. SockOK' /\ Open' = Open
  BY <1>1, SocketsSame DEF Take
<1>3. QueueOK' /\ RestOK'
  BY <1>1, <1>2, MessageTaken DEF Take, RestOK
<1> QED
  BY <1>2, <1>3, IInvPartsNext

LEMMA Queued ==
  ASSUME IInv, NEW s \in Open, queue[s] # <<>>
  PROVE  /\ Head(queue[s]) \in Messages
         /\ Head(queue[s]).from \in NativeNames
         /\ Head(queue[s]).control \subseteq {Rights}
         /\ Head(queue[s]).rights <=> Rights \in Head(queue[s]).control
<1>1. QueueOK /\ s \in Sockets
  BY IInvParts DEF Open
<1>2. queue[s] \in Seq(Messages) /\ queue[s] # <<>>
  BY <1>1 DEF QueueOK
<1>3. 1 \in DOMAIN queue[s] /\ Head(queue[s]) = queue[s][1] /\ queue[s][1] \in Messages
  BY <1>2
<1>4. queue[s][1].rights <=> Rights \in queue[s][1].control
  BY <1>1, <1>3 DEF QueueOK
<1>5. queue[s][1].from \in NativeNames /\ queue[s][1].control \subseteq {Rights}
  BY <1>3 DEF Messages
<1> QED
  BY <1>3, <1>4, <1>5

LEMMA RecvKeeps ==
  ASSUME IInv, NEW s \in Sockets, NEW F, recv(s, F) \/ __recv_chk(s, F)
  PROVE  IInv'
<1>1. SockOK /\ QueueOK /\ RestOK /\ s \in Open /\ Live
  BY IInvParts DEF recv, __recv_chk
<1>2. CASE queue[s] # <<>> /\ Take(s, NONE) /\ UNCHANGED msg_control
  <2>1. RetOK'
    BY <1>2, SaysNothing DEF Take, Done
  <2> QED
    BY <1>1, <1>2, <2>1, TakeKeeps DEF Live, RestOK
<1>3. CASE NoMessage(s, F, linux_to_native_msg_flags(F), TRUE) \/ NoMessage(s, F, F, FALSE)
  BY <1>1, <1>3, NoMessageKeeps
<1> QED
  BY <1>2, <1>3 DEF recv, __recv_chk

LEMMA RecvfromKeeps ==
  ASSUME IInv, NEW s \in Sockets, NEW room, NEW F, recvfrom(s, room, F)
  PROVE  IInv'
<1>1. s \in Open /\ RestOK
  BY IInvParts DEF recvfrom
<1>2. CASE Dies
  BY <1>2, DiesKeeps
<1>3. CASE Live /\ NoMessage(s, F, linux_to_native_msg_flags(F), TRUE)
  BY <1>1, <1>3, NoMessageKeeps
<1> DEFINE m == Head(queue[s])
<1>4. CASE /\ queue[s] # <<>> /\ Live /\ UNCHANGED msg_control
           /\ Take(s, Answer(Name(s, m, room)))
  <2> DEFINE name == [addr |-> native_to_linux_sockaddr(m.from), from |-> m.from]
  <2>1. m.from \in NativeNames
    BY <1>1, <1>4, Queued
  <2>2. ret' = NONE \/ ret' = [says |-> "from", name |-> name]
    BY <1>4 DEF Take, Answer, Name
  <2> HIDE DEF m
  <2>3. RetOK'
    BY <2>1, <2>2, SaysNothing, SaysFrom DEF Done
  <2> QED
    BY <1>1, <1>4, <2>3, TakeKeeps DEF Live, RestOK
<1> QED
  BY <1>2, <1>3, <1>4 DEF recvfrom

\* A report tells of the descriptors that came, or says that they were cut off.
LEMMA ToldOfRights ==
  ASSUME IInv, NEW s \in Open, queue[s] # <<>>, NEW room, NEW len \in BOOLEAN, NEW F,
         NEW R \in Reports(Head(queue[s]), len, F)
  PROVE  /\ LinuxRights \in Told(Head(queue[s]), len, room) => Head(queue[s]).rights
         /\ Head(queue[s]).rights =>
              \/ LinuxRights \in Told(Head(queue[s]), len, room)
              \/ CTRUNC.linux \in native_to_linux_msg_flags(R)
<1> DEFINE m == Head(queue[s])
<1>1. m.control \subseteq {Rights} /\ (m.rights <=> Rights \in m.control)
  BY Queued
<1> HIDE DEF m
<1>2. CASE len
  BY <1>1, <1>2, RightsConvert DEF Told, m
<1>3. CASE ~len
  <2>1. Told(Head(queue[s]), len, room) = {}
    BY <1>3 DEF Told
  <2>2. CASE m.control # {}
    <3>1. 5 \in R
      BY <1>3, <2>2 DEF Reports, CTRUNC, m
    <3>2. <<3, 5>> \in MsgFlags
      BY DEF MsgFlags
    <3> QED
      BY <2>1, <3>1, <3>2 DEF native_to_linux_msg_flags, ToLinux, CTRUNC
  <2> QED
    BY <1>1, <2>1, <2>2 DEF m
<1> QED
  BY <1>2, <1>3

LEMMA RecvmsgKeeps ==
  ASSUME IInv, NEW s \in Sockets, NEW room, NEW len \in BOOLEAN, NEW F,
         recvmsg(s, room, len, F)
  PROVE  IInv'
<1>1. s \in Open /\ RestOK
  BY IInvParts DEF recvmsg
<1>2. CASE Dies
  BY <1>2, DiesKeeps
<1>3. CASE Live /\ NoMessage(s, F, linux_to_native_msg_flags(F), TRUE)
  BY <1>1, <1>3, NoMessageKeeps
<1> DEFINE m == Head(queue[s])
<1>4. ASSUME queue[s] # <<>>, NEW R \in Reports(m, len, linux_to_native_msg_flags(F)),
             Recvmsg(s, m, room, len, Told(m, len, room), native_to_linux_msg_flags(R))
      PROVE  IInv'
  <2>1. m.from \in NativeNames
    BY <1>1, <1>4, Queued
  <2> DEFINE name == Name(s, m, room)
             told == Told(m, len, room)
             flags == native_to_linux_msg_flags(R)
             answer == [says |-> "received", name |-> name, rights |-> m.rights,
                        told |-> told, flags |-> flags]
  <2>3. /\ LinuxRights \in told => m.rights
        /\ m.rights => LinuxRights \in told \/ CTRUNC.linux \in flags
    BY <1>1, <1>4, ToldOfRights
  <2>4. Live /\ Take(s, answer) /\ msg_control' \in BOOLEAN
    BY <1>1, <1>4 DEF Recvmsg, RestOK
  <2>5. ret' = answer
    BY <2>4 DEF Take
  <2>6. name = NONE \/ name = [addr |-> native_to_linux_sockaddr(m.from), from |-> m.from]
    BY DEF Name
  <2> HIDE DEF m, name, told, flags
  <2>7. RetOK'
    BY <2>1, <2>3, <2>5, <2>6, SaysReceived
  <2> HIDE DEF answer
  <2> QED
    BY <1>1, <1>4, <2>4, <2>7, TakeKeeps DEF Live
<1> QED
  BY <1>2, <1>3, <1>4 DEF recvmsg

LEMMA GetsocknameKeeps ==
  ASSUME IInv, NEW s \in Sockets, NEW room, getsockname(s, room)
  PROVE  IInv'
<1>1. SockOK /\ QueueOK /\ RestOK /\ s \in Open
  BY IInvParts DEF getsockname
<1>2. CASE Dies
  BY <1>2, DiesKeeps
<1>3. CASE /\ Live
           /\ ret' = Answer([addr |-> native_to_linux_sockaddr(sock[s].name),
                             from |-> sock[s].name])
           /\ UNCHANGED <<sock, files, queue, msg_control>>
  <2>1. sock[s].name \in NativeNames
    BY <1>1, SocketFields DEF NativeSockets
  <2> DEFINE name == [addr |-> native_to_linux_sockaddr(sock[s].name), from |-> sock[s].name]
  <2>2. ret' = NONE \/ ret' = [says |-> "from", name |-> name]
    BY <1>3 DEF Answer
  <2>3. RetOK'
    BY <2>1, <2>2, SaysNothing, SaysFrom DEF Done
  <2>4. SockOK' /\ QueueOK' /\ RestOK'
    BY <1>1, <1>3, SocketsSame, QueuesSame DEF RestOK, Live
  <2> QED
    BY <2>3, <2>4, IInvPartsNext
<1> QED
  BY <1>2, <1>3 DEF getsockname

LEMMA SameKeeps ==
  ASSUME IInv, Returns \/ SetControl \/ UNCHANGED vars
  PROVE  IInv'
<1>1. SockOK /\ QueueOK /\ RestOK /\ RetOK
  BY IInvParts
<1>2. SockOK' /\ QueueOK' /\ RestOK'
  BY <1>1, SocketsSame, QueuesSame DEF RestOK, Returns, SetControl, Live, vars
<1>3. RetOK'
  <2>1. CASE Returns \/ SetControl
    BY <2>1, SaysNothing DEF Returns, SetControl
  <2>2. CASE UNCHANGED vars
    BY <1>1, <2>2
    DEF vars, RetOK, DescriptorsTold, NamesConverted, NamesApart, NonblockingCallsReturn, Named
  <2> QED
    BY <2>1, <2>2
<1> QED
  BY <1>2, <1>3, IInvPartsNext

LEMMA StepKeeps == IInv /\ [Next]_vars => IInv'
<1> SUFFICES ASSUME IInv, [Next]_vars PROVE IInv'
  OBVIOUS
<1>1. CASE Dies
  BY <1>1, DiesKeeps
<1>2. ASSUME NEW t \in Types, NEW s \in Sockets,
             \/ \E a \in {b \in Addresses : Known(b)} : socket(s, a.sa_family, t)
             \/ \E r \in Sockets : socketpair(s, r, t)
      PROVE  IInv'
  BY <1>2, SocketKeeps, SocketpairKeeps
<1>3. CASE Returns \/ SetControl \/ UNCHANGED vars
  BY <1>3, SameKeeps
<1>4. ASSUME NEW s \in Sockets, close(s)
      PROVE  IInv'
  BY <1>4, CloseKeeps
<1>5. ASSUME NEW s \in Sockets, NEW a \in Addresses, bind(s, a) \/ connect(s, a)
      PROVE  IInv'
  BY <1>5, BindKeeps, ConnectKeeps
<1>6. ASSUME NEW s \in Sockets, NEW room \in Rooms, getsockname(s, room)
      PROVE  IInv'
  BY <1>6, GetsocknameKeeps
<1>7. ASSUME NEW s \in Sockets, NEW F \in FlagSets,
             \/ recv(s, F) \/ __recv_chk(s, F) \/ send(s, F)
             \/ \E a \in Addresses \cup {NONE} : sendto(s, a, F) \/ sendmsg(s, a, F)
      PROVE  IInv'
  BY <1>7, RecvKeeps, SendKeeps, SendtoKeeps, SendmsgKeeps
<1>8. ASSUME NEW s \in Sockets, NEW F \in FlagSets, NEW room \in Rooms,
             recvfrom(s, room, F) \/ \E len \in BOOLEAN : recvmsg(s, room, len, F)
      PROVE  IInv'
  BY <1>8, RecvfromKeeps, RecvmsgKeeps
<1> QED
  BY <1>1, <1>2, <1>3, <1>4, <1>5, <1>6, <1>7, <1>8
  DEF Next, UnknownType, UnknownAddress, UnknownFlags

-----------------------------------------------------------------------------
(* Theorems                                                                *)

\* What every step of the calls of socket.c keeps.
THEOREM IInvCorrect == Spec => []IInv
BY InitKeeps, StepKeeps, PTL DEF Spec

\* The kernel's sockets, names and messages are of its own kind, and every
\* name fits, whatever the program asks for.
THEOREM TypeCorrect == Spec => []TypeOK
<1>1. IInv => TypeOK
  BY DEF IInv
<1> QED
  BY <1>1, IInvCorrect, PTL

\* Two plain names are never taken for each other.
THEOREM NamesApartCorrect == Spec => []NamesApart
<1>1. IInv => NamesApart
  BY DEF IInv
<1> QED
  BY <1>1, IInvCorrect, PTL

\* No descriptor is taken without the receiver being told.
THEOREM RightsArriveCorrect == Spec => []RightsArrive
<1>1. IInv => RightsArrive
  BY DEF IInv
<1> QED
  BY <1>1, IInvCorrect, PTL

\* Save for __recv_chk, a call waits exactly where it was not told not to, and
\* says Linux's EAGAIN if it was; that one does not wait on a socket that was
\* made not to.
THEOREM NonblockingCallsReturnCorrect == Spec => []NonblockingCallsReturn
<1>1. IInv => NonblockingCallsReturn
  BY DEF IInv
<1> QED
  BY <1>1, IInvCorrect, PTL

\* An address that was told converts back to the name it was made of: who
\* answers to it reaches the holder of that name.
THEOREM ReplyReachesSenderCorrect == Spec => []ReplyReachesSender
<1>1. IInv => ReplyReachesSender
  BY NameComesBack DEF IInv, NamesConverted, ReplyReachesSender
<1> QED
  BY <1>1, IInvCorrect, PTL
=============================================================================
