------------------------------- MODULE Sockets -------------------------------
(***************************************************************************)
(* src/src/libc/sys/socket.c: addresses, types, flags and control messages *)
(* of sockets.  The shim keeps no state; the kernel keeps sockets under    *)
(* native names, and an abstract name of Linux is a file in /var/run       *)
(* there.  A name is a sequence of pieces, its length their number; one of *)
(* them may be NUL, where C thinks that a name ends.                       *)
(***************************************************************************)
EXTENDS Sequences, FiniteSets, LinuxNumbers

CONSTANTS
  Sockets, NONE,
  Addresses,     \* Linux addresses: [sa_family, abstract, name, behind]; the
                 \* name is as long as the program says, more lies behind it
  Types,         \* types given to socket(): [kind, bits]
  FlagSets,      \* flags given to the calls that send and receive, but PEEK and OOB
  Rooms,         \* bytes for a sender's address; 0: none wanted
  SunPathMax,    \* pieces that fit into FreeBSD's sun_path
  MaxQueue       \* messages that wait at a socket

VARIABLES
  sock,          \* open sockets: [domain, type, name, peer] as native, and
                 \* [asked, meant]: Linux's type and address, as given
  files,         \* native names that are taken in the file system
  queue,         \* messages that wait: [from, control, rights]
  msg_control,   \* the program's header points to its control buffer
  ret,           \* what the last call said: Fails, Stops, Answer, Recvmsg, KernelSends
  dead

vars == <<sock, files, queue, msg_control, ret, dead>>

-----------------------------------------------------------------------------
(* Numbers: Linux's, then FreeBSD's                                        *)

PF_UNIX  == 1
Families == {<<1, 1>>, <<2, 2>>, <<10, 28>>}
TypeBits == {<<11, 29>>, <<19, 28>>}
NONBLOCK == [linux |-> 11, native |-> 29]

\* OOB PEEK DONTROUTE CTRUNC TRUNC DONTWAIT EOR WAITALL NOSIGNAL WAITFORONE
\* CMSG_CLOEXEC
MsgFlags == {<<0, 0>>, <<1, 1>>, <<2, 2>>, <<3, 5>>, <<5, 4>>, <<6, 7>>, <<7, 3>>,
             <<8, 6>>, <<14, 17>>, <<16, 19>>, <<30, 18>>}
DONTWAIT == [linux |-> 6, native |-> 7]
WAITALL  == [linux |-> 8, native |-> 6]
TRUNC    == [linux |-> 5, native |-> 4]
CTRUNC   == [linux |-> 3, native |-> 5]

\* FreeBSD's MSG_NBIO, which has the number of Linux's MSG_NOSIGNAL.
NBIO == 14

KNOWN_LINUX_MSG_FLAGS == {f[1] : f \in MsgFlags}

EAGAIN == 35
EADDRINUSE == 48
ECONNREFUSED == 61
EINVAL == 22
ENOBUFS == 55

TypeKnown(t) == t.kind \in 1..7 /\ t.bits \subseteq {f[1] : f \in TypeBits}

\* Variant: one of the two bits is forgotten.
SockTypeForgetsNonblock(t) ==
  [kind |-> t.kind, bits |-> ToNative(TypeBits \ {<<11, 29>>}, t.bits)]

linux_to_native_sock_type(t) ==
  [kind |-> t.kind, bits |-> ToNative(TypeBits, t.bits)]

linux_to_native_msg_flags(F) == ToNative(MsgFlags, F)

\* The kernel reports flags that are known only, and never MSG_EOF, for which
\* there is an assert(0).
native_to_linux_msg_flags(N) == ToLinux(MsgFlags, N)

\* Control messages are known by level and type: rights here; the type
\* of service arrives only, credentials are not known.
Rights == [level |-> 65535, type |-> 1]
Levels == {<<1, 65535>>, <<0, 0>>, <<6, 6>>, <<17, 17>>}
LinuxRights == [level |-> 1, type |-> 1]

linux_to_native_sock_level(l) == (CHOOSE p \in Levels : p[1] = l)[2]
native_to_linux_sock_level(l) == (CHOOSE p \in Levels : p[2] = l)[1]

linux_to_native_cmsg(c) ==
  [level |-> linux_to_native_sock_level(c.level), type |-> 1]

CmsgKnown(c) == c = Rights \/ (c.level = 0 /\ c.type = 68)

native_to_linux_cmsg(c) == [level |-> native_to_linux_sock_level(c.level), type |-> 1]

-----------------------------------------------------------------------------
(* Addresses                                                               *)

VarRun == "/var/run/"
NUL == "NUL"

Least(i, j) == IF i < j THEN i ELSE j

\* What C reads of x: the pieces before the first NUL.
CString(x) ==
  SubSeq(x, 1, CHOOSE n \in 0..Len(x) : (n < Len(x) => x[n + 1] = NUL)
                                        /\ \A i \in 1..n : x[i] # NUL)

\* The C string in sun_path, or behind the NUL of an abstract name: the length
\* that the program gives is not looked at.
SunPath(a) == CString(a.name \o a.behind)

\* snprintf of "/var/run/%s" into a field of so many pieces.
InVarRun(path, size) == SubSeq(<<VarRun>> \o path, 1, Least(size, 1 + Len(path)))

\* Variant: the length that snprintf is given is one short.
SunPathCutShort(a) ==
  [sa_family |-> PF_UNIX, name |-> InVarRun(SunPath(a), SunPathMax - 1)]

\* Variant: sprintf for snprintf.
SunPathUncut(a) ==
  [sa_family |-> PF_UNIX,
   name |-> IF a.abstract THEN <<VarRun>> \o SunPath(a) ELSE SunPath(a)]

\* An abstract name is cut to what fits, a path must fit.
linux_to_native_sockaddr_un(a) ==
  [sa_family |-> PF_UNIX,
   name |-> IF a.abstract THEN InVarRun(SunPath(a), SunPathMax) ELSE SunPath(a)]

linux_to_native_domain(d) == (CHOOSE p \in Families : p[1] = d)[2]

Known(a) ==
  /\ \E p \in Families : p[1] = a.sa_family
  /\ a.sa_family = PF_UNIX /\ ~a.abstract => Len(SunPath(a)) <= SunPathMax

linux_to_native_sockaddr(a) ==
  IF a.sa_family = PF_UNIX THEN linux_to_native_sockaddr_un(a)
  ELSE [sa_family |-> linux_to_native_domain(a.sa_family), name |-> a.name]

\* sizeof linux_sockaddr_un, _in and _in6
SizeOf(family) ==
  CASE family = 1 -> 110 [] family = 2 -> 16 [] family = 28 -> 28

\* Variant: the family is copied with the rest.
ReportedFamilyKept(n) ==
  [sa_family |-> n.sa_family, abstract |-> FALSE, name |-> n.name, behind |-> <<>>]

\* A path without a character looks like an abstract name.
native_to_linux_sockaddr(n) ==
  [sa_family |-> (CHOOSE p \in Families : p[2] = n.sa_family)[1],
   abstract  |-> n.sa_family = PF_UNIX /\ n.name = <<>>,
   name      |-> n.name,
   behind    |-> <<>>]

-----------------------------------------------------------------------------
(* The kernel's part                                                       *)

Open      == {s \in Sockets : sock[s] # NONE}
Unnamed(d) == [sa_family |-> d, name |-> <<>>]
Holders(n) == {s \in Open : sock[s].name = n /\ n.name # <<>>}

\* The address of an unnamed internet socket that sends.
Ephemeral(s) == [sa_family |-> sock[s].domain, name |-> <<s>>]

Sender(s) ==
  IF sock[s].domain = PF_UNIX \/ sock[s].name.name # <<>> THEN sock[s].name ELSE Ephemeral(s)

NewSocket(d, t, asked) ==
  [domain |-> d, type |-> t, name |-> Unnamed(d), peer |-> NONE,
   asked |-> asked, meant |-> NONE]

IsStream(s) == sock[s].type.kind = 1

MayWait(s, N) ==
  /\ NONBLOCK.native \notin sock[s].type.bits
  /\ N \cap {DONTWAIT.native, NBIO} = {}

\* On a stream a receiver may ask for all that its buffer holds.
AsksForAll(s, N) == IsStream(s) /\ WAITALL.native \in N

\* What native names are made of.
Pieces ==
  ({VarRun} \cup Sockets
     \cup UNION {{a.name[i] : i \in DOMAIN a.name} : a \in Addresses}
     \cup UNION {{a.behind[i] : i \in DOMAIN a.behind} : a \in Addresses}) \ {NUL}

NativeNames ==
  {n \in [sa_family : {p[2] : p \in Families}, name : Seq(Pieces)] :
     n.sa_family = PF_UNIX => Len(n.name) <= SunPathMax}

NativeSockets ==
  [domain : {p[2] : p \in Families},
   type   : [kind : 1..7, bits : SUBSET {b[2] : b \in TypeBits}],
   name   : NativeNames, peer : Sockets \cup {NONE},
   asked  : Types, meant : Addresses \cup {NONE}]

Messages == [from : NativeNames, control : SUBSET {Rights}, rights : BOOLEAN]

\* Internet addresses always have a port, and are not strings.
ASSUME SocketsAssumption ==
  /\ SunPathMax \in Nat \ {0} /\ MaxQueue \in Nat
  /\ NONE \notin Sockets \cup Addresses \cup NativeSockets
  /\ \A a \in Addresses :
       /\ a \in [sa_family : Nat, abstract : BOOLEAN,
                 name : Seq(Pieces \cup {NUL}), behind : Seq(Pieces \cup {NUL})]
       /\ a.abstract => a.sa_family = PF_UNIX
       /\ a.sa_family # PF_UNIX => a.name \in Seq(Pieces) /\ a.behind = <<>>
       /\ Known(a) /\ a.sa_family # PF_UNIX => a.name # <<>>
  /\ Types \subseteq [kind : Nat, bits : SUBSET Nat]
  /\ VarRun # NUL /\ NUL \notin Sockets
  /\ \A F \in FlagSets : F \cap {0, 1} = {}

-----------------------------------------------------------------------------
Init ==
  /\ sock = [s \in Sockets |-> NONE]
  /\ files = {} /\ queue = [s \in Sockets |-> <<>>]
  /\ msg_control = TRUE /\ ret = NONE /\ dead = FALSE

\* A call that does not kill the process; the program has looked at what the
\* last one said.
Live == ~dead /\ ret = NONE /\ UNCHANGED dead
Done == ret' = NONE

\* The program has looked at what the call said, and goes on.
Returns == ret # NONE /\ Done /\ UNCHANGED <<sock, files, queue, msg_control, dead>>

\* A failed assertion, a PANIC or a write through a null pointer; the kernel
\* closes the sockets, and files stay.
Dies ==
  /\ ~dead /\ ret = NONE /\ dead' = TRUE /\ Done
  /\ sock' = [s \in Sockets |-> NONE] /\ queue' = [s \in Sockets |-> <<>>]
  /\ UNCHANGED <<files, msg_control>>

\* A call fails with the native error e, and says errno.
Fails(e, errno) ==
  /\ ret' = [says |-> "failed", error |-> e, errno |-> errno]
  /\ UNCHANGED <<sock, files, queue, msg_control>>

\* A call on s cannot go on: the program has given the flags F, the kernel was
\* given N.  It waits, or fails, and the shim converts its error or does not.
Stops(s, F, N, converts) ==
  /\ ret' = [says     |-> IF MayWait(s, N) THEN "waits" ELSE "again",
             nonblock |-> NONBLOCK.linux \in sock[s].asked.bits,
             dontwait |-> DONTWAIT.linux \in F,
             converts |-> converts,
             errno    |-> IF converts THEN native_to_linux_errno(EAGAIN) ELSE EAGAIN]
  /\ UNCHANGED <<sock, files, queue, msg_control>>

socket(s, d, t) ==
  /\ Live /\ Done /\ sock[s] = NONE /\ TypeKnown(t)
  /\ sock' = [sock EXCEPT ![s] = NewSocket(linux_to_native_domain(d),
                                           linux_to_native_sock_type(t), t)]
  /\ UNCHANGED <<files, queue, msg_control>>

socketpair(s, r, t) ==
  /\ Live /\ Done /\ s # r /\ sock[s] = NONE /\ sock[r] = NONE /\ TypeKnown(t)
  /\ LET new == NewSocket(PF_UNIX, linux_to_native_sock_type(t), t) IN
       sock' = [sock EXCEPT ![s] = [new EXCEPT !.peer = r], ![r] = [new EXCEPT !.peer = s]]
  /\ UNCHANGED <<files, queue, msg_control>>

UnknownType(t) == ~TypeKnown(t) /\ Dies

\* The native file stays when the socket is closed: "unlink(addr.sun_path); ?"
bind(s, a) ==
  /\ Live /\ s \in Open /\ Known(a)
  /\ LET n == linux_to_native_sockaddr(a) IN
     IF n.sa_family # sock[s].domain \/ sock[s].name.name # <<>> THEN Fails(EINVAL, EINVAL)
     ELSE IF n \in files \/ Holders(n) # {} THEN Fails(EADDRINUSE, EADDRINUSE)
     ELSE /\ Done
          /\ sock' = [sock EXCEPT ![s].name = n, ![s].meant = a]
          /\ files' = IF n.sa_family = PF_UNIX THEN files \cup {n} ELSE files
          /\ UNCHANGED <<queue, msg_control>>

connect(s, a) ==
  /\ Live /\ s \in Open /\ ~IsStream(s) /\ Known(a)
  /\ LET n == linux_to_native_sockaddr(a) IN
     \/ n.sa_family # sock[s].domain /\ Fails(EINVAL, native_to_linux_errno(EINVAL))
     \/ /\ n.sa_family = sock[s].domain /\ Holders(n) = {}
        /\ Fails(ECONNREFUSED, native_to_linux_errno(ECONNREFUSED))
     \/ \E r \in Holders(n) :
          /\ n.sa_family = sock[s].domain /\ Done
          /\ sock' = [sock EXCEPT ![s].peer = r, ![s].name = Sender(s)]
          /\ UNCHANGED <<files, queue, msg_control>>

UnknownAddress(s, a) == s \in Open /\ ~Known(a) /\ Dies

close(s) ==
  /\ Live /\ Done /\ s \in Open
  /\ sock' = [r \in Sockets |->
                CASE r = s -> NONE
                  [] r \in Open \ {s} /\ sock[r].peer = s -> [sock[r] EXCEPT !.peer = NONE]
                  [] OTHER -> sock[r]]
  /\ queue' = [queue EXCEPT ![s] = <<>>]
  /\ UNCHANGED <<files, msg_control>>

-----------------------------------------------------------------------------
(* Sending                                                                 *)

\* The kernel's send: message m from s to r, with native flags N.  The program
\* has given the flags F and the address dest.
KernelSends(s, r, m, dest, F, N) ==
  IF Len(queue[r]) < MaxQueue
  THEN /\ ret' = IF dest = NONE THEN NONE
                 ELSE [says |-> "sent", dest |-> dest, at |-> sock[r].meant]
       /\ queue' = [queue EXCEPT ![r] = Append(@, m)]
       /\ sock' = [sock EXCEPT ![s].name = Sender(s)]
       /\ UNCHANGED <<files, msg_control>>
  ELSE IF ~IsStream(s) THEN Fails(ENOBUFS, native_to_linux_errno(ENOBUFS))
  ELSE Stops(s, F, N, TRUE)

FlagsKnown(F) == F \subseteq KNOWN_LINUX_MSG_FLAGS

Message(s, control, rights) == [from |-> Sender(s), control |-> control, rights |-> rights]

send(s, F) ==
  /\ Live /\ s \in Open /\ sock[s].peer # NONE /\ FlagsKnown(F)
  /\ KernelSends(s, sock[s].peer, Message(s, {}, FALSE), NONE, F,
                 linux_to_native_msg_flags(F))

\* sendto(), or sendmsg() when the program passes a descriptor.  A path that
\* nobody holds is refused by the kernel.
SendTo(s, a, control, rights, F) ==
  /\ Live /\ s \in Open /\ ~IsStream(s) /\ Known(a) /\ FlagsKnown(F)
  /\ LET n == linux_to_native_sockaddr(a) IN
     \/ /\ n.sa_family # sock[s].domain \/ Holders(n) = {}
        /\ Fails(ECONNREFUSED, native_to_linux_errno(ECONNREFUSED))
     \/ \E r \in Holders(n) :
          /\ n.sa_family = sock[s].domain
          /\ KernelSends(s, r, Message(s, control, rights), a, F,
                         linux_to_native_msg_flags(F))

\* The family is read through a null pointer on a socket that is connected.
sendto(s, a, F) ==
  \/ a = NONE /\ Dies
  \/ a # NONE /\ SendTo(s, a, {}, FALSE, F)

\* With a descriptor in its control message, by name or by connection.
sendmsg(s, a, F) ==
  LET control == {linux_to_native_cmsg(LinuxRights)} IN
  \/ a # NONE /\ a.sa_family = PF_UNIX /\ SendTo(s, a, control, TRUE, F)
  \/ /\ a = NONE /\ Live /\ s \in Open /\ FlagsKnown(F)
     /\ sock[s].peer # NONE /\ sock[s].domain = PF_UNIX
     /\ KernelSends(s, sock[s].peer, Message(s, control, TRUE), NONE, F,
                    linux_to_native_msg_flags(F))

UnknownFlags(s, F) == s \in Open /\ ~FlagsKnown(F) /\ Dies

-----------------------------------------------------------------------------
(* Receiving                                                               *)

\* Nothing has come, or not all.
NoMessage(s, F, N, converts) ==
  \/ queue[s] = <<>> /\ Stops(s, F, N, converts)
  \/ queue[s] # <<>> /\ AsksForAll(s, N) /\ MayWait(s, N) /\ Stops(s, F, N, converts)

\* The name told of a message m, room being that for its sender's address.
\* The kernel writes no address on a connected stream, and a local that was
\* never written is converted: the family is unknown, or anything is told
\* (NONE here).
Name(s, m, room) ==
  IF room = 0 \/ IsStream(s) THEN NONE
  ELSE [addr |-> native_to_linux_sockaddr(m.from), from |-> m.from]

\* PANIC, or the assertion that the program's room is large enough.
NameKills(s, m, room) ==
  room # 0 /\ (IsStream(s) \/ room < SizeOf(m.from.sa_family))

Take(s, told) ==
  /\ queue' = [queue EXCEPT ![s] = Tail(@)]
  /\ ret' = told
  /\ UNCHANGED <<sock, files>>

Answer(name) == IF name = NONE THEN NONE ELSE [says |-> "from", name |-> name]

recv(s, F) ==
  /\ Live /\ s \in Open /\ FlagsKnown(F)
  /\ \/ NoMessage(s, F, linux_to_native_msg_flags(F), TRUE)
     \/ queue[s] # <<>> /\ Take(s, NONE) /\ UNCHANGED msg_control

recvfrom(s, room, F) ==
  /\ s \in Open /\ FlagsKnown(F)
  /\ \/ Live /\ NoMessage(s, F, linux_to_native_msg_flags(F), TRUE)
     \/ /\ queue[s] # <<>>
        /\ \/ NameKills(s, Head(queue[s]), room) /\ Dies
           \/ /\ Live /\ UNCHANGED msg_control
              /\ IsStream(s) \/ ~NameKills(s, Head(queue[s]), room)
              /\ Take(s, Answer(Name(s, Head(queue[s]), room)))

\* The kernel's report has the call's own flags and may say that a message was
\* longer than the program's buffer; it says so of control messages, whose
\* descriptors it closes.
Reports(m, len, N) ==
  {N \cup E \cup (IF m.control # {} /\ ~len THEN {CTRUNC.native} ELSE {}) :
     E \in SUBSET {TRUNC.native}}

\* Variant: the control messages are left unconverted beside a name.
ToldUnlessNamed(m, len, room) ==
  IF len /\ room = 0 THEN {native_to_linux_cmsg(c) : c \in m.control} ELSE {}

Told(m, len, room) ==
  IF len THEN {native_to_linux_cmsg(c) : c \in m.control} ELSE {}

\* len: the program's msg_controllen is not 0.  Without a control message
\* the program's msg_control becomes null.
Recvmsg(s, m, room, len, told, flags) ==
  /\ Live
  /\ Take(s, [says |-> "received", name |-> Name(s, m, room),
              rights |-> m.rights, told |-> told, flags |-> flags])
  /\ msg_control' = (msg_control /\ len /\ m.control # {})

RecvmsgKills(s, m, room, len) ==
  \/ NameKills(s, m, room)
  \/ len /\ \E c \in m.control : ~CmsgKnown(c)
  \/ len /\ m.control # {} /\ ~msg_control

recvmsg(s, room, len, F) ==
  /\ s \in Open /\ FlagsKnown(F)
  /\ \/ Live /\ NoMessage(s, F, linux_to_native_msg_flags(F), TRUE)
     \/ /\ queue[s] # <<>>
        /\ LET m == Head(queue[s]) IN
           \/ RecvmsgKills(s, m, room, len) /\ Dies
           \/ /\ ~RecvmsgKills(s, m, IF IsStream(s) THEN 0 ELSE room, len)
              /\ \E R \in Reports(m, len, linux_to_native_msg_flags(F)) :
                   Recvmsg(s, m, room, len, Told(m, len, room), native_to_linux_msg_flags(R))

\* The program points its header to its buffer again.
SetControl == Live /\ Done /\ ~msg_control /\ msg_control' = TRUE
              /\ UNCHANGED <<sock, files, queue>>

getsockname(s, room) ==
  /\ s \in Open /\ room # 0
  /\ \/ room < SizeOf(sock[s].domain) /\ Dies
     \/ /\ Live /\ room >= SizeOf(sock[s].domain)
        /\ ret' = Answer([addr |-> native_to_linux_sockaddr(sock[s].name),
                          from |-> sock[s].name])
        /\ UNCHANGED <<sock, files, queue, msg_control>>

\* The fortified recv() converts neither its flags nor its error.
__recv_chk(s, F) ==
  /\ Live /\ s \in Open
  /\ \/ NoMessage(s, F, F, FALSE)
     \/ queue[s] # <<>> /\ Take(s, NONE) /\ UNCHANGED msg_control

\* Streams, and only they, come as pairs: listen() and accept() are the
\* native ones.
Next ==
  \/ \E t \in Types :
       \/ UnknownType(t)
       \/ \E s \in Sockets :
            \/ t.kind # 1 /\ \E a \in {b \in Addresses : Known(b)} : socket(s, a.sa_family, t)
            \/ t.kind = 1 /\ \E r \in Sockets : socketpair(s, r, t)
  \/ Returns \/ SetControl
  \/ \E s \in Sockets :
       \/ close(s)
       \/ \E a \in Addresses : bind(s, a) \/ connect(s, a) \/ UnknownAddress(s, a)
       \/ \E room \in Rooms : getsockname(s, room)
       \/ \E F \in FlagSets :
            \/ UnknownFlags(s, F) \/ recv(s, F) \/ __recv_chk(s, F) \/ send(s, F)
            \/ \E a \in Addresses \cup {NONE} : sendto(s, a, F) \/ sendmsg(s, a, F)
            \/ \E room \in Rooms :
                 \/ recvfrom(s, room, F)
                 \/ \E len \in BOOLEAN : recvmsg(s, room, len, F)

Spec == Init /\ [][Next]_vars

-----------------------------------------------------------------------------
(* Properties                                                              *)

\* The last call has told an address.
Named == ret # NONE /\ ret.says \in {"from", "received"} /\ ret.name # NONE

\* What the kernel holds is in FreeBSD's numbers, and fits.
TypeOK ==
  /\ sock \in [Sockets -> NativeSockets \cup {NONE}]
  /\ \A s \in Open : /\ sock[s].name.sa_family = sock[s].domain
                    /\ sock[s].peer \in Open \cup {NONE}
  /\ \A n \in files : n \in NativeNames /\ n.sa_family = PF_UNIX
  /\ queue \in [Sockets -> Seq(Messages)]
  /\ \A s \in Sockets : Len(queue[s]) <= MaxQueue /\ (queue[s] # <<>> => s \in Open)
  /\ msg_control \in BOOLEAN /\ dead \in BOOLEAN

\* Whoever answers to the address that recvfrom, recvmsg or getsockname has
\* told reaches the holder of the name that the kernel reported, though the
\* abstract names of Linux come back as paths.
ReplyReachesSender ==
  Named /\ ret.name.from.name # <<>> =>
    /\ Known(ret.name.addr)
    /\ Holders(linux_to_native_sockaddr(ret.name.addr)) = Holders(ret.name.from)

\* A name without a NUL in it, which one ends in the program's memory too, and
\* which fits beside "/var/run/" in a native path if it is abstract.
Plain(a) ==
  /\ \A i \in DOMAIN a.name : a.name[i] # NUL
  /\ a.behind # <<>> => a.behind[1] = NUL
  /\ a.abstract => Len(a.name) < SunPathMax

\* Two plain abstract names, two plain paths and two internet addresses are
\* never taken for each other: a message that is sent to one arrives where that
\* one was bound.  Nothing is said of other names, for snprintf() reads neither
\* less nor more than a C string: those of Linux that have a NUL in them are
\* the same up to it, and one that no NUL ends goes on with what lies behind.
NamesApart ==
  ret # NONE /\ ret.says = "sent" /\ ret.at # NONE =>
    (Plain(ret.dest) /\ Plain(ret.at) /\ ret.dest.abstract = ret.at.abstract
       => ret.dest.sa_family = ret.at.sa_family /\ ret.dest.name = ret.at.name)

\* A descriptor that a program passes is one to the kernel too, and the
\* recvmsg that takes it tells the receiver of it, or says that control
\* messages were cut off: none is left open unseen, none is lost in silence.
RightsArrive ==
  /\ \A s \in Open : \A i \in DOMAIN queue[s] :
       queue[s][i].rights <=> Rights \in queue[s][i].control
  /\ ret # NONE /\ ret.says = "received" =>
       /\ LinuxRights \in ret.told => ret.rights
       /\ ret.rights => LinuxRights \in ret.told \/ CTRUNC.linux \in ret.flags

\* No call waits on a socket that was made with SOCK_NONBLOCK, and none but
\* __recv_chk with MSG_DONTWAIT.  A call that gives up was told not to wait, by
\* the one or the other, and says Linux's EAGAIN; __recv_chk, which converts
\* nothing, gives up on flags that mean something else to Linux, waits where it
\* was told not to, and says FreeBSD's EAGAIN.
NonblockingCallsReturn ==
  /\ ret # NONE /\ ret.says = "waits" => ~ret.nonblock /\ (ret.converts => ~ret.dontwait)
  /\ ret # NONE /\ ret.says = "again" /\ ret.converts =>
       (ret.nonblock \/ ret.dontwait) /\ ret.errno = 11

-----------------------------------------------------------------------------
(* What every step keeps, besides                                          *)

\* A socket's bits are those that were asked for, and its name is that of the
\* address it was bound to.
SocketsAsAsked ==
  \A s \in Open :
    /\ sock[s].type.bits = ToNative(TypeBits, sock[s].asked.bits)
    /\ sock[s].meant # NONE =>
         /\ Known(sock[s].meant)
         /\ sock[s].name = linux_to_native_sockaddr(sock[s].meant)
         /\ sock[s].domain # PF_UNIX => sock[s].name.name # <<>>

\* The name that is told is a native one, converted.
NamesConverted ==
  Named => /\ ret.name.from \in NativeNames
           /\ ret.name.addr = native_to_linux_sockaddr(ret.name.from)

IInv == TypeOK /\ SocketsAsAsked /\ NamesConverted /\ NamesApart
          /\ RightsArrive /\ NonblockingCallsReturn
=============================================================================
