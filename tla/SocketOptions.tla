---------------------------- MODULE SocketOptions ----------------------------
(***************************************************************************)
(* src/src/libc/sys/socket.c: getsockopt() and setsockopt().  An option is *)
(* a pair of a level and a number, which the shim translates; values are   *)
(* passed on as they are, both ways.  FreeBSD tells a flag that is set by  *)
(* its own bit, not by 1.                                                  *)
(***************************************************************************)
EXTENDS Process, Integers, FiniteSets

CONSTANTS
  OptionValues,
  MaxOptionsSet  \* options that are not zero at a time

VARIABLES
  domain,        \* of the socket
  option,        \* FreeBSD's options: <<level, number>> -> value
  so_error,      \* the error that the socket has met
  accepted,      \* per option of Linux: the value that setsockopt last took
  read,          \* [option, value] that getsockopt has just told
  options_dead

optionsVars == <<domain, option, so_error, accepted, read, options_dead>>

-----------------------------------------------------------------------------
(* Linux's number, FreeBSD's number                                        *)

SOL_SOCKET == 1
SOL_IP == 0
SOL_IPV6 == 41
SOL_TCP == 6
NATIVE_SOL_SOCKET == 65535
IPPROTO_IP == 0
IPPROTO_TCP == 6
SOL_LOCAL == 0

SO_ERROR == 4
SO_SNDBUF == 7
SO_PASSCRED == 16
IP_MTU_DISCOVER == 10

\* REUSEADDR ERROR BROADCAST SNDBUF RCVBUF KEEPALIVE
so_opts  == {<<2, 4>>, <<4, 4103>>, <<6, 32>>, <<7, 4097>>, <<8, 4098>>, <<9, 8>>}
\* MTU_DISCOVER (as IP_DONTFRAG) RECVERR RECVTOS
ip4_opts == {<<10, 67>>, <<11, -1>>, <<13, 68>>}
\* V6ONLY
ip6_opts == {<<26, 27>>}
\* Variant: KEEPINTVL has got the number of KEEPIDLE.
tcp_opts_twice == {<<1, 1>>, <<4, 256>>, <<5, 256>>, <<18, -1>>}
\* NODELAY KEEPIDLE KEEPINTVL USER_TIMEOUT
tcp_opts == {<<1, 1>>, <<4, 256>>, <<5, 512>>, <<18, -1>>}

LOCAL_CREDS_PERSISTENT == 3

OptsOf(level) ==
  CASE level = SOL_SOCKET -> so_opts \cup {<<SO_PASSCRED, LOCAL_CREDS_PERSISTENT>>}
    [] level = SOL_IP   -> ip4_opts
    [] level = SOL_IPV6 -> ip6_opts
    [] level = SOL_TCP  -> tcp_opts
    [] OTHER -> {}

\* Options of IPv6 are passed on at IPv4's level, and credentials at that of
\* local sockets, which is the same number.
NativeLevel(o) ==
  CASE o[1] = SOL_SOCKET -> IF o[2] = SO_PASSCRED THEN SOL_LOCAL ELSE NATIVE_SOL_SOCKET
    [] o[1] \in {SOL_IP, SOL_IPV6} -> IPPROTO_IP
    [] o[1] = SOL_TCP -> IPPROTO_TCP

KnownOption(o) == \E p \in OptsOf(o[1]) : p[1] = o[2]

NativeOption(o) == <<NativeLevel(o), (CHOOSE p \in OptsOf(o[1]) : p[1] = o[2])[2]>>

LinuxOptions ==
  UNION {{<<l, p[1]>> : p \in OptsOf(l)} : l \in {SOL_SOCKET, SOL_IP, SOL_IPV6, SOL_TCP}}

-----------------------------------------------------------------------------
(* The kernel's part                                                       *)

\* Of the options above, those that can be set; SO_ERROR can not.
SocketOpts == {<<NATIVE_SOL_SOCKET, p[2]>> : p \in so_opts} \ {<<NATIVE_SOL_SOCKET, 4103>>}
\* Options that keep a number, and those that keep a flag: these tell their bit.
Numbers == {<<65535, 4097>>, <<65535, 4098>>, <<6, 256>>, <<6, 512>>, <<0, 3>>}
FlagBit(o) == CASE o = <<65535, 4>> -> 4 [] o = <<65535, 32>> -> 32 [] o = <<65535, 8>> -> 8
                [] o = <<6, 1>> -> 4 [] OTHER -> 1

\* <<0, 3>> is IP_TOS and LOCAL_CREDS_PERSISTENT, <<0, 27>> IP_ORIGDSTADDR.
OptionsOf(d) ==
  SocketOpts \cup
  CASE d = "local" -> {<<SOL_LOCAL, LOCAL_CREDS_PERSISTENT>>}
    [] d = "inet"  -> {<<0, 67>>, <<0, 68>>, <<0, 27>>, <<0, 3>>, <<6, 1>>, <<6, 256>>, <<6, 512>>}
    [] d = "inet6" -> {<<6, 1>>, <<6, 256>>, <<6, 512>>}

KeepsNumber(o) == o \in Numbers /\ ~(domain = "local" /\ o[1] = SOL_LOCAL)

Stored(o, v) == IF KeepsNumber(o) THEN v ELSE IF v = 0 THEN 0 ELSE FlagBit(o)

\* An empty buffer is refused.
NativeAccepts(o, v) ==
  o \in OptionsOf(domain) /\ (o[1] = NATIVE_SOL_SOCKET /\ KeepsNumber(o) => v > 0)

\* A connection fails.
SocketFails(err) ==
  /\ ~options_dead /\ so_error' = err /\ read' = NULL
  /\ UNCHANGED <<domain, option, accepted, options_dead>>

-----------------------------------------------------------------------------
OptionsInit ==
  /\ domain \in {"local", "inet", "inet6"}
  /\ option = [o \in OptionsOf(domain) |-> 0] /\ so_error = 0
  /\ accepted = [o \in LinuxOptions |-> 0]
  /\ read = NULL /\ options_dead = FALSE

OptionsLive == ~options_dead /\ UNCHANGED <<options_dead, domain>>

UnknownOption(o) ==
  /\ ~options_dead /\ ~KnownOption(o) /\ options_dead' = TRUE
  /\ UNCHANGED <<domain, option, so_error, accepted, read>>

SetBy(o) == {p \in LinuxOptions : accepted[p] # 0} \cup {o}

\* A send buffer of 0 is not passed on, and the program is told that it was.
Dropped(o, v) == o = <<SOL_SOCKET, SO_SNDBUF>> /\ v = 0

setsockopt(o, v) ==
  /\ OptionsLive /\ KnownOption(o) /\ read' = NULL /\ UNCHANGED so_error
  /\ Cardinality(SetBy(o)) <= MaxOptionsSet
  /\ accepted' = [accepted EXCEPT ![o] = v]
  /\ IF Dropped(o, v) THEN UNCHANGED option
     ELSE /\ NativeAccepts(NativeOption(o), v)
          /\ option' = [option EXCEPT ![NativeOption(o)] = Stored(NativeOption(o), v)]

setsockopt_fails(o, v) ==
  /\ OptionsLive /\ KnownOption(o) /\ read' = NULL
  /\ ~Dropped(o, v) /\ ~NativeAccepts(NativeOption(o), v)
  /\ UNCHANGED <<option, so_error, accepted>>

\* SO_ERROR is forgotten when it is told, and told by FreeBSD's number.
getsockopt(o) ==
  /\ OptionsLive /\ KnownOption(o) /\ UNCHANGED <<option, accepted>>
  /\ IF o = <<SOL_SOCKET, SO_ERROR>>
     THEN so_error' = 0 /\ read' = [option |-> o, value |-> so_error]
     ELSE /\ NativeOption(o) \in OptionsOf(domain) /\ UNCHANGED so_error
          /\ read' = [option |-> o, value |-> option[NativeOption(o)]]

OptionsNext ==
  \/ \E o \in LinuxOptions :
       \/ getsockopt(o)
       \/ \E v \in OptionValues : setsockopt(o, v) \/ setsockopt_fails(o, v)
  \/ \E o \in {<<SOL_SOCKET, 3>>, <<17, 1>>} : UnknownOption(o)
  \/ SocketFails(60)

OptionsSpec == OptionsInit /\ [][OptionsNext]_optionsVars

-----------------------------------------------------------------------------
(* Properties                                                              *)

\* Options that hold a number on Linux; the others hold a flag.
Counts == {<<SOL_SOCKET, 7>>, <<SOL_SOCKET, 8>>, <<SOL_TCP, 4>>, <<SOL_TCP, 5>>,
           <<SOL_IP, IP_MTU_DISCOVER>>}

\* Of these, IP_MTU_DISCOVER (0 to 3) becomes the flag IP_DONTFRAG.
Flattened == {<<SOL_IP, IP_MTU_DISCOVER>>}

\* getsockopt tells of an option what setsockopt last took for it, whatever
\* other options were set in between and on whatever level FreeBSD has them:
\* a flag as zero or not, a number as it is.  There are two exceptions, as in
\* socket.c: a send buffer of 0 is taken, and what is told is what there was
\* before; and of IP_MTU_DISCOVER's numbers 0 is told as 0 and any other as 1.
OptionsKept ==
  read # NULL /\ read.option # <<SOL_SOCKET, SO_ERROR>> =>
    LET set == accepted[read.option] IN
      \/ Dropped(read.option, set)
      \/ /\ read.value = 0 <=> set = 0
         /\ read.option \in Counts =>
              read.value = IF read.option \in Flattened /\ set # 0 THEN 1 ELSE set

OptionsTypeOK ==
  /\ domain \in {"local", "inet", "inet6"}
  /\ DOMAIN option = OptionsOf(domain)
  /\ DOMAIN accepted = LinuxOptions

\* FreeBSD has what was last taken, save for what was dropped, under the number
\* and in the form of its own.
OptionsStored ==
  \A o \in LinuxOptions :
    NativeOption(o) \in OptionsOf(domain) /\ ~Dropped(o, accepted[o]) =>
      option[NativeOption(o)] = Stored(NativeOption(o), accepted[o])

\* The conjunction is inductive: it is proved in CallsProofs.
OptionsIInv == OptionsTypeOK /\ OptionsStored /\ OptionsKept
=============================================================================
