----------------------------- MODULE Descriptors -----------------------------
(***************************************************************************)
(* src/src/libc/fcntl.c, pipe2, access, write and close of unistd.c, and   *)
(* the paths of Redirects: files and descriptors of a Linux program on     *)
(* FreeBSD.  The shim keeps nothing but a table of paths; it replaces some *)
(* paths, hides others, and converts flags both ways.  The kernel is       *)
(* UnixDescriptors in FreeBSD's numbers.                                   *)
(***************************************************************************)
EXTENDS Integers, FiniteSets, Redirects

CONSTANTS
  Fds, Descs, PIPE, NONE,   \* as in UnixDescriptors
  Paths,                    \* paths the program opens
  Locked,                   \* those it locks
  Objects,                  \* its shared memory objects
  FlagSets                  \* the flags it opens them with

VARIABLES
  table, cloexec, desc, exists, written, lock, busy, ret, dead,
  got                       \* [fd, flags] that F_GETFL has just reported

kernel == <<table, cloexec, desc, exists, written, lock, busy>>
vars   == <<kernel, ret, dead, got>>

-----------------------------------------------------------------------------
(* Paths                                                                   *)

Visible == {p \in Paths : redirect(p) # HIDDEN}
NativeFiles == {redirect(p) : p \in Visible} \cup Objects
Devices == {"/dev/null"} \cap NativeFiles

ASSUME PathsOK ==
  /\ HIDDEN \notin Paths /\ Paths \cap Objects = {}
  /\ {redirect(p) : p \in Visible} \cap Objects = {}
  /\ PIPE \notin NativeFiles \cup Paths
  /\ Locked \subseteq {p \in Visible : redirect(p) \notin Devices}

-----------------------------------------------------------------------------
(* Flags: a word is the set of its bits' numbers                           *)

Linux_O == [WRONLY |-> 0, RDWR |-> 1, CREAT |-> 6, EXCL |-> 7, TRUNC |-> 9,
            APPEND |-> 10, NONBLOCK |-> 11, CLOEXEC |-> 19,
            RDLCK |-> 0, WRLCK |-> 1, UNLCK |-> 2]
Native_O == [WRONLY |-> 0, RDWR |-> 1, CREAT |-> 9, EXCL |-> 11, TRUNC |-> 10,
             APPEND |-> 3, NONBLOCK |-> 2, CLOEXEC |-> 20,
             RDLCK |-> 1, WRLCK |-> 3, UNLCK |-> 2]

LINUX_O_DIRECTORY == 16
LINUX_O_TMPFILE   == {22, LINUX_O_DIRECTORY}

\* O_NOCTTY is 8 and 15, O_DIRECTORY 16 and 17.
KNOWN_LINUX_OPEN_FLAGS == {0, 1, 6, 7, 8, 9, 10, 11, 19} \cup LINUX_O_TMPFILE

OpenFlags == {<<0, 0>>, <<1, 1>>, <<6, 9>>, <<7, 11>>, <<8, 15>>, <<9, 10>>,
              <<10, 3>>, <<11, 2>>, <<16, 17>>, <<19, 20>>}

\* NONE is no description: neither its name nor what it says.
ASSUME NoneAssumption ==
  /\ NONE \notin Descs
  /\ \A f \in NativeFiles \cup Paths \cup {PIPE}, F \in SUBSET {0, 1, 2, 3, 10, 11} :
       [file |-> f, flags |-> F] # NONE

ASSUME FlagsKnown == \A F \in FlagSets : F \subseteq KNOWN_LINUX_OPEN_FLAGS

\* Those of the pairs in R whose Linux bits are set, and back.
ToNative(R, F) == {b[2] : b \in {a \in R : a[1] \in F}}
ToLinux(R, F)  == {b[1] : b \in {a \in R : a[2] \in F}}

\* Variant: one conversion is missing.
OpenForgetsCloexec(F) == ToNative(OpenFlags, F) \ {Native_O.CLOEXEC}

linux_to_native_open_flags(F) == ToNative(OpenFlags, F)
linux_to_native_shm_flags(F)  == ToNative({a \in OpenFlags : a[1] \in {0, 1, 6, 7, 9}}, F)
linux_to_native_pipe_flags(F) == ToNative({a \in OpenFlags : a[1] \in {11, 19}}, F)

\* F_GETFL and F_SETFL
GetFlFlags == {<<0, 0>>, <<1, 1>>, <<11, 2>>}
SetFlFlags == {<<1, 1>>, <<11, 2>>}

GetFlAccepts(F) == F \subseteq {a[2] : a \in GetFlFlags}
SetFlAccepts(F) == F \subseteq {a[1] : a \in SetFlFlags}

LockTypes == {<<0, 1>>, <<1, 3>>, <<2, 2>>}
copy_linux_flock(t) == (CHOOSE a \in LockTypes : a[1] = t)[2]

-----------------------------------------------------------------------------
Native == INSTANCE UnixDescriptors WITH
  Files <- NativeFiles, Locked <- {redirect(p) : p \in Locked}, O <- Native_O

Init == Native!Init /\ got = NONE

Live == ~dead /\ got' = NONE

Abort == ~dead /\ dead' = TRUE /\ UNCHANGED <<kernel, ret, got>>

Refuse == Live /\ Native!Answer(Native!Failure)

OpenHidden(p) == redirect(p) = HIDDEN /\ Refuse

OpenTmpfile(p, F) ==
  redirect(p) # HIDDEN /\ F \cap LINUX_O_TMPFILE # {} /\ Refuse

\* open() and open64()
Open(p, F) ==
  /\ Live /\ redirect(p) # HIDDEN /\ F \cap LINUX_O_TMPFILE = {}
  /\ LET N == linux_to_native_open_flags(F) IN
       \/ \E fd \in Fds, d \in Descs : Native!OpenFile(fd, d, redirect(p), N)
       \/ Native!OpenFails(redirect(p), N)

\* O_CLOEXEC is given to the native open() in its third argument, the mode,
\* where it means nothing.
ShmOpen(n, F) ==
  /\ Live /\ F \subseteq {1, 6, 7, 9}
  /\ LET N == linux_to_native_shm_flags(F) IN
       \/ \E fd \in Fds, d \in Descs : Native!OpenFile(fd, d, n, N)
       \/ Native!OpenFails(n, N)

\* FreeBSD's pipes go both ways.
Pipe2(F) ==
  /\ Live /\ F \subseteq {11, 19}
  /\ \E r, w \in Fds, d, e \in Descs :
       Native!Pipe(r, w, d, e, {Native_O.RDWR}, {Native_O.RDWR},
                   linux_to_native_pipe_flags(F))

Access(p) ==
  Live /\ redirect(p) # HIDDEN /\ Native!Access(redirect(p))

GetFd(fd) == Live /\ Native!GetFd(fd)

SetFd(fd, C) == Live /\ Native!SetFd(fd, C)

\* Variant: the native flags are reported as they are.
GetFlUnconverted(fd) ==
  /\ ~dead /\ Native!GetFl(fd)
  /\ GetFlAccepts(Native!Flags(fd))
  /\ got' = [fd |-> fd, flags |-> Native!Flags(fd)]

GetFl(fd) ==
  /\ ~dead /\ fd \in Native!Open
  /\ GetFlAccepts(Native!Flags(fd))
  /\ LET F == ToLinux(GetFlFlags, Native!Flags(fd)) IN
       /\ Native!Answer(Native!Success(F))
       /\ got' = [fd |-> fd, flags |-> F]

GetFlAsserts(fd) ==
  fd \in Native!Open /\ ~GetFlAccepts(Native!Flags(fd)) /\ Abort

\* A program reads the flags, sets or clears O_NONBLOCK, and writes them.
Changed == {got.flags \cup {Linux_O.NONBLOCK}, got.flags \ {Linux_O.NONBLOCK}}

SetFl(fd, F) ==
  Live /\ SetFlAccepts(F) /\ Native!SetFl(fd, ToNative(SetFlFlags, F))

SetFlAsserts(fd, F) == fd \in Native!Open /\ ~SetFlAccepts(F) /\ Abort

SetLock(fd, t) ==
  /\ Live
  /\ \/ Native!SetLock(fd, copy_linux_flock(t))
     \/ Native!SetLockFails(fd, copy_linux_flock(t))

DupfdCloexec(fd, new) == Live /\ Native!Dup(fd, new, {0})

write(fd) == Live /\ (Native!Write(fd) \/ Native!WriteFails(fd))

close(fd) == Live /\ Native!Close(fd)

\* dup() and exec are the native ones.
NativeDup(fd, new) == Live /\ Native!Dup(fd, new, {})
NativeExec == Live /\ Native!Exec

Next ==
  \/ \E p \in Paths :
       \/ OpenHidden(p) \/ Access(p)
       \/ \E F \in FlagSets : OpenTmpfile(p, F) \/ Open(p, F)
  \/ \E F \in FlagSets : Pipe2(F) \/ \E n \in Objects : ShmOpen(n, F)
  \/ \E fd \in Fds :
       \/ GetFd(fd) \/ GetFl(fd) \/ GetFlAsserts(fd)
       \/ \E C \in SUBSET {0} : SetFd(fd, C)
       \/ got # NONE /\ got.fd = fd
          /\ \E F \in Changed : SetFl(fd, F) \/ SetFlAsserts(fd, F)
       \/ \E t \in {0, 1, 2} : SetLock(fd, t)
       \/ \E new \in Fds : DupfdCloexec(fd, new) \/ NativeDup(fd, new)
       \/ write(fd) \/ close(fd)
  \/ NativeExec
  \/ \E p \in Locked : Live /\ Native!OthersLock(redirect(p))

Spec == Init /\ [][Next]_vars

-----------------------------------------------------------------------------
(* Properties                                                              *)

\* Flags that the program is told are Linux's; those kept are FreeBSD's.
TypeOK ==
  /\ table \in [Fds -> Descs \cup {NONE}]
  /\ cloexec \subseteq Native!Open
  /\ \A d \in Descs : desc[d] # NONE =>
       /\ desc[d].file \in NativeFiles \cup {PIPE}
       /\ desc[d].flags \subseteq Native!Mode \cup Native!Status
  /\ lock \in [{redirect(p) : p \in Locked} -> Native!Locks]
  /\ ret.flags \subseteq KNOWN_LINUX_OPEN_FLAGS
  /\ dead \in BOOLEAN

\* The kernel's state under Linux's names and numbers.  Paths with the same
\* replacement are links to one file, which has the name of one of them.
PathOf == [f \in NativeFiles \cup {PIPE} |->
             IF \E p \in Visible : redirect(p) = f
             THEN CHOOSE p \in Visible : redirect(p) = f ELSE f]
LinuxFlags == [N \in SUBSET (Native!Mode \cup Native!Status) |->
                 ToLinux(OpenFlags, N)]
LinuxType  == [t \in Native!Locks |-> (CHOOSE a \in LockTypes : a[2] = t)[1]]

Named(S) == {PathOf[f] : f \in S}

LinuxDesc == [d \in Descs |-> IF desc[d] = NONE THEN NONE ELSE
                [file  |-> PathOf[desc[d].file],
                 flags |-> LinuxFlags[desc[d].flags]]]
LinuxLock == [f \in Named({redirect(p) : p \in Locked}) |-> LinuxType[lock[redirect(f)]]]

Linux == INSTANCE LinuxDescriptors WITH
  O       <- Linux_O,
  Files   <- Named(NativeFiles),
  Locked  <- Named({redirect(p) : p \in Locked}),
  Devices <- Named(Devices),
  desc    <- LinuxDesc,
  exists  <- Named(exists),
  written <- Named(written),
  lock    <- LinuxLock,
  busy    <- Named(busy)

\* Files, flags, sharing, close-on-exec and locks are what Linux would make
\* of the same calls, and the flags reported are those that were asked for.
ImplementsLinux == Linux!Spec

\* "assert((linux_flags & ~(LINUX_O_RDWR | LINUX_O_NONBLOCK)) == 0)"
\* (fcntl.c:90): flags that F_GETFL has reported may be given to F_SETFL.
ReportedFlagsAccepted == got # NONE => SetFlAccepts(got.flags)
=============================================================================
