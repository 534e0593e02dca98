--------------------------- MODULE UnixDescriptors ---------------------------
(***************************************************************************)
(* File descriptors as the kernels of Linux and FreeBSD both have them:    *)
(* descriptors refer to open file descriptions, which have the access mode *)
(* and the status flags, and several of them may share one; close-on-exec  *)
(* belongs to the descriptor, record locks to the process.  The systems    *)
(* differ in their numbers, which are the constant O.                      *)
(***************************************************************************)
EXTENDS Integers, FiniteSets

CONSTANTS
  Fds,        \* descriptors
  Descs,      \* open file descriptions
  Files,
  Devices,    \* files that keep nothing and are always there
  Locked,     \* files that processes put record locks on
  PIPE,       \* the file of a pipe's descriptions
  NONE,
  O           \* the numbers of the bits of open flags and of lock types

VARIABLES
  table,      \* descriptor -> description or NONE
  cloexec,    \* descriptors that exec closes
  desc,       \* description -> [file, flags] or NONE
  exists,     \* files that are there
  written,    \* files that are not empty
  lock,       \* file -> the process's record lock
  busy,       \* files that another process has locked for writing
  ret,        \* the last call's result
  dead

vars == <<table, cloexec, desc, exists, written, lock, busy, ret, dead>>

Status == {O.APPEND, O.NONBLOCK}
Mode   == {O.WRONLY, O.RDWR}
Locks  == {O.RDLCK, O.WRLCK, O.UNLCK}

Open     == {fd \in Fds : table[fd] # NONE}
Free     == Fds \ Open
FreeDesc == {d \in Descs : desc[d] = NONE}
Regular  == Files \ Devices

OfFile(f)    == {fd \in Open : desc[table[fd]].file = f}
Flags(fd)    == desc[table[fd]].flags
Writable(fd) == Flags(fd) \cap Mode # {}
Readable(fd) == O.WRONLY \notin Flags(fd)

Success(F) == [ok |-> TRUE, flags |-> F]
Failure    == [ok |-> FALSE, flags |-> {}]

Init ==
  /\ table = [fd \in Fds |-> NONE] /\ cloexec = {}
  /\ desc = [d \in Descs |-> NONE]
  /\ exists \in {Devices, Files} /\ written = Regular \cap exists
  /\ lock = [f \in Locked |-> O.UNLCK] /\ busy = {}
  /\ ret = Success({}) /\ dead = FALSE

files == <<exists, written, lock, busy>>

\* The fields of a call that only answers.
Answer(r) ==
  /\ ret' = r
  /\ UNCHANGED <<table, cloexec, desc, files, dead>>

\* A new description for the descriptor fd.
NewDesc(fd, d, f, F) ==
  /\ fd \in Free /\ d \in FreeDesc
  /\ table' = [table EXCEPT ![fd] = d]
  /\ desc' = [desc EXCEPT ![d] = [file |-> f, flags |-> F \cap (Mode \cup Status)]]
  /\ ret' = Success({}) /\ UNCHANGED dead

OpenFile(fd, d, f, F) ==
  /\ f \in exists \/ O.CREAT \in F
  /\ ~(f \in exists /\ {O.CREAT, O.EXCL} \subseteq F)
  /\ NewDesc(fd, d, f, F)
  /\ cloexec' = IF O.CLOEXEC \in F THEN cloexec \cup {fd} ELSE cloexec
  /\ exists' = exists \cup {f}
  /\ written' = IF O.TRUNC \in F THEN written \ {f} ELSE written
  /\ UNCHANGED <<lock, busy>>

OpenFails(f, F) ==
  /\ \/ f \notin exists /\ O.CREAT \notin F
     \/ f \in exists /\ {O.CREAT, O.EXCL} \subseteq F
     \/ Free = {} \/ FreeDesc = {}
  /\ Answer(Failure)

\* R and W are the access modes of the two ends.
Pipe(r, w, d, e, R, W, F) ==
  /\ {r, w} \subseteq Free /\ r # w /\ {d, e} \subseteq FreeDesc /\ d # e
  /\ table' = [table EXCEPT ![r] = d, ![w] = e]
  /\ desc' = [desc EXCEPT
       ![d] = [file |-> PIPE, flags |-> (F \cap Status) \cup R],
       ![e] = [file |-> PIPE, flags |-> (F \cap Status) \cup W]]
  /\ cloexec' = IF O.CLOEXEC \in F THEN cloexec \cup {r, w} ELSE cloexec
  /\ ret' = Success({})
  /\ UNCHANGED <<files, dead>>

\* fcntl(fd, F_DUPFD_CLOEXEC, 0), and dup for C = {}
Dup(fd, new, C) ==
  /\ fd \in Open /\ new \in Free
  /\ table' = [table EXCEPT ![new] = table[fd]]
  /\ cloexec' = IF C = {} THEN cloexec ELSE cloexec \cup {new}
  /\ ret' = Success({})
  /\ UNCHANGED <<desc, files, dead>>

\* Closing any descriptor of a file gives up the process's lock on it.
CloseAll(S) ==
  /\ table' = [fd \in Fds |-> IF fd \in S THEN NONE ELSE table[fd]]
  /\ desc' = [d \in Descs |->
                IF \E fd \in Fds : table'[fd] = d THEN desc[d] ELSE NONE]
  /\ cloexec' = cloexec \ S
  /\ lock' = [f \in Locked |->
                IF OfFile(f) \cap S = {} THEN lock[f] ELSE O.UNLCK]
  /\ ret' = Success({})
  /\ UNCHANGED <<exists, written, busy, dead>>

Close(fd) == fd \in Open /\ CloseAll({fd})
Exec == CloseAll(cloexec)

GetFd(fd) ==
  fd \in Open /\ Answer(Success(IF fd \in cloexec THEN {0} ELSE {}))

SetFd(fd, C) ==
  /\ fd \in Open
  /\ cloexec' = IF C = {} THEN cloexec \ {fd} ELSE cloexec \cup {fd}
  /\ ret' = Success({})
  /\ UNCHANGED <<table, desc, files, dead>>

GetFl(fd) == fd \in Open /\ Answer(Success(Flags(fd)))

\* The access mode in the argument is ignored.
SetFl(fd, F) ==
  /\ fd \in Open
  /\ UNCHANGED <<table, cloexec, files, dead>>
  /\ desc' = [desc EXCEPT ![table[fd]].flags = (@ \cap Mode) \cup (F \cap Status)]
  /\ ret' = Success({})

Write(fd) ==
  /\ fd \in Open /\ Writable(fd)
  /\ written' = written \cup ({desc[table[fd]].file} \cap Regular)
  /\ ret' = Success({})
  /\ UNCHANGED <<table, cloexec, desc, exists, lock, busy, dead>>

WriteFails(fd) == fd \in Open /\ ~Writable(fd) /\ Answer(Failure)

\* F_SETLK, and F_SETLKW when it does not have to wait
SetLock(fd, t) ==
  /\ fd \in Open /\ t \in Locks
  /\ t = O.RDLCK => Readable(fd)
  /\ t = O.WRLCK => Writable(fd)
  /\ LET f == desc[table[fd]].file IN
       /\ f \in Locked /\ (f \in busy => t = O.UNLCK)
       /\ lock' = [lock EXCEPT ![f] = t]
  /\ ret' = Success({})
  /\ UNCHANGED <<table, cloexec, desc, exists, written, busy, dead>>

SetLockFails(fd, t) ==
  /\ fd \in Open /\ desc[table[fd]].file \in Locked
  /\ \/ t \notin Locks
     \/ t = O.RDLCK /\ ~Readable(fd)
     \/ t = O.WRLCK /\ ~Writable(fd)
     \/ desc[table[fd]].file \in busy /\ t # O.UNLCK
  /\ Answer(Failure)

OthersLock(f) ==
  /\ lock[f] = O.UNLCK
  /\ busy' = IF f \in busy THEN busy \ {f} ELSE busy \cup {f}
  /\ UNCHANGED <<table, cloexec, desc, exists, written, lock, ret, dead>>

Access(f) == Answer(IF f \in exists THEN Success({}) ELSE Failure)
=============================================================================
