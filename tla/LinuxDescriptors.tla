-------------------------- MODULE LinuxDescriptors --------------------------
(***************************************************************************)
(* What a Linux program relies on when it opens, duplicates, locks and     *)
(* closes files: UnixDescriptors in Linux's numbers.  A call may be        *)
(* refused, and the process may end, at any time; what is done is done     *)
(* right.                                                                  *)
(***************************************************************************)
EXTENDS UnixDescriptors

CONSTANTS
  Objects,    \* the files of shared memory objects
  FlagSets    \* the flags the program opens files with

Refused == Answer(Failure)

Died ==
  /\ dead' = TRUE
  /\ UNCHANGED <<table, cloexec, desc, files, ret>>

\* Whether exec closes the descriptor of a shared memory object is left open.
ShmOpen(fd, d, n, F) ==
  \/ OpenFile(fd, d, n, F \cup {O.CLOEXEC})
  \/ OpenFile(fd, d, n, F \ {O.CLOEXEC})

\* One end can be read and the other written; each may allow both.
NewPipe(r, w, d, e, F) ==
  \E R \in {{}, {O.RDWR}}, W \in {{O.WRONLY}, {O.RDWR}} :
    Pipe(r, w, d, e, R, W, F)

Next ==
  \/ Refused \/ Died \/ Exec
  \/ \E f \in Files : Access(f)
  \/ \E f \in Locked : OthersLock(f)
  \/ \E fd \in Fds :
       \/ Close(fd) \/ GetFd(fd) \/ GetFl(fd) \/ Write(fd)
       \/ \E C \in SUBSET {0} : SetFd(fd, C) \/ \E new \in Fds : Dup(fd, new, C)
       \/ \E S \in SUBSET (Mode \cup Status) : SetFl(fd, S)
       \/ \E t \in Locks : SetLock(fd, t)
  \/ \E fd \in Fds, d \in Descs, F \in FlagSets :
       \/ \E f \in Files \ Objects : OpenFile(fd, d, f, F)
       \/ \E f \in Objects : ShmOpen(fd, d, f, F)
       \/ \E w \in Fds, e \in Descs : NewPipe(fd, w, d, e, F)

Spec == Init /\ [][Next]_vars
=============================================================================
