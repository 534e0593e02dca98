------------------------- MODULE DescriptorsProofs -------------------------
(* What Descriptors promises for any descriptors, descriptions, paths and  *)
(* flags: its types, and that every step is one of Linux's.                *)
EXTENDS Descriptors, TLAPS

\* The kernel's descriptions, as FreeBSD has them.
NativeDescs == [file : NativeFiles \cup {PIPE}, flags : SUBSET (Native!Mode \cup Native!Status)]

\* What every step keeps: descriptors in use have a description, and files
\* that are there, not empty or locked have FreeBSD's names.
DescriptorsIInv ==
  /\ TypeOK
  /\ desc \in [Descs -> NativeDescs \cup {NONE}]
  /\ \A fd \in Native!Open : desc[table[fd]] # NONE
  /\ exists \subseteq NativeFiles /\ written \subseteq NativeFiles /\ busy \subseteq NativeFiles
  /\ ret \in [ok : BOOLEAN, flags : SUBSET KNOWN_LINUX_OPEN_FLAGS]

-----------------------------------------------------------------------------
(* Numbers and files                                                       *)

LEMMA NativeNumbers ==
  /\ Native!Mode = {0, 1} /\ Native!Status = {3, 2} /\ Native!Locks = {1, 3, 2}
  /\ Native_O.RDWR = 1 /\ Native_O.WRONLY = 0 /\ Native_O.UNLCK = 2
  BY DEF Native!Mode, Native!Status, Native!Locks, Native_O

LEMMA NoDescIsNone == NONE \notin NativeDescs
<1> SUFFICES ASSUME NONE \in NativeDescs PROVE FALSE
  OBVIOUS
<1>1. PICK f \in NativeFiles \cup {PIPE}, F \in SUBSET {0, 1, 2, 3} :
        NONE = [file |-> f, flags |-> F]
  BY NativeNumbers DEF NativeDescs
<1> QED
  BY <1>1, NoneAssumption

LEMMA KnownFlags == 0..1 \cup {6, 7, 9, 10, 11, 19} \subseteq KNOWN_LINUX_OPEN_FLAGS
  BY DEF KNOWN_LINUX_OPEN_FLAGS

LEMMA Replaced == \A p \in Visible : redirect(p) \in NativeFiles
  BY DEF NativeFiles

LEMMA LockedFiles == {redirect(p) : p \in Locked} \subseteq NativeFiles
  BY PathsOK, Replaced

LEMMA Answers ==
  /\ Native!Success({}) \in [ok : BOOLEAN, flags : SUBSET KNOWN_LINUX_OPEN_FLAGS]
  /\ Native!Success({0}) \in [ok : BOOLEAN, flags : SUBSET KNOWN_LINUX_OPEN_FLAGS]
  /\ Native!Failure \in [ok : BOOLEAN, flags : SUBSET KNOWN_LINUX_OPEN_FLAGS]
  BY KnownFlags DEF Native!Success, Native!Failure

-----------------------------------------------------------------------------
(* Types                                                                   *)

LEMMA DescriptorsStart == Init => DescriptorsIInv
<1> SUFFICES ASSUME Init PROVE DescriptorsIInv
  OBVIOUS
<1>1. /\ table = [fd \in Fds |-> NONE] /\ cloexec = {}
      /\ desc = [d \in Descs |-> NONE]
      /\ exists \in {Devices, NativeFiles} /\ written = Native!Regular \cap exists
      /\ lock = [f \in {redirect(p) : p \in Locked} |-> Native_O.UNLCK] /\ busy = {}
      /\ ret = Native!Success({}) /\ dead = FALSE
  BY DEF Init, Native!Init
<1>2. Native!Open = {}
  BY <1>1 DEF Native!Open
<1>3. Native!Success({}).flags = {}
  BY DEF Native!Success
<1>4. exists \subseteq NativeFiles /\ written \subseteq NativeFiles
  BY <1>1 DEF Devices
<1> QED
  BY <1>1, <1>2, <1>3, <1>4, NativeNumbers, Answers DEF DescriptorsIInv, TypeOK

\* A call that only answers.
LEMMA AnswerKeeps ==
  ASSUME DescriptorsIInv, NEW r \in [ok : BOOLEAN, flags : SUBSET KNOWN_LINUX_OPEN_FLAGS],
         Native!Answer(r)
  PROVE  DescriptorsIInv'
<1>1. UNCHANGED <<table, cloexec, desc, exists, written, lock, busy, dead>> /\ ret' = r
  BY DEF Native!Answer, Native!files
<1> QED
  BY <1>1 DEF DescriptorsIInv, TypeOK, Native!Open

\* A description of a file, for a descriptor that was free.
LEMMA OpenKeeps ==
  ASSUME DescriptorsIInv, NEW fd \in Fds, NEW d \in Descs, NEW f \in NativeFiles, NEW F,
         Native!OpenFile(fd, d, f, F)
  PROVE  DescriptorsIInv'
<1> DEFINE new == [file |-> f, flags |-> F \cap (Native!Mode \cup Native!Status)]
<1>1. /\ fd \in Fds /\ fd \notin Native!Open /\ desc[d] = NONE
      /\ table' = [table EXCEPT ![fd] = d] /\ desc' = [desc EXCEPT ![d] = new]
      /\ cloexec' \subseteq cloexec \cup {fd} /\ exists' = exists \cup {f}
      /\ written' \subseteq written /\ UNCHANGED <<lock, busy, dead>>
      /\ ret' = Native!Success({})
  BY DEF Native!OpenFile, Native!NewDesc, Native!Free, Native!FreeDesc
<1>2. new \in NativeDescs /\ new # NONE
  <2>1. new \in NativeDescs
    BY DEF NativeDescs
  <2> QED
    BY <2>1, NoDescIsNone
<1> HIDE DEF new
<1>3. /\ table' \in [Fds -> Descs \cup {NONE}] /\ desc' \in [Descs -> NativeDescs \cup {NONE}]
  BY <1>1, <1>2 DEF DescriptorsIInv, TypeOK
<1>4. Native!Open' = Native!Open \cup {fd}
  BY <1>1, NoneAssumption DEF DescriptorsIInv, TypeOK, Native!Open
<1>5. \A x \in Native!Open' : desc'[table'[x]] # NONE
  BY <1>1, <1>2, <1>4 DEF DescriptorsIInv, TypeOK, Native!Open
<1>6. \A e \in Descs : desc'[e] # NONE => /\ desc'[e].file \in NativeFiles \cup {PIPE}
                                          /\ desc'[e].flags \subseteq Native!Mode \cup Native!Status
  BY <1>3 DEF NativeDescs
<1>7. ret'.flags \subseteq KNOWN_LINUX_OPEN_FLAGS
  BY <1>1, Answers
<1>8. UNCHANGED <<Native!Mode, Native!Status, Native!Locks>>
  BY DEF Native!Mode, Native!Status, Native!Locks
<1> QED
  BY <1>1, <1>3, <1>4, <1>5, <1>6, <1>7, <1>8, Answers DEF DescriptorsIInv, TypeOK

\* What is left of an invariant when the descriptions are what they were, or fewer.
LEMMA KernelKeeps ==
  ASSUME DescriptorsIInv,
         table' \in [Fds -> Descs \cup {NONE}], desc' \in [Descs -> NativeDescs \cup {NONE}],
         cloexec' \subseteq Native!Open', \A fd \in Native!Open' : desc'[table'[fd]] # NONE,
         lock' \in [{redirect(p) : p \in Locked} -> Native!Locks],
         exists' \subseteq NativeFiles, written' \subseteq NativeFiles, busy' \subseteq NativeFiles,
         ret' \in [ok : BOOLEAN, flags : SUBSET KNOWN_LINUX_OPEN_FLAGS], dead' \in BOOLEAN
  PROVE  DescriptorsIInv'
<1>1. \A e \in Descs : desc'[e] # NONE => /\ desc'[e].file \in NativeFiles \cup {PIPE}
                                          /\ desc'[e].flags \subseteq Native!Mode \cup Native!Status
  BY DEF NativeDescs
<1>2. ret'.flags \subseteq KNOWN_LINUX_OPEN_FLAGS
  OBVIOUS
<1> QED
  BY <1>1, <1>2 DEF DescriptorsIInv, TypeOK

\* Two descriptions, one for either end of a pipe.
LEMMA PipeKeeps ==
  ASSUME DescriptorsIInv, NEW r \in Fds, NEW w \in Fds, NEW d \in Descs, NEW e \in Descs, NEW F,
         Native!Pipe(r, w, d, e, {Native_O.RDWR}, {Native_O.RDWR}, F)
  PROVE  DescriptorsIInv'
<1> DEFINE new == [file |-> PIPE, flags |-> (F \cap Native!Status) \cup {Native_O.RDWR}]
<1>1. /\ r \notin Native!Open /\ w \notin Native!Open /\ d # e
      /\ desc[d] = NONE /\ desc[e] = NONE
      /\ table' = [table EXCEPT ![r] = d, ![w] = e]
      /\ desc' = [desc EXCEPT ![d] = new, ![e] = new]
      /\ cloexec' \subseteq cloexec \cup {r, w} /\ ret' = Native!Success({})
      /\ UNCHANGED <<exists, written, lock, busy, dead>>
  BY DEF Native!Pipe, Native!Free, Native!FreeDesc, Native!files
<1>2. new \in NativeDescs /\ new # NONE
  <2>1. new \in NativeDescs
    BY NativeNumbers DEF NativeDescs
  <2> QED
    BY <2>1, NoDescIsNone
<1> HIDE DEF new
<1>3. table' \in [Fds -> Descs \cup {NONE}] /\ desc' \in [Descs -> NativeDescs \cup {NONE}]
  BY <1>1, <1>2 DEF DescriptorsIInv, TypeOK
<1>4. Native!Open' = Native!Open \cup {r, w}
  BY <1>1, NoneAssumption DEF DescriptorsIInv, TypeOK, Native!Open
<1>5. \A x \in Native!Open' : desc'[table'[x]] # NONE
  BY <1>1, <1>2, <1>4 DEF DescriptorsIInv, TypeOK, Native!Open
<1> QED
  BY <1>1, <1>3, <1>4, <1>5, Answers, KernelKeeps DEF DescriptorsIInv, TypeOK

\* Another descriptor for a description that is in use.
LEMMA DupKeeps ==
  ASSUME DescriptorsIInv, NEW fd \in Fds, NEW new \in Fds, NEW C, Native!Dup(fd, new, C)
  PROVE  DescriptorsIInv'
<1>1. /\ fd \in Native!Open /\ new \notin Native!Open
      /\ table' = [table EXCEPT ![new] = table[fd]]
      /\ cloexec' \subseteq cloexec \cup {new} /\ ret' = Native!Success({})
      /\ UNCHANGED <<desc, exists, written, lock, busy, dead>>
  BY DEF Native!Dup, Native!Free, Native!files
<1>2. table' \in [Fds -> Descs \cup {NONE}]
  BY <1>1 DEF DescriptorsIInv, TypeOK
<1>3. Native!Open' = Native!Open \cup {new}
  BY <1>1 DEF DescriptorsIInv, TypeOK, Native!Open
<1>4. \A x \in Native!Open' : desc'[table'[x]] # NONE
  BY <1>1, <1>3 DEF DescriptorsIInv, TypeOK, Native!Open
<1> QED
  BY <1>1, <1>2, <1>3, <1>4, Answers, KernelKeeps DEF DescriptorsIInv, TypeOK

\* Descriptors are closed; descriptions that nobody refers to are gone.
LEMMA CloseKeeps ==
  ASSUME DescriptorsIInv, NEW S, Native!CloseAll(S)
  PROVE  DescriptorsIInv'
<1>1. /\ table' = [fd \in Fds |-> IF fd \in S THEN NONE ELSE table[fd]]
      /\ desc' = [d \in Descs |-> IF \E fd \in Fds : table'[fd] = d THEN desc[d] ELSE NONE]
      /\ cloexec' = cloexec \ S
      /\ lock' = [f \in {redirect(p) : p \in Locked} |->
                    IF Native!OfFile(f) \cap S = {} THEN lock[f] ELSE Native_O.UNLCK]
      /\ ret' = Native!Success({}) /\ UNCHANGED <<exists, written, busy, dead>>
  BY DEF Native!CloseAll
<1>2. table' \in [Fds -> Descs \cup {NONE}] /\ desc' \in [Descs -> NativeDescs \cup {NONE}]
  BY <1>1 DEF DescriptorsIInv, TypeOK
<1>3. Native!Open' = Native!Open \ S
  BY <1>1 DEF DescriptorsIInv, TypeOK, Native!Open
<1>4. \A x \in Native!Open' : desc'[table'[x]] # NONE
  BY <1>1, <1>2, <1>3 DEF DescriptorsIInv, TypeOK, Native!Open
<1>5. lock' \in [{redirect(p) : p \in Locked} -> Native!Locks]
  BY <1>1, NativeNumbers DEF DescriptorsIInv, TypeOK
<1> QED
  BY <1>1, <1>2, <1>3, <1>4, <1>5, Answers, KernelKeeps DEF DescriptorsIInv, TypeOK

\* The status flags of a description.
LEMMA SetFlKeeps ==
  ASSUME DescriptorsIInv, NEW fd \in Fds, NEW F, Native!SetFl(fd, F)
  PROVE  DescriptorsIInv'
<1> DEFINE d == table[fd]
           new == [desc[d] EXCEPT !.flags = (@ \cap Native!Mode) \cup (F \cap Native!Status)]
<1>1. /\ fd \in Native!Open /\ desc' = [desc EXCEPT ![d] = new] /\ ret' = Native!Success({})
      /\ UNCHANGED <<table, cloexec, exists, written, lock, busy, dead>>
  BY DEF Native!SetFl, Native!files
<1>2. d \in Descs /\ desc[d] \in NativeDescs
  BY <1>1 DEF DescriptorsIInv, TypeOK, Native!Open
<1>3. new \in NativeDescs
  BY <1>2 DEF NativeDescs
<1>4. new # NONE
  BY <1>3, NoDescIsNone
<1> HIDE DEF new, d
<1>5. desc' \in [Descs -> NativeDescs \cup {NONE}]
  BY <1>1, <1>2, <1>3 DEF DescriptorsIInv
<1>6. Native!Open' = Native!Open
  BY <1>1 DEF Native!Open
<1>7. \A x \in Native!Open' : desc'[table'[x]] # NONE
  BY <1>1, <1>2, <1>4, <1>6 DEF DescriptorsIInv, TypeOK, Native!Open
<1> QED
  BY <1>1, <1>5, <1>6, <1>7, Answers, KernelKeeps DEF DescriptorsIInv, TypeOK

\* Calls that leave descriptors and descriptions alone.
LEMMA FilesKeep ==
  ASSUME DescriptorsIInv, UNCHANGED <<table, desc, exists, dead>>,
         cloexec' \subseteq Native!Open,
         written' \subseteq NativeFiles, busy' \subseteq NativeFiles,
         lock' \in [{redirect(p) : p \in Locked} -> Native!Locks],
         ret' \in [ok : BOOLEAN, flags : SUBSET KNOWN_LINUX_OPEN_FLAGS]
  PROVE  DescriptorsIInv'
<1>1. Native!Open' = Native!Open
  BY DEF Native!Open
<1> QED
  BY <1>1, KernelKeeps DEF DescriptorsIInv, TypeOK

LEMMA SetFdKeeps ==
  ASSUME DescriptorsIInv, NEW fd \in Fds, NEW C, Native!SetFd(fd, C)
  PROVE  DescriptorsIInv'
<1>1. /\ fd \in Native!Open /\ cloexec' \subseteq cloexec \cup {fd} /\ ret' = Native!Success({})
      /\ UNCHANGED <<table, desc, exists, written, lock, busy, dead>>
  BY DEF Native!SetFd, Native!files
<1> QED
  BY <1>1, Answers, FilesKeep DEF DescriptorsIInv, TypeOK

LEMMA WriteKeeps ==
  ASSUME DescriptorsIInv, NEW fd \in Fds, Native!Write(fd)
  PROVE  DescriptorsIInv'
<1>1. /\ written' = written \cup ({desc[table[fd]].file} \cap Native!Regular)
      /\ ret' = Native!Success({})
      /\ UNCHANGED <<table, cloexec, desc, exists, lock, busy, dead>>
  BY DEF Native!Write
<1>2. Native!Regular \subseteq NativeFiles
  BY DEF Native!Regular
<1> QED
  BY <1>1, <1>2, Answers, FilesKeep DEF DescriptorsIInv, TypeOK

LEMMA SetLockKeeps ==
  ASSUME DescriptorsIInv, NEW fd \in Fds, NEW t, Native!SetLock(fd, t)
  PROVE  DescriptorsIInv'
<1>1. /\ t \in Native!Locks
      /\ lock' = [lock EXCEPT ![desc[table[fd]].file] = t] /\ ret' = Native!Success({})
      /\ UNCHANGED <<table, cloexec, desc, exists, written, busy, dead>>
  BY DEF Native!SetLock
<1>2. lock' \in [{redirect(p) : p \in Locked} -> Native!Locks]
  BY <1>1 DEF DescriptorsIInv, TypeOK
<1> QED
  BY <1>1, <1>2, Answers, FilesKeep DEF DescriptorsIInv, TypeOK

LEMMA OthersLockKeeps ==
  ASSUME DescriptorsIInv, NEW p \in Locked, Native!OthersLock(redirect(p))
  PROVE  DescriptorsIInv'
<1>1. /\ busy' \subseteq busy \cup {redirect(p)}
      /\ UNCHANGED <<table, cloexec, desc, exists, written, lock, ret, dead>>
  BY DEF Native!OthersLock
<1> QED
  BY <1>1, LockedFiles, FilesKeep DEF DescriptorsIInv, TypeOK

LEMMA DescriptorsStep == DescriptorsIInv /\ [Next]_vars => DescriptorsIInv'
<1> SUFFICES ASSUME DescriptorsIInv, [Next]_vars PROVE DescriptorsIInv'
  OBVIOUS
<1>1. ASSUME Native!Answer(Native!Failure) PROVE DescriptorsIInv'
  BY <1>1, Answers, AnswerKeeps
<1>2. ASSUME Native!Answer(Native!Success({})) PROVE DescriptorsIInv'
  BY <1>2, Answers, AnswerKeeps
<1>3. ASSUME Abort PROVE DescriptorsIInv'
  <2>1. UNCHANGED <<table, cloexec, desc, exists, written, lock, busy, ret>> /\ dead' \in BOOLEAN
    BY <1>3 DEF Abort, kernel
  <2> QED
    BY <2>1 DEF DescriptorsIInv, TypeOK, Native!Open
<1>4. ASSUME NEW p \in Paths, OpenHidden(p) \/ Access(p) PROVE DescriptorsIInv'
  BY <1>1, <1>2, <1>4 DEF OpenHidden, Access, Refuse, Native!Access
<1>5. ASSUME NEW p \in Paths, NEW F \in FlagSets, OpenTmpfile(p, F) PROVE DescriptorsIInv'
  BY <1>1, <1>5 DEF OpenTmpfile, Refuse
<1>6. ASSUME NEW p \in Paths, NEW F \in FlagSets, Open(p, F) PROVE DescriptorsIInv'
  <2>1. redirect(p) \in NativeFiles
    BY <1>6, Replaced DEF Open, Visible
  <2> QED
    BY <1>1, <1>6, <2>1, OpenKeeps DEF Open, Native!OpenFails
<1>7. ASSUME NEW F \in FlagSets, NEW n \in Objects, ShmOpen(n, F) PROVE DescriptorsIInv'
  <2>1. n \in NativeFiles
    BY DEF NativeFiles
  <2> QED
    BY <1>1, <1>7, <2>1, OpenKeeps DEF ShmOpen, Native!OpenFails
<1>8. ASSUME NEW F \in FlagSets, Pipe2(F) PROVE DescriptorsIInv'
  BY <1>8, PipeKeeps DEF Pipe2
<1>9. ASSUME NEW fd \in Fds, GetFd(fd) PROVE DescriptorsIInv'
  <2>1. Native!Answer(Native!Success({})) \/ Native!Answer(Native!Success({0}))
    BY <1>9 DEF GetFd, Native!GetFd
  <2> QED
    BY <2>1, Answers, AnswerKeeps
<1>10. ASSUME NEW fd \in Fds, GetFl(fd) PROVE DescriptorsIInv'
  <2> DEFINE F == ToLinux(GetFlFlags, Native!Flags(fd))
  <2>1. F \subseteq KNOWN_LINUX_OPEN_FLAGS
    BY KnownFlags DEF ToLinux, GetFlFlags
  <2>2. Native!Success(F) \in [ok : BOOLEAN, flags : SUBSET KNOWN_LINUX_OPEN_FLAGS]
    BY <2>1 DEF Native!Success
  <2>3. Native!Answer(Native!Success(F))
    BY <1>10 DEF GetFl
  <2> QED
    BY <2>2, <2>3, AnswerKeeps
<1>11. ASSUME NEW fd \in Fds, GetFlAsserts(fd) PROVE DescriptorsIInv'
  BY <1>3, <1>11 DEF GetFlAsserts
<1>12. ASSUME NEW fd \in Fds, NEW C \in SUBSET {0}, SetFd(fd, C) PROVE DescriptorsIInv'
  BY <1>12, SetFdKeeps DEF SetFd
<1>13. ASSUME NEW fd \in Fds, NEW F, SetFl(fd, F) \/ SetFlAsserts(fd, F) PROVE DescriptorsIInv'
  BY <1>3, <1>13, SetFlKeeps DEF SetFl, SetFlAsserts
<1>14. ASSUME NEW fd \in Fds, NEW t, SetLock(fd, t) PROVE DescriptorsIInv'
  BY <1>1, <1>14, SetLockKeeps DEF SetLock, Native!SetLockFails
<1>15. ASSUME NEW fd \in Fds, NEW new \in Fds, DupfdCloexec(fd, new) \/ NativeDup(fd, new)
       PROVE  DescriptorsIInv'
  BY <1>15, DupKeeps DEF DupfdCloexec, NativeDup
<1>16. ASSUME NEW fd \in Fds, write(fd) PROVE DescriptorsIInv'
  BY <1>1, <1>16, WriteKeeps DEF write, Native!WriteFails
<1>17. ASSUME NEW fd \in Fds, close(fd) PROVE DescriptorsIInv'
  BY <1>17, CloseKeeps DEF close, Native!Close
<1>18. ASSUME NativeExec PROVE DescriptorsIInv'
  BY <1>18, CloseKeeps DEF NativeExec, Native!Exec
<1>19. ASSUME NEW p \in Locked, Native!OthersLock(redirect(p)) PROVE DescriptorsIInv'
  BY <1>19, OthersLockKeeps
<1>20. CASE UNCHANGED vars
  BY <1>20 DEF DescriptorsIInv, TypeOK, Native!Open, vars, kernel
<1> QED
  BY <1>4, <1>5, <1>6, <1>7, <1>8, <1>9, <1>10, <1>11, <1>12, <1>13, <1>14, <1>15, <1>16,
     <1>17, <1>18, <1>19, <1>20 DEF Next

\* The inductive invariant: descriptors refer to descriptions, and files have
\* FreeBSD's names.
THEOREM DescriptorsIInvCorrect == Spec => []DescriptorsIInv
<1> QED
  BY DescriptorsStart, DescriptorsStep, PTL DEF Spec

\* Flags that the program is told are Linux's, those that the kernel keeps
\* FreeBSD's, and only open descriptors are closed by exec.
THEOREM TypeCorrect == Spec => []TypeOK
<1>1. DescriptorsIInv => TypeOK
  BY DEF DescriptorsIInv
<1> QED
  BY DescriptorsIInvCorrect, <1>1, PTL

-----------------------------------------------------------------------------
(* Linux's names and numbers                                               *)

\* A replacement has the name of a path that it replaces.
LEMMA PathOfPath ==
  \A p \in Visible : /\ PathOf[redirect(p)] \in Visible
                     /\ redirect(PathOf[redirect(p)]) = redirect(p)
<1> SUFFICES ASSUME NEW p \in Visible
             PROVE  /\ PathOf[redirect(p)] \in Visible
                    /\ redirect(PathOf[redirect(p)]) = redirect(p)
  OBVIOUS
<1>1. PathOf[redirect(p)] = CHOOSE q \in Visible : redirect(q) = redirect(p)
  BY Replaced DEF PathOf
<1> QED
  BY <1>1

LEMMA PathOfObject == \A n \in Objects : PathOf[n] = n
  BY PathsOK DEF PathOf, NativeFiles

LEMMA PathOfPipe == PathOf[PIPE] = PIPE
  BY PathsOK, Replaced DEF PathOf

\* Either a path's replacement, or an object.
LEMMA FileKinds ==
  ASSUME NEW f \in NativeFiles
  PROVE  \/ PathOf[f] \in Visible /\ redirect(PathOf[f]) = f
         \/ f \in Objects /\ PathOf[f] = f
  BY PathOfPath, PathOfObject DEF NativeFiles

\* No two files have one name.
LEMMA NamesDiffer ==
  \A f, g \in NativeFiles \cup {PIPE} : PathOf[f] = PathOf[g] => f = g
<1>1. Visible \subseteq Paths
  BY DEF Visible
<1>2. PIPE \notin Visible /\ PIPE \notin Objects /\ Visible \cap Objects = {}
  BY <1>1, PathsOK DEF NativeFiles
<1>3. \A f \in NativeFiles : PathOf[f] # PIPE
  BY <1>2, FileKinds
<1>4. \A f, g \in NativeFiles : PathOf[f] = PathOf[g] => f = g
  BY <1>2, FileKinds
<1> QED
  BY <1>3, <1>4, PathOfPipe

\* Sets of files are the same sets under their names.
LEMMA NamedSets ==
  ASSUME NEW S, S \subseteq NativeFiles, NEW f \in NativeFiles \cup {PIPE}
  PROVE  /\ PathOf[f] \in Named(S) <=> f \in S
         /\ Named(S \cup {f}) = Named(S) \cup {PathOf[f]}
         /\ Named(S \ {f}) = Named(S) \ {PathOf[f]}
         /\ Named(S) \subseteq Named(NativeFiles)
  BY NamesDiffer DEF Named

LEMMA LinuxNumbersAre ==
  /\ Linux!Mode = {0, 1} /\ Linux!Status = {10, 11} /\ Linux!Locks = {0, 1, 2}
  /\ Linux_O.WRONLY = 0 /\ Linux_O.RDWR = 1 /\ Linux_O.CREAT = 6 /\ Linux_O.EXCL = 7
  /\ Linux_O.TRUNC = 9 /\ Linux_O.CLOEXEC = 19 /\ Linux_O.NONBLOCK = 11
  /\ Linux_O.RDLCK = 0 /\ Linux_O.WRLCK = 1 /\ Linux_O.UNLCK = 2
  BY DEF Linux!Mode, Linux!Status, Linux!Locks, Linux_O

LEMMA NativeNumbersAre ==
  /\ Native_O.CREAT = 9 /\ Native_O.EXCL = 11 /\ Native_O.TRUNC = 10
  /\ Native_O.CLOEXEC = 20 /\ Native_O.RDLCK = 1 /\ Native_O.WRLCK = 3
  BY DEF Native_O

\* Every bit has one other.
LEMMA OpenFlagsPaired ==
  \A a, b \in OpenFlags : /\ a[1] = b[1] <=> a = b
                          /\ a[2] = b[2] <=> a = b
  BY DEF OpenFlags

LEMMA OpenFlagsKnown ==
  /\ {<<0, 0>>, <<1, 1>>, <<6, 9>>, <<7, 11>>, <<9, 10>>, <<10, 3>>, <<11, 2>>, <<19, 20>>}
       \subseteq OpenFlags
  /\ \A a \in OpenFlags : a[2] \in {0, 1, 2, 3} => a[1] \in {0, 1, 10, 11}
  BY DEF OpenFlags

LEMMA FlagsThere ==
  ASSUME NEW F
  PROVE  \A a \in OpenFlags : /\ a[2] \in ToNative(OpenFlags, F) <=> a[1] \in F
                              /\ a[1] \in ToLinux(OpenFlags, F) <=> a[2] \in F
  BY OpenFlagsPaired DEF ToNative, ToLinux

\* A description's flags, bit by bit.
LEMMA LinuxFlagsAre ==
  ASSUME NEW N \in SUBSET {0, 1, 2, 3}
  PROVE  /\ LinuxFlags[N] \subseteq {0, 1, 10, 11}
         /\ (0 \in LinuxFlags[N] <=> 0 \in N) /\ (1 \in LinuxFlags[N] <=> 1 \in N)
         /\ (11 \in LinuxFlags[N] <=> 2 \in N) /\ (10 \in LinuxFlags[N] <=> 3 \in N)
<1>1. N \in SUBSET (Native!Mode \cup Native!Status)
  BY NativeNumbers
<1>2. LinuxFlags[N] = ToLinux(OpenFlags, N)
  BY <1>1 DEF LinuxFlags
<1>3. LinuxFlags[N] \subseteq {0, 1, 10, 11}
  BY <1>2, OpenFlagsKnown DEF ToLinux
<1>4. \A a \in OpenFlags : a[1] \in LinuxFlags[N] <=> a[2] \in N
  BY <1>2, FlagsThere
<1>5. {<<0, 0>>, <<1, 1>>, <<10, 3>>, <<11, 2>>} \subseteq OpenFlags
  BY OpenFlagsKnown
<1> QED
  BY ONLY <1>3, <1>4, <1>5

\* What open() converts comes back as it was, and does what it did.
LEMMA OpenFlagsAre ==
  ASSUME NEW F, NEW N, N = linux_to_native_open_flags(F)
  PROVE  /\ LinuxFlags[N \cap (Native!Mode \cup Native!Status)]
              = F \cap (Linux!Mode \cup Linux!Status)
         /\ (Native_O.CREAT \in N <=> Linux_O.CREAT \in F)
         /\ (Native_O.EXCL \in N <=> Linux_O.EXCL \in F)
         /\ (Native_O.TRUNC \in N <=> Linux_O.TRUNC \in F)
         /\ (Native_O.CLOEXEC \in N <=> Linux_O.CLOEXEC \in F)
<1>1. /\ (9 \in N <=> 6 \in F) /\ (11 \in N <=> 7 \in F) /\ (10 \in N <=> 9 \in F)
      /\ (20 \in N <=> 19 \in F)
      /\ (0 \in N <=> 0 \in F) /\ (1 \in N <=> 1 \in F) /\ (2 \in N <=> 11 \in F)
      /\ (3 \in N <=> 10 \in F)
  <2>1. \A a \in OpenFlags : a[2] \in N <=> a[1] \in F
    BY FlagsThere DEF linux_to_native_open_flags
  <2> QED
    BY ONLY <2>1, OpenFlagsKnown
<1> DEFINE K == N \cap {0, 1, 2, 3}
<1>2. LinuxFlags[K] = F \cap {0, 1, 10, 11}
  <2>1. K \in SUBSET {0, 1, 2, 3}
    OBVIOUS
  <2>2. /\ LinuxFlags[K] \subseteq {0, 1, 10, 11}
        /\ (0 \in LinuxFlags[K] <=> 0 \in K) /\ (1 \in LinuxFlags[K] <=> 1 \in K)
        /\ (11 \in LinuxFlags[K] <=> 2 \in K) /\ (10 \in LinuxFlags[K] <=> 3 \in K)
    BY <2>1, LinuxFlagsAre
  <2> QED
    BY <1>1, <2>2
<1>3. N \cap (Native!Mode \cup Native!Status) = K /\ Linux!Mode \cup Linux!Status = {0, 1, 10, 11}
  BY NativeNumbers, LinuxNumbersAre
<1> QED
  BY <1>1, <1>2, <1>3, NativeNumbersAre, LinuxNumbersAre

LEMMA SomeFlagsAre ==
  /\ \A F \in SUBSET {1, 6, 7, 9} : linux_to_native_shm_flags(F) = linux_to_native_open_flags(F)
  /\ \A F \in SUBSET {11, 19} : linux_to_native_pipe_flags(F) = linux_to_native_open_flags(F)
  BY DEF linux_to_native_shm_flags, linux_to_native_pipe_flags, linux_to_native_open_flags,
         ToNative, OpenFlags

-----------------------------------------------------------------------------
(* The state as Linux has it                                               *)

LinuxDescOf(e) == [file |-> PathOf[e.file], flags |-> LinuxFlags[e.flags]]

\* Descriptions are Linux's; so is what descriptors refer to.
SeenAs ==
  /\ LinuxDesc = [d \in Descs |-> IF desc[d] = NONE THEN NONE ELSE LinuxDescOf(desc[d])]
  /\ \A d \in Descs : LinuxDesc[d] = NONE <=> desc[d] = NONE
  /\ Linux!Open = Native!Open /\ Linux!Free = Native!Free /\ Linux!FreeDesc = Native!FreeDesc
  /\ \A fd \in Native!Open :
       /\ table[fd] \in Descs /\ desc[table[fd]] \in NativeDescs
       /\ LinuxDesc[table[fd]].file = PathOf[desc[table[fd]].file]
       /\ Linux!Flags(fd) = LinuxFlags[Native!Flags(fd)]
       /\ Linux!Writable(fd) <=> Native!Writable(fd)
       /\ Linux!Readable(fd) <=> Native!Readable(fd)

\* What descriptions become is no NONE either.
LEMMA LinuxDescIsNone == \A e \in NativeDescs : LinuxDescOf(e) # NONE
<1> SUFFICES ASSUME NEW e \in NativeDescs PROVE LinuxDescOf(e) # NONE
  OBVIOUS
<1>1. e.file \in NativeFiles \cup {PIPE} /\ e.flags \in SUBSET {0, 1, 2, 3}
  BY NativeNumbers DEF NativeDescs
<1>2. PathOf[e.file] \in NativeFiles \cup Paths \cup {PIPE}
  <2>1. Visible \subseteq Paths /\ Objects \subseteq NativeFiles
    BY DEF Visible, NativeFiles
  <2> QED
    BY <1>1, <2>1, FileKinds, PathOfPipe
<1>3. LinuxFlags[e.flags] \in SUBSET {0, 1, 2, 3, 10, 11}
  BY <1>1, LinuxFlagsAre
<1> QED
  BY <1>2, <1>3, NoneAssumption DEF LinuxDescOf

LEMMA Seen == DescriptorsIInv => SeenAs
<1> SUFFICES ASSUME DescriptorsIInv PROVE SeenAs
  OBVIOUS
<1>1. LinuxDesc = [d \in Descs |-> IF desc[d] = NONE THEN NONE ELSE LinuxDescOf(desc[d])]
  BY DEF LinuxDesc, LinuxDescOf
<1>2. \A d \in Descs : desc[d] # NONE => desc[d] \in NativeDescs
  BY DEF DescriptorsIInv
<1>3. \A d \in Descs : LinuxDesc[d] = NONE <=> desc[d] = NONE
  BY <1>1, <1>2, LinuxDescIsNone
<1>4. Linux!Open = Native!Open /\ Linux!Free = Native!Free /\ Linux!FreeDesc = Native!FreeDesc
  BY <1>3 DEF Linux!Open, Native!Open, Linux!Free, Native!Free, Linux!FreeDesc, Native!FreeDesc
<1>5. ASSUME NEW fd \in Native!Open
      PROVE  /\ table[fd] \in Descs /\ desc[table[fd]] \in NativeDescs
             /\ LinuxDesc[table[fd]].file = PathOf[desc[table[fd]].file]
             /\ Linux!Flags(fd) = LinuxFlags[Native!Flags(fd)]
             /\ Linux!Writable(fd) <=> Native!Writable(fd)
             /\ Linux!Readable(fd) <=> Native!Readable(fd)
  <2>1. table[fd] \in Descs /\ desc[table[fd]] \in NativeDescs /\ desc[table[fd]] # NONE
    BY <1>2 DEF DescriptorsIInv, TypeOK, Native!Open
  <2>2. LinuxDesc[table[fd]] = LinuxDescOf(desc[table[fd]])
    BY <1>1, <2>1
  <2>3. /\ LinuxDesc[table[fd]].file = PathOf[desc[table[fd]].file]
        /\ LinuxDesc[table[fd]].flags = LinuxFlags[desc[table[fd]].flags]
    BY <2>2 DEF LinuxDescOf
  <2>4. Linux!Flags(fd) = LinuxFlags[Native!Flags(fd)] /\ Native!Flags(fd) \in SUBSET {0, 1, 2, 3}
    BY <2>1, <2>3, NativeNumbers DEF Linux!Flags, Native!Flags, NativeDescs
  <2>5. /\ 0 \in Linux!Flags(fd) <=> 0 \in Native!Flags(fd)
        /\ 1 \in Linux!Flags(fd) <=> 1 \in Native!Flags(fd)
    BY <2>4, LinuxFlagsAre
  <2>6. /\ Linux!Writable(fd) <=> Native!Writable(fd)
        /\ Linux!Readable(fd) <=> Native!Readable(fd)
    BY <2>5, NativeNumbers, LinuxNumbersAre
    DEF Linux!Writable, Native!Writable, Linux!Readable, Native!Readable
  <2> QED
    BY <2>1, <2>3, <2>4, <2>6
<1> QED
  BY <1>1, <1>3, <1>4, <1>5 DEF SeenAs

LEMMA SeenNext == DescriptorsIInv' => SeenAs'
  BY Seen, PTL

\* A new description is a new one to Linux too.
LEMMA NewDescSeen ==
  ASSUME SeenAs, SeenAs', DescriptorsIInv, NEW d \in Descs, NEW new \in NativeDescs,
         desc' = [desc EXCEPT ![d] = new]
  PROVE  LinuxDesc' = [LinuxDesc EXCEPT ![d] = LinuxDescOf(new)]
<1>1. LinuxDesc' = [e \in Descs |-> IF desc'[e] = NONE THEN NONE ELSE LinuxDescOf(desc'[e])]
  BY DEF SeenAs, LinuxDescOf
<1>2. desc'[d] = new /\ \A e \in Descs \ {d} : desc'[e] = desc[e]
  BY DEF DescriptorsIInv
<1> QED
  BY <1>1, <1>2, NoDescIsNone DEF SeenAs

-----------------------------------------------------------------------------
(* Every call as Linux's                                                   *)

\* A file that is opened by its native name and flags N, opened as x with F.
LEMMA OpenSeen ==
  ASSUME SeenAs, SeenAs', DescriptorsIInv, NEW fd \in Fds, NEW d \in Descs,
         NEW f \in NativeFiles, NEW F, NEW N, N = linux_to_native_open_flags(F),
         Native!OpenFile(fd, d, f, N)
  PROVE  Linux!OpenFile(fd, d, PathOf[f], F)
<1> DEFINE new == [file |-> f, flags |-> N \cap (Native!Mode \cup Native!Status)]
<1>1. /\ LinuxFlags[new.flags] = F \cap (Linux!Mode \cup Linux!Status)
      /\ (Native_O.CREAT \in N <=> Linux_O.CREAT \in F)
      /\ (Native_O.EXCL \in N <=> Linux_O.EXCL \in F)
      /\ (Native_O.TRUNC \in N <=> Linux_O.TRUNC \in F)
      /\ (Native_O.CLOEXEC \in N <=> Linux_O.CLOEXEC \in F)
  BY OpenFlagsAre
<1>2. new \in NativeDescs /\ desc' = [desc EXCEPT ![d] = new]
  BY DEF NativeDescs, Native!OpenFile, Native!NewDesc
<1>3. LinuxDesc' = [LinuxDesc EXCEPT ![d] =
                      [file |-> PathOf[f], flags |-> F \cap (Linux!Mode \cup Linux!Status)]]
  <2>1. LinuxDescOf(new) = [file |-> PathOf[f], flags |-> F \cap (Linux!Mode \cup Linux!Status)]
    BY <1>1 DEF LinuxDescOf
  <2> QED
    BY <1>2, <2>1, NewDescSeen
<1>4. Linux!NewDesc(fd, d, PathOf[f], F)
  BY <1>3 DEF Native!OpenFile, Native!NewDesc, Linux!NewDesc, SeenAs,
              Native!Success, Linux!Success
<1>5. /\ f \in exists <=> PathOf[f] \in Named(exists)
      /\ Named(exists \cup {f}) = Named(exists) \cup {PathOf[f]}
      /\ Named(written \ {f}) = Named(written) \ {PathOf[f]}
  BY NamedSets DEF DescriptorsIInv
<1>6. /\ Named(exists)' = Named(exists) \cup {PathOf[f]}
      /\ Named(written)' = IF Linux_O.TRUNC \in F THEN Named(written) \ {PathOf[f]}
                           ELSE Named(written)
  BY <1>1, <1>5 DEF Native!OpenFile, Named
<1>7. UNCHANGED <<LinuxLock, Named(busy)>>
  BY DEF Native!OpenFile, LinuxLock, Named
<1> HIDE DEF new
<1> QED
  BY <1>1, <1>4, <1>5, <1>6, <1>7 DEF Native!OpenFile, Linux!OpenFile

\* FreeBSD's pipes allow more than Linux's.
LEMMA PipeSeen ==
  ASSUME SeenAs, SeenAs', DescriptorsIInv, NEW F \in SUBSET {11, 19},
         NEW r \in Fds, NEW w \in Fds, NEW d \in Descs, NEW e \in Descs,
         Native!Pipe(r, w, d, e, {Native_O.RDWR}, {Native_O.RDWR}, linux_to_native_pipe_flags(F))
  PROVE  Linux!Pipe(r, w, d, e, {Linux_O.RDWR}, {Linux_O.RDWR}, F)
<1> DEFINE N == linux_to_native_pipe_flags(F)
           new == [file |-> PIPE, flags |-> (N \cap Native!Status) \cup {Native_O.RDWR}]
           seen == [file |-> PIPE, flags |-> (F \cap Linux!Status) \cup {Linux_O.RDWR}]
<1>1. /\ (20 \in N <=> 19 \in F) /\ (2 \in N <=> 11 \in F) /\ 3 \notin N
  <2>1. N = ToNative(OpenFlags, F)
    BY SomeFlagsAre DEF linux_to_native_open_flags
  <2>2. \A a \in OpenFlags : a[2] \in N <=> a[1] \in F
    BY <2>1, FlagsThere
  <2> HIDE DEF N
  <2>3. <<10, 3>> \in OpenFlags /\ <<11, 2>> \in OpenFlags /\ <<19, 20>> \in OpenFlags
    BY OpenFlagsKnown
  <2> QED
    BY ONLY <2>2, <2>3, F \in SUBSET {11, 19}
<1>2. LinuxDescOf(new) = seen
  <2>1. new.flags \in SUBSET {0, 1, 2, 3} /\ 0 \notin new.flags /\ 1 \in new.flags
        /\ (2 \in new.flags <=> 11 \in F) /\ 3 \notin new.flags
    BY <1>1, NativeNumbers
  <2>2. LinuxFlags[new.flags] = (F \cap {10, 11}) \cup {1}
    BY <2>1, LinuxFlagsAre
  <2> QED
    BY <2>2, LinuxNumbersAre, PathOfPipe DEF LinuxDescOf
<1>3. new \in NativeDescs
  BY NativeNumbers DEF NativeDescs
<1>4. /\ {r, w} \subseteq Native!Free /\ r # w /\ {d, e} \subseteq Native!FreeDesc /\ d # e
      /\ table' = [table EXCEPT ![r] = d, ![w] = e] /\ desc' = [desc EXCEPT ![d] = new, ![e] = new]
      /\ cloexec' = IF Native_O.CLOEXEC \in N THEN cloexec \cup {r, w} ELSE cloexec
      /\ ret' = Native!Success({}) /\ UNCHANGED <<exists, written, lock, busy, dead>>
  BY DEF Native!Pipe, Native!files
<1>5. cloexec' = IF Linux_O.CLOEXEC \in F THEN cloexec \cup {r, w} ELSE cloexec
  BY <1>1, <1>4, NativeNumbersAre, LinuxNumbersAre
<1> HIDE DEF new, seen, N
<1>6. LinuxDesc' = [LinuxDesc EXCEPT ![d] = seen, ![e] = seen]
  <2>1. desc'[d] = new /\ desc'[e] = new /\ \A x \in Descs \ {d, e} : desc'[x] = desc[x]
    BY <1>4 DEF DescriptorsIInv
  <2>2. LinuxDesc' = [x \in Descs |-> IF desc'[x] = NONE THEN NONE ELSE LinuxDescOf(desc'[x])]
    BY DEF SeenAs, LinuxDescOf
  <2> QED
    BY <1>2, <1>3, <2>1, <2>2, NoDescIsNone DEF SeenAs
<1>7. UNCHANGED <<LinuxLock, Named(exists), Named(written), Named(busy)>>
  BY <1>4 DEF LinuxLock, Named
<1> QED
  BY <1>4, <1>5, <1>6, <1>7 DEF Linux!Pipe, seen, SeenAs, Linux!files, Native!Success, Linux!Success

LEMMA DupSeen ==
  ASSUME SeenAs, NEW fd \in Fds, NEW new \in Fds, NEW C, Native!Dup(fd, new, C)
  PROVE  Linux!Dup(fd, new, C)
<1>1. UNCHANGED <<LinuxDesc, LinuxLock, Named(exists), Named(written), Named(busy), dead>>
  BY DEF Native!Dup, Native!files, LinuxDesc, LinuxLock, Named
<1> QED
  BY <1>1 DEF Native!Dup, Linux!Dup, Linux!files, SeenAs, Native!Success, Linux!Success

LEMMA LockTypesAre ==
  /\ LinuxType[1] = 0 /\ LinuxType[3] = 1 /\ LinuxType[2] = 2
  /\ copy_linux_flock(0) = 1 /\ copy_linux_flock(1) = 3 /\ copy_linux_flock(2) = 2
<1>1. \A a, b \in LockTypes : (a[1] = b[1] <=> a = b) /\ (a[2] = b[2] <=> a = b)
  BY DEF LockTypes
<1>2. <<0, 1>> \in LockTypes /\ <<1, 3>> \in LockTypes /\ <<2, 2>> \in LockTypes
  BY DEF LockTypes
<1>3. \A t \in {1, 2, 3} : LinuxType[t] = (CHOOSE a \in LockTypes : a[2] = t)[1]
  BY NativeNumbers DEF LinuxType
<1>4. /\ (CHOOSE a \in LockTypes : a[2] = 1) = <<0, 1>>
      /\ (CHOOSE a \in LockTypes : a[2] = 3) = <<1, 3>>
      /\ (CHOOSE a \in LockTypes : a[2] = 2) = <<2, 2>>
  BY <1>1, <1>2
<1>5. /\ (CHOOSE a \in LockTypes : a[1] = 0) = <<0, 1>>
      /\ (CHOOSE a \in LockTypes : a[1] = 1) = <<1, 3>>
      /\ (CHOOSE a \in LockTypes : a[1] = 2) = <<2, 2>>
  BY <1>1, <1>2
<1>6. LinuxType[1] = 0 /\ LinuxType[3] = 1 /\ LinuxType[2] = 2
  <2>1. /\ LinuxType[1] = (CHOOSE a \in LockTypes : a[2] = 1)[1]
        /\ LinuxType[3] = (CHOOSE a \in LockTypes : a[2] = 3)[1]
        /\ LinuxType[2] = (CHOOSE a \in LockTypes : a[2] = 2)[1]
    BY <1>3
  <2>2. LinuxType[1] = <<0, 1>>[1] /\ LinuxType[3] = <<1, 3>>[1] /\ LinuxType[2] = <<2, 2>>[1]
    BY <1>4, <2>1, Zenon
  <2> QED
    BY <2>2
<1>7. copy_linux_flock(0) = 1 /\ copy_linux_flock(1) = 3 /\ copy_linux_flock(2) = 2
  <2>1. /\ copy_linux_flock(0) = (CHOOSE a \in LockTypes : a[1] = 0)[2]
        /\ copy_linux_flock(1) = (CHOOSE a \in LockTypes : a[1] = 1)[2]
        /\ copy_linux_flock(2) = (CHOOSE a \in LockTypes : a[1] = 2)[2]
    BY DEF copy_linux_flock
  <2>2. /\ copy_linux_flock(0) = <<0, 1>>[2] /\ copy_linux_flock(1) = <<1, 3>>[2]
        /\ copy_linux_flock(2) = <<2, 2>>[2]
    BY <1>5, <2>1, Zenon
  <2> QED
    BY <2>2
<1> QED
  BY <1>6, <1>7

\* The files that the program locks, and their names.
NativeLocked == {redirect(p) : p \in Locked}
LinuxLocked  == Named(NativeLocked)

LEMMA LockedName ==
  ASSUME NEW f \in NativeLocked
  PROVE  f \in NativeFiles /\ PathOf[f] \in LinuxLocked /\ redirect(PathOf[f]) = f
<1>1. PICK p \in Visible : f = redirect(p)
  BY PathsOK DEF NativeLocked
<1> QED
  BY <1>1, Replaced, PathOfPath DEF LinuxLocked, Named

LEMMA LockedSeen ==
  ASSUME NEW g \in LinuxLocked
  PROVE  /\ redirect(g) \in NativeLocked /\ redirect(g) \in NativeFiles
         /\ PathOf[redirect(g)] = g
         /\ \A f \in NativeFiles \cup {PIPE} : PathOf[f] = g <=> f = redirect(g)
<1>1. PICK f \in NativeLocked : g = PathOf[f]
  BY DEF LinuxLocked, Named
<1>2. redirect(g) = f /\ f \in NativeFiles
  BY <1>1, LockedName
<1> QED
  BY <1>1, <1>2, NamesDiffer

LEMMA LockSeen ==
  /\ LinuxLock = [g \in LinuxLocked |-> LinuxType[lock[redirect(g)]]]
  /\ LinuxLock' = [g \in LinuxLocked |-> LinuxType[lock'[redirect(g)]]]
  BY DEF LinuxLock, LinuxLocked, NativeLocked, Named

LEMMA CloseSeen ==
  ASSUME SeenAs, SeenAs', DescriptorsIInv, NEW S, Native!CloseAll(S)
  PROVE  Linux!CloseAll(S)
<1>1. /\ table' = [fd \in Fds |-> IF fd \in S THEN NONE ELSE table[fd]]
      /\ desc' = [d \in Descs |-> IF \E fd \in Fds : table'[fd] = d THEN desc[d] ELSE NONE]
      /\ cloexec' = cloexec \ S
      /\ lock' = [f \in {redirect(p) : p \in Locked} |->
                    IF Native!OfFile(f) \cap S = {} THEN lock[f] ELSE Native_O.UNLCK]
      /\ ret' = Native!Success({}) /\ UNCHANGED <<exists, written, busy, dead>>
  BY DEF Native!CloseAll
<1>2. LinuxDesc' = [d \in Descs |-> IF \E fd \in Fds : table'[fd] = d THEN LinuxDesc[d] ELSE NONE]
  <2>1. LinuxDesc' = [d \in Descs |-> IF desc'[d] = NONE THEN NONE ELSE LinuxDescOf(desc'[d])]
    BY DEF SeenAs, LinuxDescOf
  <2>2. \A d \in Descs : desc'[d] = IF \E fd \in Fds : table'[fd] = d THEN desc[d] ELSE NONE
    BY <1>1
  <2> QED
    BY <2>1, <2>2 DEF SeenAs
<1>3. ASSUME NEW g \in LinuxLocked PROVE Linux!OfFile(g) = Native!OfFile(redirect(g))
  <2>1. Linux!Open = Native!Open
    BY DEF SeenAs
  <2>2. ASSUME NEW fd \in Native!Open
        PROVE  LinuxDesc[table[fd]].file = g <=> desc[table[fd]].file = redirect(g)
    <3>1. /\ desc[table[fd]].file \in NativeFiles \cup {PIPE}
          /\ LinuxDesc[table[fd]].file = PathOf[desc[table[fd]].file]
      BY DEF SeenAs, NativeDescs
    <3> QED
      BY <3>1, LockedSeen
  <2> QED
    BY <2>1, <2>2 DEF Linux!OfFile, Native!OfFile
<1>4. LinuxLock' = [g \in LinuxLocked |-> IF Linux!OfFile(g) \cap S = {} THEN LinuxLock[g]
                                          ELSE Linux_O.UNLCK]
  <2>1. ASSUME NEW g \in LinuxLocked
        PROVE  lock'[redirect(g)] = IF Linux!OfFile(g) \cap S = {} THEN lock[redirect(g)] ELSE 2
    <3>1. redirect(g) \in {redirect(p) : p \in Locked}
      BY LockedSeen DEF NativeLocked
    <3> QED
      BY <1>1, <1>3, <3>1, NativeNumbers
  <2> QED
    BY <2>1, LockSeen, LockTypesAre, LinuxNumbersAre
<1>5. UNCHANGED <<Named(exists), Named(written), Named(busy)>>
  BY <1>1 DEF Named
<1> QED
  BY <1>1, <1>2, <1>4, <1>5
  DEF Linux!CloseAll, Native!Success, Linux!Success, LinuxLocked, NativeLocked

\* F_SETFL with the flags that F_GETFL may have reported.
LEMMA SetFlSeen ==
  ASSUME SeenAs, SeenAs', DescriptorsIInv, NEW fd \in Fds, NEW F, SetFlAccepts(F),
         Native!SetFl(fd, ToNative(SetFlFlags, F))
  PROVE  Linux!SetFl(fd, F)
<1> DEFINE N == ToNative(SetFlFlags, F)
           d == table[fd]
           flags == (desc[d].flags \cap Native!Mode) \cup (N \cap Native!Status)
           new == [desc[d] EXCEPT !.flags = flags]
<1>1. fd \in Native!Open /\ desc' = [desc EXCEPT ![d] = new] /\ ret' = Native!Success({})
      /\ UNCHANGED <<table, cloexec, exists, written, lock, busy, dead>>
  BY DEF Native!SetFl, Native!files
<1>2. F \subseteq {1, 11} /\ (1 \in N <=> 1 \in F) /\ (2 \in N <=> 11 \in F) /\ N \subseteq {1, 2}
  <2>1. F \subseteq {1, 11}
    BY DEF SetFlAccepts, SetFlFlags
  <2>2. \A a, b \in SetFlFlags : a[2] = b[2] => a = b
    BY DEF SetFlFlags
  <2>3. \A a \in SetFlFlags : a[2] \in N <=> a[1] \in F
    BY <2>2 DEF ToNative
  <2>4. <<1, 1>> \in SetFlFlags /\ <<11, 2>> \in SetFlFlags /\ \A a \in SetFlFlags : a[2] \in {1, 2}
    BY DEF SetFlFlags
  <2>5. N \subseteq {1, 2}
    BY <2>4 DEF ToNative
  <2> HIDE DEF N
  <2> QED
    BY ONLY <2>1, <2>3, <2>4, <2>5
<1>3. d \in Descs /\ desc[d] \in NativeDescs /\ desc[d].flags \in SUBSET {0, 1, 2, 3}
  BY <1>1, NativeNumbers DEF SeenAs, NativeDescs
<1>4. LinuxFlags[flags] = (LinuxFlags[desc[d].flags] \cap Linux!Mode) \cup (F \cap Linux!Status)
  <2>1. flags \in SUBSET {0, 1, 2, 3} /\ (0 \in flags <=> 0 \in desc[d].flags)
        /\ (1 \in flags <=> 1 \in desc[d].flags) /\ (2 \in flags <=> 11 \in F) /\ 3 \notin flags
    BY <1>2, <1>3, NativeNumbers
  <2>2. /\ LinuxFlags[flags] \subseteq {0, 1, 10, 11}
        /\ (0 \in LinuxFlags[flags] <=> 0 \in desc[d].flags)
        /\ (1 \in LinuxFlags[flags] <=> 1 \in desc[d].flags)
        /\ (11 \in LinuxFlags[flags] <=> 11 \in F) /\ 10 \notin LinuxFlags[flags]
    BY <2>1, LinuxFlagsAre
  <2>3. /\ 0 \in LinuxFlags[desc[d].flags] <=> 0 \in desc[d].flags
        /\ 1 \in LinuxFlags[desc[d].flags] <=> 1 \in desc[d].flags
    BY <1>3, LinuxFlagsAre
  <2> QED
    BY ONLY <1>2, <2>2, <2>3, LinuxNumbersAre
<1>5. new \in NativeDescs /\ new.file = desc[d].file /\ new.flags = flags
  BY <1>3 DEF NativeDescs
<1> DEFINE seen == [LinuxDesc[d] EXCEPT !.flags = (@ \cap Linux!Mode) \cup (F \cap Linux!Status)]
<1>6. LinuxDescOf(new) = seen
  <2>1. LinuxDesc[d] = [file |-> PathOf[desc[d].file], flags |-> LinuxFlags[desc[d].flags]]
    BY <1>3, NoDescIsNone DEF SeenAs, LinuxDescOf
  <2>2. seen = [file |-> PathOf[desc[d].file], flags |-> LinuxFlags[flags]]
    <3> HIDE DEF flags, d
    <3> QED
      BY <1>4, <2>1
  <2> HIDE DEF new, seen, flags
  <2> QED
    BY <1>5, <2>2 DEF LinuxDescOf
<1>7. LinuxDesc' = [LinuxDesc EXCEPT ![d] = seen]
  <2> HIDE DEF new, seen, d
  <2> QED
    BY <1>1, <1>3, <1>5, <1>6, NewDescSeen
<1>8. UNCHANGED <<LinuxLock, Named(exists), Named(written), Named(busy)>>
  BY <1>1 DEF LinuxLock, Named
<1> HIDE DEF new, flags, N
<1> QED
  BY <1>1, <1>7, <1>8 DEF Linux!SetFl, SeenAs, Linux!files, Native!Success, Linux!Success

\* Devices keep nothing, under either name.
LEMMA RegularSeen ==
  ASSUME NEW f \in NativeFiles \cup {PIPE}
  PROVE  PathOf[f] \in Linux!Regular <=> f \in Native!Regular
<1>1. PathOf[f] \in Named(NativeFiles) <=> f \in NativeFiles
  BY NamedSets
<1>2. PathOf[f] \in Named(Devices) <=> f \in Devices
  BY NamedSets DEF Devices
<1> QED
  BY <1>1, <1>2 DEF Linux!Regular, Native!Regular

LEMMA WriteSeen ==
  ASSUME SeenAs, DescriptorsIInv, NEW fd \in Fds, Native!Write(fd)
  PROVE  Linux!Write(fd)
<1> DEFINE f == desc[table[fd]].file
<1>1. /\ fd \in Native!Open /\ Native!Writable(fd)
      /\ written' = written \cup ({f} \cap Native!Regular) /\ ret' = Native!Success({})
      /\ UNCHANGED <<table, cloexec, desc, exists, lock, busy, dead>>
  BY DEF Native!Write
<1>2. f \in NativeFiles \cup {PIPE} /\ LinuxDesc[table[fd]].file = PathOf[f]
  BY <1>1 DEF SeenAs, NativeDescs
<1> HIDE DEF f
<1>3. Named(written)' = Named(written) \cup ({PathOf[f]} \cap Linux!Regular)
  <2>1. CASE f \in Native!Regular
    <3>1. written' = written \cup {f} /\ PathOf[f] \in Linux!Regular
      BY <1>1, <1>2, <2>1, RegularSeen
    <3>2. Named(written \cup {f}) = Named(written) \cup {PathOf[f]}
      BY <1>2, NamedSets DEF DescriptorsIInv
    <3> QED
      BY <3>1, <3>2 DEF Named
  <2>2. CASE f \notin Native!Regular
    <3>1. written' = written /\ PathOf[f] \notin Linux!Regular
      BY <1>1, <1>2, <2>2, RegularSeen
    <3> QED
      BY <3>1 DEF Named
  <2> QED
    BY <2>1, <2>2
<1>4. UNCHANGED <<LinuxDesc, LinuxLock, Named(exists), Named(busy)>>
  BY <1>1 DEF LinuxDesc, LinuxLock, Named
<1> QED
  BY <1>1, <1>2, <1>3, <1>4 DEF Linux!Write, SeenAs, Native!Success, Linux!Success

LEMMA SetLockSeen ==
  ASSUME SeenAs, DescriptorsIInv, NEW fd \in Fds, NEW t \in {0, 1, 2},
         Native!SetLock(fd, copy_linux_flock(t))
  PROVE  t \in Linux!Locks /\ Linux!SetLock(fd, t)
<1> DEFINE f == desc[table[fd]].file
           n == copy_linux_flock(t)
<1>1. /\ fd \in Native!Open
      /\ (n = 1 => Native!Readable(fd)) /\ (n = 3 => Native!Writable(fd))
      /\ f \in {redirect(q) : q \in Locked} /\ (f \in busy => n = 2)
      /\ lock' = [lock EXCEPT ![f] = n] /\ ret' = Native!Success({})
      /\ UNCHANGED <<table, cloexec, desc, exists, written, busy, dead>>
  BY NativeNumbers, NativeNumbersAre DEF Native!SetLock
<1>2. /\ n \in {1, 2, 3} /\ LinuxType[n] = t
      /\ (t = 0 <=> n = 1) /\ (t = 1 <=> n = 3) /\ (t = 2 <=> n = 2)
  BY LockTypesAre
<1> DEFINE g == PathOf[f]
<1>3. f \in NativeLocked /\ g \in LinuxLocked /\ redirect(g) = f
  BY <1>1, LockedName DEF NativeLocked
<1>4. LinuxDesc[table[fd]].file = g
  BY <1>1 DEF SeenAs
<1> HIDE DEF f, n, g
<1>5. LinuxLock' = [LinuxLock EXCEPT ![g] = t]
  <2>1. lock \in [NativeLocked -> Native!Locks]
    BY DEF DescriptorsIInv, TypeOK, NativeLocked
  <2>2. lock'[redirect(g)] = n
    BY <1>1, <1>3, <2>1
  <2>3. \A h \in LinuxLocked \ {g} : lock'[redirect(h)] = lock[redirect(h)]
    BY <1>1, <1>3, <2>1, LockedSeen
  <2> QED
    BY <1>2, <1>3, <2>2, <2>3, LockSeen
<1>6. g \in Named(busy) => t = 2
  BY <1>1, <1>2, <1>3, LockedSeen, NamedSets DEF DescriptorsIInv
<1>7. UNCHANGED <<LinuxDesc, Named(exists), Named(written), Named(busy)>>
  BY <1>1 DEF LinuxDesc, Named
<1>8. (t = 0 => Linux!Readable(fd)) /\ (t = 1 => Linux!Writable(fd)) /\ fd \in Linux!Open
  BY <1>1, <1>2 DEF SeenAs
<1> QED
  BY <1>1, <1>3, <1>4, <1>5, <1>6, <1>7, <1>8, LinuxNumbersAre
  DEF Linux!SetLock, Native!Success, Linux!Success, LinuxLocked, NativeLocked

LEMMA OthersLockSeen ==
  ASSUME DescriptorsIInv, NEW f \in NativeLocked, Native!OthersLock(f)
  PROVE  PathOf[f] \in LinuxLocked /\ Linux!OthersLock(PathOf[f])
<1> DEFINE g == PathOf[f]
<1>1. /\ lock[f] = 2
      /\ busy' = IF f \in busy THEN busy \ {f} ELSE busy \cup {f}
      /\ UNCHANGED <<table, cloexec, desc, exists, written, lock, ret, dead>>
  BY NativeNumbers DEF Native!OthersLock
<1>2. f \in NativeFiles /\ g \in LinuxLocked /\ redirect(g) = f
  BY LockedName
<1>3. /\ g \in Named(busy) <=> f \in busy
      /\ Named(busy \cup {f}) = Named(busy) \cup {g}
      /\ Named(busy \ {f}) = Named(busy) \ {g}
  BY <1>2, NamedSets DEF DescriptorsIInv
<1> HIDE DEF g
<1>4. LinuxLock[g] = Linux_O.UNLCK
  BY <1>1, <1>2, LockSeen, LockTypesAre, LinuxNumbersAre
<1>5. Named(busy)' = IF g \in Named(busy) THEN Named(busy) \ {g} ELSE Named(busy) \cup {g}
  BY <1>1, <1>3 DEF Named
<1>6. UNCHANGED <<LinuxDesc, LinuxLock, Named(exists), Named(written)>>
  BY <1>1 DEF LinuxDesc, LinuxLock, Named
<1>7. Linux!OthersLock(g)
  BY <1>1, <1>4, <1>5, <1>6 DEF Linux!OthersLock
<1> QED
  BY <1>2, <1>7 DEF g

LEMMA AnswerSeen ==
  ASSUME NEW r, Native!Answer(r)
  PROVE  Linux!Answer(r)
<1>1. UNCHANGED <<LinuxDesc, LinuxLock, Named(exists), Named(written), Named(busy), table, cloexec,
                  dead>>
  BY DEF Native!Answer, Native!files, LinuxDesc, LinuxLock, Named
<1> QED
  BY <1>1 DEF Native!Answer, Linux!Answer, Linux!files

-----------------------------------------------------------------------------
(* The refinement                                                          *)

LEMMA LinuxStart == Init => Linux!Init
<1> SUFFICES ASSUME Init PROVE Linux!Init
  OBVIOUS
<1>1. /\ table = [fd \in Fds |-> NONE] /\ cloexec = {}
      /\ desc = [d \in Descs |-> NONE]
      /\ exists \in {Devices, NativeFiles} /\ written = Native!Regular \cap exists
      /\ lock = [f \in {redirect(p) : p \in Locked} |-> 2] /\ busy = {}
      /\ ret = Native!Success({}) /\ dead = FALSE
  BY NativeNumbers DEF Init, Native!Init
<1>2. LinuxDesc = [d \in Descs |-> NONE]
  BY <1>1 DEF LinuxDesc
<1>3. LinuxLock = [g \in LinuxLocked |-> Linux_O.UNLCK]
  <2>1. \A g \in LinuxLocked : redirect(g) \in {redirect(p) : p \in Locked}
    BY LockedSeen DEF NativeLocked
  <2> QED
    BY <1>1, <2>1, LockSeen, LockTypesAre, LinuxNumbersAre
<1>4. Named(exists) \in {Named(Devices), Named(NativeFiles)}
  BY <1>1
<1>5. exists \subseteq NativeFiles /\ written \subseteq exists
  BY <1>1 DEF Devices
<1>6. Named(written) = Linux!Regular \cap Named(exists)
  <2>1. \A f \in exists : f \in written <=> PathOf[f] \in Linux!Regular
    BY <1>1, <1>5, RegularSeen
  <2> QED
    BY <1>5, <2>1 DEF Named
<1>7. Named(busy) = {}
  BY <1>1 DEF Named
<1> QED
  BY <1>1, <1>2, <1>3, <1>4, <1>6, <1>7
  DEF Linux!Init, Native!Success, Linux!Success, LinuxLocked, NativeLocked

\* Every step is one of Linux's, or none.
LEMMA LinuxStep == DescriptorsIInv /\ DescriptorsIInv' /\ [Next]_vars => [Linux!Next]_(Linux!vars)
<1> SUFFICES ASSUME DescriptorsIInv, DescriptorsIInv', [Next]_vars
             PROVE  [Linux!Next]_(Linux!vars)
  OBVIOUS
<1> USE Seen, SeenNext
<1>1. ASSUME Native!Answer(Native!Failure) PROVE Linux!Next
  BY <1>1, AnswerSeen DEF Native!Failure, Linux!Failure, Linux!Refused, Linux!Next
<1>2. ASSUME Abort PROVE Linux!Next
  <2>1. UNCHANGED <<LinuxDesc, LinuxLock, Named(exists), Named(written), Named(busy)>>
    BY <1>2 DEF Abort, kernel, LinuxDesc, LinuxLock, Named
  <2> QED
    BY <1>2, <2>1 DEF Abort, kernel, Linux!Died, Linux!files, Linux!Next
<1>3. ASSUME NEW p \in Paths, OpenHidden(p) PROVE Linux!Next
  BY <1>1, <1>3 DEF OpenHidden, Refuse
<1>4. ASSUME NEW p \in Paths, Access(p) PROVE Linux!Next
  <2>1. p \in Visible /\ Native!Access(redirect(p))
    BY <1>4 DEF Access, Visible
  <2> DEFINE g == PathOf[redirect(p)]
  <2>2. redirect(p) \in NativeFiles /\ g \in Named(NativeFiles)
    BY <2>1, Replaced DEF Named
  <2>3. g \in Named(exists) <=> redirect(p) \in exists
    BY <2>2, NamedSets DEF DescriptorsIInv
  <2>4. Linux!Access(g)
    BY <2>1, <2>3, AnswerSeen DEF Native!Access, Linux!Access, Native!Success, Linux!Success,
                                  Native!Failure, Linux!Failure
  <2> QED
    BY <2>2, <2>4 DEF Linux!Next
<1>5. ASSUME NEW p \in Paths, NEW F \in FlagSets, OpenTmpfile(p, F) PROVE Linux!Next
  BY <1>1, <1>5 DEF OpenTmpfile, Refuse
<1>6. ASSUME NEW p \in Paths, NEW F \in FlagSets, Open(p, F) PROVE Linux!Next
  <2> DEFINE g == PathOf[redirect(p)]
  <2>1. redirect(p) \in NativeFiles /\ g \in Named(NativeFiles) \ Objects
    <3>1. p \in Visible
      BY <1>6 DEF Open, Visible
    <3>2. redirect(p) \in NativeFiles /\ g \in Paths
      BY <3>1, Replaced, PathOfPath DEF Visible
    <3> QED
      BY <3>2, PathsOK DEF Named
  <2>2. ASSUME NEW fd \in Fds, NEW d \in Descs,
               Native!OpenFile(fd, d, redirect(p), linux_to_native_open_flags(F))
        PROVE  Linux!Next
    <3>1. Linux!OpenFile(fd, d, g, F)
      BY <2>1, <2>2, OpenSeen
    <3> QED
      BY <2>1, <3>1 DEF Linux!Next
  <2> QED
    BY <1>1, <1>6, <2>2 DEF Open, Native!OpenFails
<1>7. ASSUME NEW F \in FlagSets, NEW n \in Objects, ShmOpen(n, F) PROVE Linux!Next
  <2>1. F \in SUBSET {1, 6, 7, 9} /\ n \in NativeFiles /\ PathOf[n] = n
    BY <1>7, PathOfObject DEF ShmOpen, NativeFiles
  <2>2. ASSUME NEW fd \in Fds, NEW d \in Descs,
               Native!OpenFile(fd, d, n, linux_to_native_shm_flags(F))
        PROVE  Linux!Next
    <3>1. Linux!OpenFile(fd, d, n, F)
      BY <2>1, <2>2, SomeFlagsAre, OpenSeen
    <3>2. F \ {Linux_O.CLOEXEC} = F
      BY <2>1, LinuxNumbersAre
    <3>3. Linux!ShmOpen(fd, d, n, F)
      BY <3>1, <3>2 DEF Linux!ShmOpen
    <3> QED
      BY <3>3 DEF Linux!Next
  <2> QED
    BY <1>1, <1>7, <2>2 DEF ShmOpen, Native!OpenFails
<1>8. ASSUME NEW F \in FlagSets, Pipe2(F) PROVE Linux!Next
  <2>1. F \in SUBSET {11, 19}
    BY <1>8 DEF Pipe2
  <2>2. PICK r, w \in Fds, d, e \in Descs :
          Native!Pipe(r, w, d, e, {Native_O.RDWR}, {Native_O.RDWR}, linux_to_native_pipe_flags(F))
    BY <1>8 DEF Pipe2
  <2>3. Linux!Pipe(r, w, d, e, {Linux_O.RDWR}, {Linux_O.RDWR}, F)
    BY <2>1, <2>2, PipeSeen
  <2>4. Linux!NewPipe(r, w, d, e, F)
    BY <2>3 DEF Linux!NewPipe
  <2> QED
    BY <2>4 DEF Linux!Next
<1>9. ASSUME NEW fd \in Fds, GetFd(fd) PROVE Linux!Next
  <2>1. Linux!GetFd(fd)
    BY <1>9, AnswerSeen DEF GetFd, Native!GetFd, Linux!GetFd, SeenAs, Native!Success, Linux!Success
  <2> QED
    BY <2>1 DEF Linux!Next
<1>10. ASSUME NEW fd \in Fds, GetFl(fd) PROVE Linux!Next
  <2> DEFINE N == Native!Flags(fd)
             F == ToLinux(GetFlFlags, N)
  <2>1. fd \in Native!Open /\ N \subseteq {0, 1, 2} /\ Native!Answer(Native!Success(F))
    BY <1>10 DEF GetFl, GetFlAccepts, GetFlFlags
  <2>2. Linux!Flags(fd) = LinuxFlags[N]
    BY <2>1 DEF SeenAs
  <2> HIDE DEF N
  <2>3. LinuxFlags[N] = F
    <3>1. /\ LinuxFlags[N] \subseteq {0, 1, 10, 11}
          /\ (0 \in LinuxFlags[N] <=> 0 \in N) /\ (1 \in LinuxFlags[N] <=> 1 \in N)
          /\ (11 \in LinuxFlags[N] <=> 2 \in N) /\ (10 \in LinuxFlags[N] <=> 3 \in N)
      BY <2>1, LinuxFlagsAre
    <3>2. /\ F \subseteq {0, 1, 11}
          /\ (0 \in F <=> 0 \in N) /\ (1 \in F <=> 1 \in N) /\ (11 \in F <=> 2 \in N)
      <4>1. \A a, b \in GetFlFlags : a[1] = b[1] => a = b
        BY DEF GetFlFlags
      <4>2. \A a \in GetFlFlags : a[1] \in F <=> a[2] \in N
        BY <4>1 DEF ToLinux
      <4>3. /\ {<<0, 0>>, <<1, 1>>, <<11, 2>>} \subseteq GetFlFlags
            /\ \A a \in GetFlFlags : a[1] \in {0, 1, 11}
        BY DEF GetFlFlags
      <4>4. F \subseteq {0, 1, 11}
        BY <4>3 DEF ToLinux
      <4> HIDE DEF F
      <4> QED
        BY ONLY <4>2, <4>3, <4>4
    <3>3. 3 \notin N
      BY <2>1
    <3> HIDE DEF F
    <3>4. \A x \in {0, 1, 10, 11} : x \in LinuxFlags[N] <=> x \in F
      BY ONLY <3>1, <3>2, <3>3
    <3>5. \A x : x \in LinuxFlags[N] <=> x \in F
      BY ONLY <3>1, <3>2, <3>4
    <3> QED
      BY ONLY <3>5
  <2> HIDE DEF F
  <2>4. Linux!GetFl(fd)
    BY <2>1, <2>2, <2>3, AnswerSeen DEF Linux!GetFl, SeenAs, Native!Success, Linux!Success
  <2> QED
    BY <2>4 DEF Linux!Next
<1>11. ASSUME NEW fd \in Fds, GetFlAsserts(fd) PROVE Linux!Next
  BY <1>2, <1>11 DEF GetFlAsserts
<1>12. ASSUME NEW fd \in Fds, NEW C \in SUBSET {0}, SetFd(fd, C) PROVE Linux!Next
  <2>1. UNCHANGED <<LinuxDesc, LinuxLock, Named(exists), Named(written), Named(busy)>>
    BY <1>12 DEF SetFd, Native!SetFd, Native!files, LinuxDesc, LinuxLock, Named
  <2>2. Linux!SetFd(fd, C)
    BY <1>12, <2>1 DEF SetFd, Native!SetFd, Linux!SetFd, Linux!files, SeenAs,
                       Native!Success, Linux!Success
  <2> QED
    BY <2>2 DEF Linux!Next
<1>13. ASSUME NEW fd \in Fds, NEW F, SetFl(fd, F) \/ SetFlAsserts(fd, F) PROVE Linux!Next
  <2>1. CASE SetFl(fd, F)
    <3>1. Linux!SetFl(fd, F)
      BY <2>1, SetFlSeen DEF SetFl
    <3>2. F \in SUBSET (Linux!Mode \cup Linux!Status)
      BY <2>1, LinuxNumbersAre DEF SetFl, SetFlAccepts, SetFlFlags
    <3> QED
      BY <3>1, <3>2 DEF Linux!Next
  <2> QED
    BY <1>2, <1>13, <2>1 DEF SetFlAsserts
<1>14. ASSUME NEW fd \in Fds, NEW t \in {0, 1, 2}, SetLock(fd, t) PROVE Linux!Next
  <2>1. CASE Native!SetLock(fd, copy_linux_flock(t))
    BY <2>1, SetLockSeen DEF Linux!Next
  <2>2. CASE Native!SetLockFails(fd, copy_linux_flock(t))
    BY <1>1, <2>2 DEF Native!SetLockFails
  <2> QED
    BY <1>14, <2>1, <2>2 DEF SetLock
<1>15. ASSUME NEW fd \in Fds, NEW new \in Fds, DupfdCloexec(fd, new) \/ NativeDup(fd, new)
       PROVE  Linux!Next
  <2>1. PICK C \in SUBSET {0} : Native!Dup(fd, new, C)
    BY <1>15 DEF DupfdCloexec, NativeDup
  <2>2. Linux!Dup(fd, new, C)
    BY <2>1, DupSeen
  <2> QED
    BY <2>2 DEF Linux!Next
<1>16. ASSUME NEW fd \in Fds, write(fd) PROVE Linux!Next
  <2>1. CASE Native!Write(fd)
    BY <2>1, WriteSeen DEF Linux!Next
  <2> QED
    BY <1>1, <1>16, <2>1 DEF write, Native!WriteFails
<1>17. ASSUME NEW fd \in Fds, close(fd) PROVE Linux!Next
  <2>1. Linux!Close(fd)
    BY <1>17, CloseSeen DEF close, Native!Close, Linux!Close, SeenAs
  <2> QED
    BY <2>1 DEF Linux!Next
<1>18. ASSUME NativeExec PROVE Linux!Next
  <2>1. Linux!Exec
    BY <1>18, CloseSeen DEF NativeExec, Native!Exec, Linux!Exec
  <2> QED
    BY <2>1 DEF Linux!Next
<1>19. ASSUME NEW p \in Locked, Native!OthersLock(redirect(p)) PROVE Linux!Next
  <2> DEFINE g == PathOf[redirect(p)]
  <2>1. g \in LinuxLocked /\ Linux!OthersLock(g)
    BY <1>19, OthersLockSeen DEF NativeLocked
  <2> QED
    BY <2>1 DEF Linux!Next, LinuxLocked, NativeLocked
<1>20. CASE UNCHANGED vars
  BY <1>20 DEF vars, kernel, Linux!vars, LinuxDesc, LinuxLock, Named
<1> QED
  BY <1>3, <1>4, <1>5, <1>6, <1>7, <1>8, <1>9, <1>10, <1>11, <1>12, <1>13, <1>14, <1>15, <1>16,
     <1>17, <1>18, <1>19, <1>20 DEF Next

\* Files, flags, sharing, close-on-exec and locks are what Linux would make of
\* the same calls, and the flags reported are those that were asked for.
THEOREM ImplementsLinuxCorrect == Spec => ImplementsLinux
<1> QED
  BY DescriptorsIInvCorrect, LinuxStart, LinuxStep, PTL DEF Spec, ImplementsLinux, Linux!Spec
=============================================================================
