------------------------------ MODULE DirStream ------------------------------
(***************************************************************************)
(* The directory streams of src/src/libc/dirent.c.  A Linux DIR is a       *)
(* shim_directory: a FreeBSD DIR, the list of the entries handed out, and  *)
(* a mutex for the list.  readdir copies the native entry, which lives in  *)
(* the DIR's own buffer, to fresh memory that stays the program's until    *)
(* closedir frees it.  The copy is made outside any lock.                  *)
(*                                                                         *)
(* The native DIR is external: a position, and a buffer of Block entries   *)
(* that readdir refills in place when the position leaves it.              *)
(***************************************************************************)
EXTENDS Integers, FiniteSets

CONSTANTS
  Threads,   \* threads of the Linux program
  Streams,   \* addresses a shim_directory can be allocated at
  Dirs,      \* native DIRs: as many as the process may have open
  Cells,     \* addresses a shim_dir_entry can be allocated at
  Last,      \* number of entries in the directory, 1..Last
  Block,     \* entries in a native buffer
  NoThread,
  NULL

ASSUME DirConstantsOK ==
  /\ NoThread \notin Threads
  /\ NULL \notin Streams \cup Dirs \cup Cells
  /\ IsFiniteSet(Cells) /\ IsFiniteSet(Threads)
  /\ Last \in Nat \ {0}
  /\ Block \in Nat \ {0}

VARIABLES
  state,     \* stream -> "unused", "open" or "closing"
  dir,       \* stream -> its native DIR
  list,      \* stream -> the cells linked from its head
  mutex,     \* stream -> owner of its mutex
  shared,    \* streams the program reads from several threads at once
  opened,    \* native DIRs that are open
  pos,       \* native DIR -> entries read so far
  buffer,    \* native DIR -> first entry of the block in its buffer, less 1
  allocated, \* cells that are malloc'ed
  copied,    \* cell -> the entry it holds a copy of, or TORN
  pc, tgt,   \* thread -> where it is in a call, and on which stream
  entry,     \* thread -> the entry the native readdir pointed it to
  got,       \* thread -> what it copied from there
  cell,      \* thread -> the cell it fills
  head,      \* thread -> the list as SLIST_INSERT_HEAD read it
  handed,    \* stream -> <<cell, entry>> pairs the program holds
  crashed    \* a null DIR was used

native == <<opened, pos, buffer>>
heap   == <<allocated, copied>>
stream == <<state, dir, shared>>
local  == <<tgt, entry, got, cell, head>>
vars   == <<stream, list, mutex, native, heap, pc, local, handed, crashed>>

TORN    == 0                \* a copy made while the buffer was refilled
Entries == 1..Last
Filling == {"lock", "link", "insert"}    \* owns a cell that no list has
Labels  == {"idle", "copy", "copy_r", "unlock", "destroy"} \cup Filling

TypeOK ==
  /\ state \in [Streams -> {"unused", "open", "closing"}]
  /\ dir \in [Streams -> Dirs \cup {NULL}]
  /\ list \in [Streams -> SUBSET Cells]
  /\ mutex \in [Streams -> Threads \cup {NoThread}]
  /\ shared \in SUBSET Streams
  /\ opened \in SUBSET Dirs
  /\ pos \in [Dirs -> 0..Last]
  /\ buffer \in [Dirs -> Int]
  /\ allocated \in SUBSET Cells
  /\ copied \in [Cells -> Int]
  /\ pc \in [Threads -> Labels]
  /\ tgt \in [Threads -> Streams \cup {NULL}]
  /\ entry \in [Threads -> 0..Last]
  /\ got \in [Threads -> Int]
  /\ cell \in [Threads -> Cells \cup {NULL}]
  /\ head \in [Threads -> SUBSET Cells]
  /\ handed \in [Streams -> SUBSET (Cells \X Int)]
  /\ crashed \in BOOLEAN

Init ==
  /\ state = [s \in Streams |-> "unused"]
  /\ dir = [s \in Streams |-> NULL]
  /\ list = [s \in Streams |-> {}]
  /\ mutex = [s \in Streams |-> NoThread]
  /\ shared = {}
  /\ opened = {}
  /\ pos = [d \in Dirs |-> 0]
  /\ buffer = [d \in Dirs |-> 0]
  /\ allocated = {}
  /\ copied = [c \in Cells |-> TORN]
  /\ pc = [t \in Threads |-> "idle"]
  /\ tgt = [t \in Threads |-> NULL]
  /\ entry = [t \in Threads |-> 0]
  /\ got = [t \in Threads |-> TORN]
  /\ cell = [t \in Threads |-> NULL]
  /\ head = [t \in Threads |-> {}]
  /\ handed = [s \in Streams |-> {}]
  /\ crashed = FALSE

-----------------------------------------------------------------------------
(* The program                                                             *)

InCall(s) == {t \in Threads : pc[t] # "idle" /\ tgt[t] = s}

\* A call on an open stream.  Calls on one stream overlap only where the
\* program means them to.
MayCall(t, s) ==
  /\ ~crashed
  /\ pc[t] = "idle"
  /\ state[s] = "open"
  /\ s \in shared \/ InCall(s) = {}

\* Cells the threads about to copy an entry will still ask malloc for.
Reserved == {t \in Threads : pc[t] = "copy"}
CellLeft == Cardinality(Reserved) < Cardinality(Cells \ allocated)

-----------------------------------------------------------------------------
(* Opening                                                                 *)

create_shim_dir(s, d) ==
  /\ state' = [state EXCEPT ![s] = "open"]
  /\ dir' = [dir EXCEPT ![s] = d]
  /\ list' = [list EXCEPT ![s] = {}]
  /\ mutex' = [mutex EXCEPT ![s] = NoThread]
  /\ \E several \in BOOLEAN :
       shared' = IF several THEN shared \cup {s} ELSE shared \ {s}

NativeOpen(d) ==
  /\ d \in Dirs \ opened
  /\ opened' = opened \cup {d}
  /\ UNCHANGED <<pos, buffer>>

\* opendir and fdopendir; where the native call fails they return NULL.
Opendir(t, s) ==
  /\ ~crashed /\ pc[t] = "idle" /\ state[s] = "unused"
  /\ \E d \in Dirs : NativeOpen(d) /\ create_shim_dir(s, d)
  /\ UNCHANGED <<heap, pc, local, handed, crashed>>

\* opendir("/sys/devices/"): a stream is made around whatever
\* opendir("/libexec") returns.
OpendirSysDevices(t, s) ==
  /\ ~crashed /\ pc[t] = "idle" /\ state[s] = "unused"
  /\ opened = Dirs              \* EMFILE
  /\ create_shim_dir(s, NULL)
  /\ UNCHANGED <<native, heap, pc, local, handed, crashed>>

-----------------------------------------------------------------------------
(* Reading                                                                 *)

BlockOf(e) == ((e - 1) \div Block) * Block

\* The native readdir, and its null result at the end of the directory.
NativeReaddir(t, s, next) ==
  /\ MayCall(t, s) /\ dir[s] # NULL
  /\ LET e == pos[dir[s]] + 1 IN
       /\ e \in Entries
       /\ pos' = [pos EXCEPT ![dir[s]] = e]
       /\ buffer' = [buffer EXCEPT ![dir[s]] = BlockOf(e)]
       /\ entry' = [entry EXCEPT ![t] = e]
  /\ pc' = [pc EXCEPT ![t] = next]
  /\ tgt' = [tgt EXCEPT ![t] = s]
  /\ UNCHANGED <<stream, list, mutex, opened, heap, got, cell, head, handed,
                 crashed>>

Readdir(t, s)   == CellLeft /\ NativeReaddir(t, s, "copy")    \* and readdir64
Readdir_r(t, s) == NativeReaddir(t, s, "copy_r")              \* and 64_r

\* What the thread's pointer into the native buffer gives now.
AtPointer(t) ==
  LET d == dir[tgt[t]]
      e == buffer[d] + (entry[t] - BlockOf(entry[t]))
  IN  IF e = entry[t] THEN {e} ELSE {e, TORN}

\* Variant: the stream has one cell, reused as glibc reuses its buffer.
AllocReuses(t) ==
  IF list[tgt[t]] # {} THEN list[tgt[t]] ELSE Cells \ allocated

Malloc(t) == Cells \ allocated

\* copy_direntry into malloc'ed memory, and the shim_dir_entry for it.
Copy(t) ==
  /\ ~crashed /\ pc[t] = "copy"
  /\ \E c \in Malloc(t), e \in AtPointer(t) :
       /\ allocated' = allocated \cup {c}
       /\ copied' = [copied EXCEPT ![c] = e]
       /\ cell' = [cell EXCEPT ![t] = c]
       /\ got' = [got EXCEPT ![t] = e]
  /\ pc' = [pc EXCEPT ![t] = "lock"]
  /\ UNCHANGED <<stream, list, mutex, native, tgt, entry, head, handed,
                 crashed>>

\* A call returns and its local variables are gone.
Leave(t) ==
  /\ pc' = [pc EXCEPT ![t] = "idle"]
  /\ tgt' = [tgt EXCEPT ![t] = NULL]
  /\ entry' = [entry EXCEPT ![t] = 0]
  /\ got' = [got EXCEPT ![t] = TORN]
  /\ cell' = [cell EXCEPT ![t] = NULL]
  /\ head' = [head EXCEPT ![t] = {}]

\* readdir_r copies into the program's own buffer.
Copy_r(t) ==
  /\ ~crashed /\ pc[t] = "copy_r"
  /\ Leave(t)
  /\ UNCHANGED <<stream, list, mutex, native, heap, handed, crashed>>

\* Variant: insert_entry goes on without the mutex.
LockNothing(t) ==
  /\ ~crashed /\ pc[t] = "lock"
  /\ pc' = [pc EXCEPT ![t] = "link"]
  /\ UNCHANGED <<stream, list, mutex, native, heap, local, handed, crashed>>

Lock(t) ==
  /\ ~crashed /\ pc[t] = "lock"
  /\ mutex[tgt[t]] = NoThread
  /\ mutex' = [mutex EXCEPT ![tgt[t]] = t]
  /\ pc' = [pc EXCEPT ![t] = "link"]
  /\ UNCHANGED <<stream, list, native, heap, local, handed, crashed>>

\* SLIST_INSERT_HEAD: the new cell's next is the old head ...
Link(t) ==
  /\ ~crashed /\ pc[t] = "link"
  /\ head' = [head EXCEPT ![t] = list[tgt[t]]]
  /\ pc' = [pc EXCEPT ![t] = "insert"]
  /\ UNCHANGED <<stream, list, mutex, native, heap, tgt, entry, got,
                 cell, handed, crashed>>

\* ... and the head is the new cell.
Insert(t) ==
  /\ ~crashed /\ pc[t] = "insert"
  /\ list' = [list EXCEPT ![tgt[t]] = head[t] \cup {cell[t]}]
  /\ pc' = [pc EXCEPT ![t] = "unlock"]
  /\ UNCHANGED <<stream, mutex, native, heap, local, handed, crashed>>

Return(t) ==
  /\ handed' = [handed EXCEPT ![tgt[t]] = @ \cup {<<cell[t], got[t]>>}]
  /\ Leave(t)

\* Variant: insert_entry returns with the mutex locked.
UnlockNothing(t) ==
  /\ ~crashed /\ pc[t] = "unlock"
  /\ Return(t)
  /\ UNCHANGED <<stream, list, mutex, native, heap, crashed>>

Unlock(t) ==
  /\ ~crashed /\ pc[t] = "unlock"
  /\ mutex' = [mutex EXCEPT ![tgt[t]] = NoThread]
  /\ Return(t)
  /\ UNCHANGED <<stream, list, native, heap, crashed>>

-----------------------------------------------------------------------------
(* Moving, and closing                                                     *)

\* rewinddir (p = 0) and seekdir; the native call may refill the buffer.
Seekdir(t, s) ==
  /\ MayCall(t, s) /\ dir[s] # NULL
  /\ \E p \in 0..Last :
       /\ pos' = [pos EXCEPT ![dir[s]] = p]
       /\ \E b \in {buffer[dir[s]]} \cup {BlockOf(e) : e \in {p} \ {0}} :
            buffer' = [buffer EXCEPT ![dir[s]] = b]
  /\ UNCHANGED <<stream, list, mutex, opened, heap, pc, local, handed, crashed>>

\* Any call on a stream around a null DIR.
UseNullDir(t, s) ==
  /\ MayCall(t, s) /\ dir[s] = NULL
  /\ crashed' = TRUE
  /\ UNCHANGED <<stream, list, mutex, native, heap, pc, local, handed>>

\* closedir begins with the native one: the DIR is free for anybody's open.
Closedir(t, s) ==
  /\ MayCall(t, s) /\ InCall(s) = {} /\ dir[s] # NULL
  /\ opened' = opened \ {dir[s]}
  /\ pos' = [pos EXCEPT ![dir[s]] = 0]
  /\ buffer' = [buffer EXCEPT ![dir[s]] = 0]
  /\ state' = [state EXCEPT ![s] = "closing"]
  /\ handed' = [handed EXCEPT ![s] = {}]
  /\ pc' = [pc EXCEPT ![t] = "destroy"]
  /\ tgt' = [tgt EXCEPT ![t] = s]
  /\ UNCHANGED <<dir, shared, list, mutex, heap, entry, got, cell, head,
                 crashed>>

DestroyLock(t) ==
  /\ ~crashed /\ pc[t] = "destroy"
  /\ mutex[tgt[t]] = NoThread
  /\ mutex' = [mutex EXCEPT ![tgt[t]] = t]
  /\ UNCHANGED <<stream, list, native, heap, pc, local, handed, crashed>>

\* Variant: the entries are unlinked but not freed.
DestroyForgets(t) ==
  /\ ~crashed /\ pc[t] = "destroy" /\ mutex[tgt[t]] = t
  /\ \E c \in list[tgt[t]] : list' = [list EXCEPT ![tgt[t]] = @ \ {c}]
  /\ UNCHANGED <<stream, mutex, native, heap, pc, local, handed, crashed>>

DestroyEntry(t) ==
  /\ ~crashed /\ pc[t] = "destroy" /\ mutex[tgt[t]] = t
  /\ \E c \in list[tgt[t]] :
       /\ list' = [list EXCEPT ![tgt[t]] = @ \ {c}]
       /\ allocated' = allocated \ {c}
       /\ copied' = [copied EXCEPT ![c] = TORN]
  /\ UNCHANGED <<stream, mutex, native, pc, local, handed, crashed>>

\* Unlocks and destroys the mutex, frees the shim_directory.
DestroyDone(t) ==
  /\ ~crashed /\ pc[t] = "destroy" /\ mutex[tgt[t]] = t
  /\ list[tgt[t]] = {}
  /\ mutex' = [mutex EXCEPT ![tgt[t]] = NoThread]
  /\ state' = [state EXCEPT ![tgt[t]] = "unused"]
  /\ dir' = [dir EXCEPT ![tgt[t]] = NULL]
  /\ shared' = shared \ {tgt[t]}
  /\ Leave(t)
  /\ UNCHANGED <<list, native, heap, handed, crashed>>

-----------------------------------------------------------------------------

Step(t) ==
  \/ Copy(t) \/ Copy_r(t)
  \/ Lock(t) \/ Link(t) \/ Insert(t) \/ Unlock(t)
  \/ DestroyLock(t) \/ DestroyEntry(t) \/ DestroyDone(t)

Next == \E t \in Threads :
  \/ Step(t)
  \/ \E s \in Streams :
       \/ Opendir(t, s) \/ OpendirSysDevices(t, s)
       \/ Readdir(t, s) \/ Readdir_r(t, s) \/ Seekdir(t, s)
       \/ Closedir(t, s) \/ UseNullDir(t, s)

Spec == Init /\ [][Next]_vars

\* A call that began goes on; the shim never waits but for its own mutex.
FairSpec == Spec /\ \A t \in Threads : WF_vars(Step(t))

-----------------------------------------------------------------------------
(* Properties                                                              *)

Reading == {"copy", "copy_r"}
Locked  == {"link", "insert", "unlock"}
Holding == Filling \cup {"unlock"}       \* has a cell of its own

\* The memory malloc'ed for entries is what the lists reach and what the
\* calls under way still have to link: insertions of two threads at
\* dirent.c:97 never lose one another, and closedir frees every entry.
NoLeak ==
  \A c \in allocated :
    \/ \E s \in Streams : c \in list[s]
    \/ \E t \in Threads : pc[t] \in Filling /\ cell[t] = c

\* An entry that readdir returned stays where it is and as it was until its
\* stream is closed, whatever is read, opened or closed meanwhile.
HandedIntact ==
  \A s \in Streams : \A h \in handed[s] :
    h[1] \in list[s] /\ copied[h[1]] = h[2]

\* Where the calls on a stream do not overlap, or the directory fits in one
\* buffer, the copy is that of the entry the native readdir gave the thread,
\* although it is made outside any lock.
Private(t) == tgt[t] \notin shared \/ Last <= Block

Faithful ==
  \A t \in Threads : Private(t) =>
    /\ pc[t] \in Reading => AtPointer(t) = {entry[t]}
    /\ pc[t] \in Holding => got[t] = entry[t]

\* The mutex of a stream is held by a thread inside insert_entry or
\* destroy_shim_dir of that stream and by nobody else: it is free when
\* pthread_mutex_destroy asserts that it was (dirent.c:61).
MutexOwned ==
  /\ \A s \in Streams : mutex[s] # NoThread =>
       /\ pc[mutex[s]] \in Locked \cup {"destroy"}
       /\ tgt[mutex[s]] = s
  /\ \A t \in Threads : pc[t] \in Locked => mutex[tgt[t]] = t

\* A closedir that began ends.
ClosedirEnds ==
  \A s \in Streams : state[s] = "closing" ~> state[s] = "unused" \/ crashed

-----------------------------------------------------------------------------
(* The inductive invariant                                                 *)

\* A call is on a stream that exists; a closing stream has one call.
CallsOK ==
  \A t \in Threads :
    /\ pc[t] = "idle" <=> tgt[t] = NULL
    /\ pc[t] \in Reading \cup Holding =>
         /\ state[tgt[t]] = "open"
         /\ dir[tgt[t]] # NULL
         /\ entry[t] \in Entries
    /\ pc[t] = "destroy" => state[tgt[t]] = "closing"
    /\ pc[t] \in Holding => cell[t] \in Cells

\* Only calls on a shared stream overlap, and none overlaps a closedir.
Alone ==
  \A t, u \in Threads : t # u /\ tgt[t] = tgt[u] /\ tgt[t] # NULL =>
    tgt[t] \in shared /\ pc[t] # "destroy"

\* An unused stream has no entries, and the program holds none but of an
\* open one.
Unused ==
  \A s \in Streams :
    /\ state[s] = "unused" => list[s] = {}
    /\ state[s] # "open" => handed[s] = {}

\* A cell is in one list at most, or being filled by one thread.
CellsApart ==
  /\ \A s \in Streams :
       /\ list[s] \subseteq allocated
       /\ \A r \in Streams \ {s} : list[r] \cap list[s] = {}
  /\ \A t \in Threads : pc[t] \in Filling =>
       /\ cell[t] \in allocated
       /\ \A s \in Streams : cell[t] \notin list[s]
       /\ \A u \in Threads \ {t} : pc[u] \in Filling => cell[u] # cell[t]

\* The list does not change between the two halves of SLIST_INSERT_HEAD, and
\* the cell has what was copied.
InsertAtomic ==
  \A t \in Threads :
    /\ pc[t] = "insert" => head[t] = list[tgt[t]]
    /\ pc[t] = "unlock" => cell[t] \in list[tgt[t]]
    /\ pc[t] \in Holding => copied[cell[t]] = got[t]

\* No two streams in use stand on one native DIR.
OwnDir ==
  \A s \in Streams : state[s] = "open" /\ dir[s] # NULL =>
    /\ dir[s] \in opened
    /\ \A r \in Streams \ {s} : state[r] = "open" => dir[r] # dir[s]

\* What is in the buffer of a directory that fits in it.
OneBlock == Last <= Block => \A d \in Dirs : buffer[d] = 0

\* Faithful, as a step keeps it.
InBuffer ==
  \A t \in Threads : Private(t) /\ pc[t] \in Reading =>
    buffer[dir[tgt[t]]] = BlockOf(entry[t])

CopiedRight ==
  \A t \in Threads : Private(t) /\ pc[t] \in Holding => got[t] = entry[t]

IInv ==
  /\ TypeOK /\ CallsOK /\ Alone /\ Unused /\ CellsApart /\ NoLeak
  /\ MutexOwned /\ InsertAtomic /\ HandedIntact /\ OwnDir /\ OneBlock
  /\ InBuffer /\ CopiedRight
=============================================================================
