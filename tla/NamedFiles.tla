------------------------------ MODULE NamedFiles ------------------------------
(***************************************************************************)
(* src/src/libc/stdio.c, unistd.c, stdlib.c, sys/stat.c: which file a call *)
(* on a path is about.  Some calls use redirect(), some the path as it is, *)
(* and two read the link to a process's program, which the environment may *)
(* override.  The last two answers are kept, whichever process got them.   *)
(***************************************************************************)
EXTENDS Process, Redirects, FiniteSets

CONSTANTS
  ProgramPaths,  \* paths the program uses
  Nodes,         \* numbers of its devices /dev/nvidia<number>
  Overrides      \* what SHIM_PROC_SELF_EXE may be: a path or NULL

ASSUME NodesAssumption == Nodes \subseteq Nat

VARIABLES
  proc_self_exe_override,
  pid,           \* of the process: a child has another
  answers,       \* the last two: [by, path, file]
  files_dead

filesVars == <<proc_self_exe_override, pid, answers, files_dead>>

-----------------------------------------------------------------------------
\* The process and its child.
Pids == {"1", "2"}

FilesInit ==
  /\ proc_self_exe_override \in Overrides
  /\ pid = "1" /\ answers = <<NULL, NULL>> /\ files_dead = FALSE

FilesLive == ~files_dead /\ UNCHANGED <<files_dead, proc_self_exe_override>>

FilesDie == ~files_dead /\ files_dead' = TRUE /\ UNCHANGED <<proc_self_exe_override, pid, answers>>

Sees(by, path, file) ==
  /\ FilesLive /\ UNCHANGED pid
  /\ answers' = <<answers[2], [by |-> by, path |-> path, file |-> file]>>

-----------------------------------------------------------------------------
(* Calls that use redirect()                                               *)

\* Files that fopen() makes up, and the only modes it makes them up for.
PARAMS == "/proc/driver/nvidia/params"
COMM   == "/proc/self/task/1/comm"
MEMORY == "memory"

fopen(p, mode) ==
  CASE p = PARAMS -> IF mode = "r"  THEN Sees("fopen", p, MEMORY) ELSE FilesDie
    [] p = COMM   -> IF mode = "wb" THEN Sees("fopen", p, "/dev/null") ELSE FilesDie
    [] OTHER -> Sees("fopen", p, redirect(p))

access(p) == Sees("access", p, redirect(p))

\* FreeBSD refuses a null path, as it would a hidden file.
lstat(p) == Sees("lstat", p, redirect(p))

-----------------------------------------------------------------------------
(* Calls that do not                                                       *)

\* Paths that begin with "/dev/", and of these with "/dev/char/195:".
DevPaths  == {"/dev/nvidia-uvm", "/dev/char/195:0"}
CharPaths == {"/dev/char/195:0"}

stat(p) == Sees("stat", p, p)

remove(p) == IF p \in DevPaths \ CharPaths THEN FilesDie ELSE Sees("remove", p, p)

\* chmod() and chown()
chmod(p) == IF p \in DevPaths THEN FilesDie ELSE Sees("chmod", p, p)

\* Device numbers: a word is the set of its bits, and no number here is long.
Bits(n) == {b \in 0..15 : (n \div 2 ^ b) % 2 = 1}

make_dev_id(major, minor) ==
  {b + 8  : b \in Bits(major) \cap (0..11)} \cup {b + 32 : b \in Bits(major) \ (0..11)} \cup
  {b      : b \in Bits(minor) \cap (0..7)}  \cup {b + 12 : b \in Bits(minor) \ (0..7)}

MinorKnown(i) == i < 254

\* stat() of /dev/nvidiactl, of /dev/nvidia-modeset and -uvm, and of
\* /dev/nvidia<number>: the number that the device shall have on Linux.
DeviceNodes ==
  {<<"c", 0>>, <<"-", 0>>, <<"-", 1>>} \cup {<<"number", i>> : i \in Nodes}

FIX_NV_DEV_ID(node) ==
  LET Is(minor) == Sees("stat device", node, make_dev_id(195, minor)) IN
    CASE node[1] = "c" -> Is(255)
      [] node[1] = "-" -> Is(254)
      [] OTHER -> IF MinorKnown(node[2]) THEN Is(node[2]) ELSE FilesDie

-----------------------------------------------------------------------------
(* Links: readlink() and realpath()                                        *)

Calls == {"readlink", "realpath"}

\* A name in /proc with one slash only is read through a null pointer; other
\* names in /proc and /sys are refused; the rest are read as they are.
link(p) ==
  CASE p \in {"/proc/version", "/proc/cpuinfo"} -> FilesDie
    [] p \in (ProcPaths \cup SysPaths) \ {"/proc/version", "/proc/cpuinfo"} ->
         FilesLive /\ UNCHANGED <<pid, answers>>
    [] OTHER -> Sees("link", p, p)

\* The file that runs: FreeBSD tells it of every process.
EXE == "exe"

\* Variant: the override is for the name "self" only.
OverriddenSelf(node) == node = "self"

Overridden(node) == node \in {"self", pid}

ProcessOf(node) == IF node = "self" THEN pid ELSE node

\* /proc/self/exe and /proc/<pid>/exe; a name that is not a number kills.  An
\* answer is of the process asked about, to the process asking: readlink()
\* cuts the override to the room it is given, and says so to nobody.
exe(by, node, cut) ==
  LET Told(file) == Sees(by, [asker |-> pid, of |-> ProcessOf(node)], <<file, cut>>) IN
    CASE node = "thread-self" -> FilesDie
      [] Overridden(node) /\ proc_self_exe_override # NULL ->
           (cut => by = "readlink") /\ Told(proc_self_exe_override)
      [] OTHER -> ~cut /\ Told(EXE)

\* FreeBSD's sysctl does not cut the path to the room that readlink() has.
readlink_fails(node) ==
  /\ node # "thread-self" /\ (Overridden(node) => proc_self_exe_override = NULL)
  /\ FilesLive /\ UNCHANGED <<pid, answers>>

\* The process forks, or the other of the two goes on.
fork == FilesLive /\ pid' \in Pids \ {pid} /\ UNCHANGED answers

FilesNext ==
  \/ \E p \in ProgramPaths :
       \/ \E mode \in {"r", "wb"} : fopen(p, mode)
       \/ access(p) \/ lstat(p) \/ stat(p) \/ remove(p) \/ chmod(p)
       \/ link(p)
  \/ \E node \in DeviceNodes : FIX_NV_DEV_ID(node)
  \/ \E node \in {"self", "thread-self"} \cup Pids :
       (\E by \in Calls, cut \in BOOLEAN : exe(by, node, cut)) \/ readlink_fails(node)
  \/ fork

FilesSpec == FilesInit /\ [][FilesNext]_filesVars

-----------------------------------------------------------------------------
(* Properties                                                              *)

Redirecting == {"fopen", "access", "lstat"}
AsTheyAre   == {"stat", "remove", "chmod", "link"}

MadeUp(a) == a.by = "fopen" /\ a.path \in {PARAMS, COMM}

\* A path is one file to every call that redirects and one to every call that
\* does not; to the two kinds it is another if redirect() changes it, as
\* when lstat() finds /dev/null and stat() the device.
PathsAgree(a, b) ==
  /\ {a.by, b.by} \subseteq Redirecting \cup AsTheyAre
  /\ a.path = b.path /\ ~MadeUp(a) /\ ~MadeUp(b)
  => (a.file = b.file <=>
        (a.by \in Redirecting <=> b.by \in Redirecting) \/ redirect(a.path) = a.path)

AsksOfItself(a) == a.path.asker = a.path.of

\* The link to a process's program reads the same by any of its names and by
\* either call, save that a process that is told the override for itself is
\* told the file that runs for its parent or child.
LinksAgree(a, b) ==
  /\ {a.by, b.by} \subseteq Calls /\ a.path.of = b.path.of
  => \/ a.file[1] = b.file[1]
     \/ proc_self_exe_override # NULL /\ AsksOfItself(a) # AsksOfItself(b)

\* stat() tells any two devices apart, but for those named /dev/nvidia-*,
\* which all have the number of nvidia-modeset.
DevicesApart(a, b) ==
  a.by = "stat device" /\ b.by = "stat device" =>
    (a.file = b.file <=> a.path = b.path \/ (a.path[1] = "-" /\ b.path[1] = "-"))

\* What a program is told of a name by two calls, of one process or of a
\* parent and its child, agrees but for the exceptions above.
NamesTold ==
  LET a == answers[1]   b == answers[2] IN
    a # NULL /\ b # NULL => PathsAgree(a, b) /\ LinksAgree(a, b) /\ DevicesApart(a, b)

MinorOf(node) == CASE node[1] = "c" -> 255 [] node[1] = "-" -> 254 [] OTHER -> node[2]

\* The file of an answer depends on its name and on what never changes.
AnswerIs(a) ==
  /\ a.by \in Redirecting /\ ~MadeUp(a) => a.file = redirect(a.path)
  /\ a.by \in AsTheyAre => a.file = a.path
  /\ a.by \in Calls =>
       a.file[1] = IF AsksOfItself(a) /\ proc_self_exe_override # NULL
                   THEN proc_self_exe_override ELSE EXE
  /\ a.by = "stat device" =>
       /\ a.path \in DeviceNodes /\ MinorOf(a.path) \in 0..255
       /\ a.path[1] = "number" => MinorKnown(a.path[2])
       /\ a.file = make_dev_id(195, MinorOf(a.path))

\* The conjunction is inductive: it is proved in CallsProofs.
FilesIInv ==
  /\ pid \in Pids
  /\ DOMAIN answers = {1, 2}
  /\ \A i \in {1, 2} : answers[i] = NULL \/ AnswerIs(answers[i])
=============================================================================
