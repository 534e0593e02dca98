# A verification project for libc6-shim

libc6-shim lets shared objects that were compiled on Linux against glibc run
inside a native FreeBSD process. It is a library that exports glibc's symbols;
each `shim_*_impl` function converts constants and structures, calls FreeBSD's
libc or libthr, and converts the results back. Most of it is stateless. The
state it does keep (native objects behind glibc's memory, entries handed out
and owed a `free`, process-wide tables, per-thread pointers) is shared between
the program's threads, and nothing in the repository tests it. The modules here
model that code, `src/` being the repository, with TLC checking small instances
and TLAPS proving the main invariants for all of them.

Running: `tlc -config X.cfg M` for a pair of the table of runs, and `tlapm M.tla`
for the proofs, M being `LazyMutexProofs`, `DirStreamProofs`, `SignalsProofs`,
`DescriptorsProofs`, `SocketsProofs`, `FutexesProofs`, `ThreadsProofs` (locales,
thread calls, time zone) or `CallsProofs` (attributes, socket options, exits, named
files, lists). `PROJECT.json` maps every definition to the lines it models.

## 1. Inventory

| Part | State it keeps | Operations | Hard behaviours | What makes it correct |
|---|---|---|---|---|
| mutexes, condition waits (`libthr/pthread.c`) | a pointer to a native mutex and a type in each `pthread_mutex_t`; `mutex_initialization_mutex` | init, destroy, lock, trylock, timedlock, unlock, cond wait | first use by several threads at once (double-checked test), allocation failure, destroy before use, a wait that lets a recursive mutex go | one native object per mutex; exclusion; the type asked for; no lock left behind |
| directory streams (`libc/dirent.c`) | native `DIR`, list of entries handed out, mutex | opendir, readdir(_r), seekdir, closedir, scandir | copy outside the lock, native `DIR` reused while entries are freed, several readers | entries neither lost nor freed early; delivered as read |
| signals (`libc/signal.c`) | none of its own: the kernel's actions and masks, in FreeBSD's numbers | signal, sigaction, kill, raise, set operations, sigprocmask | handlers are not wrapped; fault handlers filtered in one call of two | conversions faithful in both directions; filter complete |
| descriptors and paths (`libc/fcntl.c`, `unistd.c`, `util.c`, `sys/stat.c`, `stdio.c`, `stdlib.c`) | `procfs_redirects`, filled by a constructor; descriptors in the kernel | open, fcntl, shm_open, pipe2, access, readlink, realpath, stat, fopen | flags read, changed and written back; a null from `redirect`; `O_TMPFILE` containing `O_DIRECTORY` | flags round-trip; close-on-exec as asked; a path is one file to all calls that redirect it |
| locales (`libc/locale.c`) | `thread_locale` per thread, locale objects, `process_lconv` | newlocale, duplocale, uselocale, freelocale, setlocale, localeconv | two views of a thread's locale; a process-wide copy of a per-thread answer | both views agree; objects live while used |
| other thread objects (`libthr/pthread.c`) | attribute bits in glibc's memory; arguments of i386 threads | attributes, barriers, rwlocks, once, create, join, kill, sigmask | argument block handed to a new thread; cancelled threads' results | attributes round-trip; one free per argument block |
| sockets (`libc/sys/socket.c`) | none | addresses, levels, options, flags, control messages | lengths in and out, partial conversion, an empty control buffer | conversions inverse to each other; lengths bounded |
| raw system calls, futexes (`libc/sys/syscall.c`, `futexes.c`) | a per-thread robust list | dispatch; futex wait and wake | wait compares 64 bits and reports success for a mismatch | no wake-up lost |
| errors (`util.c`, `libc/errno.c`, `string.c`) | `errno` | both conversions; perror | tables that are not inverse to each other; `errno` left stale | converted exactly once |
| time (`libc/time.c`) | `tzname`, `timezone`, `daylight` | tzset, clocks, timers | globals refreshed outside any lock | globals agree with each other |
| names, interfaces, users (`netdb.c`, `ifaddrs.c`, `pwd.c`, `glob.c`, `ftw.c`) | lists allocated for the program | getaddrinfo, getifaddrs, glob and their frees | partial failure; memory freed by another call | each block freed once |
| start-up and loading (`main.c`, `dlfcn.c`, `globals.c`) | globals, `libepoll` function pointers, i386 exit handlers | constructor, `__libc_start_main`, `dlopen`, `dlsym`, `__cxa_atexit` | order of constructors, optional libraries | nothing used before it is set |
| events and memory (`sys/epoll.c`, `inotify.c`, `eventfd.c`, `mman.c`, `ioctl.c`, `sem.c`, `select.c`, `poll.c`, `sched.c`, `semaphore.c`) | none | pass-through with flag conversion | assertions on unknown flags | flags converted bit for bit |
| tables (`ctype.c`, `wctype.c`, `langinfo.c`, `libm`, `setjmp.c`, `ucontext.c`, ...) | constant | reads | none | contents (out of scope) |
| generators (`prototypes.rb`, `utils/*.rb`, symbol lists, `*.map`), launchers (`bin/`) | files | code generation, environment set-up | none at run time | out of scope |

Interaction is by calls: the program calls the shim, the shim calls libc. Parts
of the shim share little: `redirect` serves most calls on paths, the errno
tables serve most, the libepoll pointers set at start-up serve all calls on
descriptors, and `linux_to_freebsd_signo` serves signals and `pthread_kill`.
Concurrency is the program's own: any shim function may run in any thread.

## 2. How it is built, and in which order

Each module has one action per operation and its parameters as constants, so
that it can be proved about as well as checked.

1. `LazyMutex` with `TypedMutex` as its abstract specification; `LazyMutexProofs`.
2. `DirStream`; `DirStreamProofs`.
3. `Signals` with `LinuxSignals` as its abstract specification; `SignalsProofs`
   proves that one implements the other.
4. `Redirects`, the table of replaced paths; `Descriptors` over it and over
   `UnixDescriptors`, the kernel, with `LinuxDescriptors` as the abstract
   specification; `DescriptorsProofs` proves that one implements the other.
5. `LinuxNumbers`, the error numbers and the conversion of words of flags;
   `Sockets` and `Futexes` over it; `SocketsProofs`, `FutexesProofs`.
6. The parts that share no state: `Locales`, `ThreadCalls`, `Attributes`, `Lists`,
   `TimeZone`, `SocketOptions`, `Exits`, `NamedFiles` (over `Redirects`), all over
   `Process`, which has the program's threads and the null pointer. `MCCalls`
   composes them for TLC. `ThreadsProofs` is about the parts that threads share,
   `CallsProofs` about the others.

What would come next, in this order: robust mutexes; the arrays of `struct pollfd`
and the event masks of `epoll`, whose conversions are pure.

## 3. Modules

### LazyMutex, TypedMutex

A glibc mutex is memory that a static initialiser fills without a call. The
shim keeps in it a pointer to a native mutex (`wrapped`) and the type that the
initialiser asked for (`linux_kind`). FreeBSD would create the native object on
first use, but only of its default type, so the shim does it itself:
`init_mutex_if_necessary` tests the pointer (`Check`, line 210, without a
lock), takes a process-wide mutex (`AcquireInitLock`), tests again (`Recheck`),
creates the object (`LazyInit`) and lets the mutex go (`ReleaseInitLock`). Then
the native call is made. Every one of these is a step of its own, and other
threads' steps come between them.

| Variable | Code |
|---|---|
| `wrapped`, `linux_kind` | the two fields of `struct shim_pthread_mutex` |
| `init_owner` | owner of `mutex_initialization_mutex` |
| `pc`, `op`, `tgt`, `obj`, `saved` | where a thread is in a call, and the native call's locals |
| `objKind`, `owner`, `count` | native mutexes at the addresses they are allocated at (external) |
| `ready`, `type`, `held` | the program's view: mutexes it may use, the type it asked for, the successes it was told of |
| `failed` | mutexes whose native init at line 224 failed, which the code ignores |
| `aborted` | an assertion failed |

The native mutex is external and modelled by its results: taken, taken again by
its owner when recursive, EBUSY, ETIMEDOUT, EDEADLK, EAGAIN at `MaxDepth`,
EPERM; a wait that gives up the whole count and takes it back. Types of
assertion-checking matter: unlocking what one does not hold is a legal call only
for types that check. `DEFAULT` stands for "no type asked for": a null
attribute, or the plain static initialiser, for which FreeBSD's own lazy
initialisation is used.

ENOMEM at line 224 is not looked at. The mutex joins `failed`: the native call
then sees a null pointer and creates a mutex of FreeBSD's default type under
libthr's lock, which does not exclude another thread between lines 215 and 224
from storing a second one. So after a failed allocation exclusion is really
lost, and the properties promise it only outside `failed`; `NoOrphanObject`, that
no native mutex is lost in a race, is promised while no allocation has failed.

`TypedMutex` is POSIX's view: who holds what, how deep, and who sleeps in a wait.
`ImplementsPosix` maps the shim's mutexes onto it.

Not modelled: robust mutexes (`pthread_mutex_consistent`), priority protocols and
process-shared mutexes; errors that the lock calls return unconverted (EDEADLK is
11 on FreeBSD and 35 on Linux), which belong to the errno tables.

### DirStream

A stream is a native `DIR`, the list of the entries that were handed out, and a
mutex. `readdir` gets a pointer into the `DIR`'s buffer (`NativeReaddir`), copies
the entry to new memory with no lock held (`Copy`), and links it (`Lock`, `Link`,
`Insert`, `Unlock`; `SLIST_INSERT_HEAD` is two steps, so a missing lock would show).
`closedir` closes the native `DIR` first, so that another thread may open it
again while the entries are being freed (`Closedir`, `DestroyLock`, `DestroyEntry`,
`DestroyDone`).

Lists are sets of cells, because their order is never used. The native buffer
holds `Block` entries and is refilled in place: a pointer into it is an entry
number and a block, and a copy made after another thread's refill gives the
wrong entry, or a torn one (`TORN`). `Faithful` therefore speaks of streams whose
calls do not overlap and of directories that fit in one buffer; a longer
directory that several threads read through one stream really can deliver wrong
entries. `opendir("/sys/devices/")` makes a stream around `opendir("/libexec")`
whatever it returns; with no descriptor left that is a null `DIR`, and the next
call crashes (`UseNullDir`).

### Signals, LinuxSignals

Actions, masks and pending signals are the kernel's. The shim converts signal
numbers and `SA_*` bits, passes handlers and `sigset_t` memory as they are, keeps
`sigaction` away from SIGABRT, SEGV, BUS and SYS, and aborts (`AssertConverted`) or
fails for a signal it has no number for. A word of flags is the set of its bits'
numbers, so both tables are in one relation, `SigactionFlags`.

`LinuxSignals` is what the program relies on, by Linux numbers; the mapping reads
the kernel's state back through the conversions. Since a handler is called with
FreeBSD's number, the refinement holds only because a converted number is the
same number, as the comment at signal.c:45 says of SIGPWR. `old` is the old
action that the call just made has stored, so that `ImplementsLinux` also covers
the way out.

Not modelled: `sigaltstack`, `sigsuspend`, `siginfo_t` (passed unconverted), calls
that only abort.

### Descriptors, UnixDescriptors, LinuxDescriptors

FreeBSD's and Linux's kernels have the same descriptors: several of them may
share an open file description, which has the access mode and the status flags;
close-on-exec belongs to the descriptor and record locks to the process. Only the
numbers differ. `UnixDescriptors` is that kernel with the numbers as the constant
`O`. `Descriptors` is the shim over `UnixDescriptors` in FreeBSD's numbers, and
`LinuxDescriptors` is `UnixDescriptors` in Linux's with the liberties a program
must allow: a call may be refused, the process may end. The mapping undoes the
names that `redirect` gives and the bits that the conversions set; paths with one
replacement, as /dev/nvidia-uvm and /proc/self/maps have, are links to one file. `ret` is the
last call's answer in the program's terms, so that `ImplementsLinux` covers the
flags reported by F_GETFL as well as those stored.

| Action | Code |
|---|---|
| `OpenHidden`, `OpenTmpfile`, `Open` | `shim_open_impl`, its two early returns apart |
| `ShmOpen`, `Pipe2`, `Access`, `write`, `close` | one function each |
| `GetFd`, `SetFd`, `GetFl`, `SetFl`, `SetLock`, `DupfdCloexec` | the commands of `shim_fcntl_impl` |
| `GetFlAsserts`, `SetFlAsserts` | its assertions at lines 76 and 90 |

Three places in the code are less than Linux, and the abstract specification
leaves room for them: the descriptor of `shm_open` is not close-on-exec
(`O_CLOEXEC` is or-ed into the mode at fcntl.c:227); `open` with `O_DIRECTORY`
always fails, because the test for `O_TMPFILE` is true of its one shared bit; and
FreeBSD's pipes can be read and written at both ends, which F_GETFL reports.

`got` is what F_GETFL has just reported, from which a program builds F_SETFL's
argument; other calls forget it, which loses no step of the code, for the shim
keeps nothing between the two. Files are there or not and empty or not, which is
what O_CREAT, O_EXCL and O_TRUNC are about. `busy` is another process's
exclusive lock; shared ones of others are left out.

Not modelled: F_ADD_SEALS and the commands of fcntl that only abort.

### Sockets, LinuxNumbers

The shim keeps no state for sockets: names, types, flags and control messages are
converted on each call's way in and out, and the kernel keeps what results. So
`sock`, `files` and `queue` are FreeBSD's, in FreeBSD's numbers, and `asked` and
`meant` in `sock` remember what the program had said, for the properties to
compare with. `ret` is what the last call has told, until the program has looked at
it (`Returns`) and makes its next call.

- A name is a sequence of pieces and its length their number; one piece may be
  `NUL`, and `behind` is what follows the name in the program's memory. `snprintf`
  (socket.c:142) takes a C string (`CString`): an abstract name becomes a file in
  `/var/run` that is named by what comes before its first NUL, or by more than the
  name if it has none, cut to the length of FreeBSD's field (`InVarRun`). Linux
  counts the name by the length of the address, so names that differ behind a NUL
  are one file here; `NamesApart` is about names for which this makes no difference
  (`Plain`), and says so. A path must fit or the process ends. The file stays when
  the socket is closed, which the code asks about itself: a later `bind` meets
  EADDRINUSE.
- `sendto` with a null destination, as on a connected socket, reads through it and
  dies (socket.c:546).
- `__recv_chk` (socket.c:597) passes Linux's flags on as FreeBSD's and converts no
  error: Linux's MSG_DONTWAIT is FreeBSD's MSG_WAITALL, so that the call waits, and
  its EAGAIN is 35. `Stops` is what an empty or full queue means to any of the calls
  (to wait, or to give up with an errno), by the native flags it was given;
  `NonblockingCallsReturn` names the exception. MSG_PEEK and MSG_OOB are left
  out: no set in `FlagSets` has them (`SocketsAssumption`).
- A reported address is converted back; an abstract name comes back as the path,
  by which the sender can be answered all the same (`ReplyReachesSender`). Where
  the kernel writes no address, on a connected stream, the shim converts a local
  that was never written: any family, a PANIC among the outcomes.
- Control messages are converted one by one. Without room for them the kernel
  says MSG_CTRUNC and closes the descriptors. The call stores a null
  `msg_control` into the program's own header when nothing came, so a program that
  uses the header again without pointing it to its buffer dies in the next call
  that has something to tell (`msg_control`, `SetControl`).
- A reported flag is known; MSG_EOF, which ends in an assertion, is never
  reported by these sockets.
- EAGAIN, ENOSYS, ETIMEDOUT and EINPROGRESS are the errors that are converted
  (`native_to_linux_errno` in `LinuxNumbers`), by most calls; every other number,
  ECONNREFUSED among them, is told as FreeBSD's.

Streams come as pairs only, because `listen` and `accept` pass on what the
modelled functions convert. `read` and `write` on sockets are those of descriptors.

### SocketOptions

An option is a pair of a level and a number, on both sides; values are passed
as they are, and FreeBSD tells a flag that is set by its own bit. `IP_MTU_DISCOVER`,
a number from 0 to 3, becomes the flag `IP_DONTFRAG` (socket.c:621), so that 2 is
taken and 1 is told (`Flattened`). Options of
IPv6 are passed on at the level of IPPROTO_IP: `IPV6_V6ONLY` is refused on an
IPv6 socket, and is `IP_ORIGDSTADDR` on an IPv4 one. `SO_PASSCRED` is passed at
level 0, number 3: `LOCAL_CREDS_PERSISTENT` on a local socket, `IP_TOS` on an IPv4
one. `SO_ERROR` is told by FreeBSD's number. A send buffer of 0 is taken and
not passed on (`Dropped`): what is read is what there was before. `OptionsKept` says
that but for `Dropped` and `Flattened` each option is read back as it was set, a
number as a number and a flag as zero or not: no two options of Linux are one of
FreeBSD's.

### Futexes

`FUTEX_WAIT` is a umtx wait, which compares a `long`: on amd64 the 32 bits behind
the futex (`upper`, changed by the program in `Scribble`) take part. A mismatch,
whichever half it is in, answers 0 where Linux has EAGAIN. What depends on this
is the program's lock, so that is in the module: the mutex of three states (free,
held, held with sleepers) which programs build on futexes. The kernel puts a
thread into the queue before it reads the word (`FUTEX_WAIT_PRIVATE`,
`UMTX_OP_WAIT`), and a wake, a signal (`WaitFails`) or the end of a timeout may
come between any two steps. With something in `upper` a wait never sleeps and the
lock spins, which is slow and still excludes. A program that meets an errno
it cannot make sense of ends itself (`Came`), as the C++ runtime does; hence
`WaitsAreUnderstood`.

`FUTEX_other`, `CAPGET`, `TGKILL` and `UNIMPLEMENTED` are the branches of
`shim_syscall_impl` that answer for themselves. The others pass their arguments on.

### Process, Locales

A Linux locale is a block around a native one. A thread's locale is kept twice:
`thread_locale`, the shim's thread-local pointer, and `in_force`, FreeBSD's.
`native_locale` is the block's field, `natives` the native locales that exist,
`global` and `process_lconv` the process's locale per category and the one
`struct lconv` that every `setlocale` copies into, whichever thread calls. `own`
says that the last to do so was a thread with a locale of its own, after which
`localeconv` is that thread's for all: the one exception of `LconvOfProcess`.
FreeBSD's `newlocale` may fail; the program gets a block with a null inside, and
`uselocale` of it leaves FreeBSD where it was (`NativeOf`).

### ThreadCalls

On i386 a new thread gets a block with its routine and argument (pthread.c:641),
which the wrapper reads (`Call`) and frees when the routine returns (`Return`);
`pthread_exit`, cancellation and a failed creation leave it for ever. `wargs` is
the blocks' content, `cell` the block a thread was given. Without memory the block
is written at null. FreeBSD's `PTHREAD_CANCELED` is 1 and Linux's -1; a routine that
returns `(void*)1` is taken for cancelled (`TellsJoined`). No property is about
that: it could only repeat the conversion.

### Attributes

`mutexattr` has the bit fields of `struct shim_pthread_mutexattr`, `condattr` and
`barrierattr` are words of bits, `attr` is FreeBSD's. `asked` is what the program
has set last, `made` the object that the last call has made of an attribute, by
FreeBSD's numbers. A value that does not fit its field, or is not known, ends the
process. `pthread_attr_setschedparam` takes a priority and stores none
(pthread.c:675), which is the exception of `SettingsRead`.

### Lists

`heap` counts the blocks of each kind that are allocated, `held` the results that
the program has. `getaddrinfo`, `getifaddrs`, `scandir` and `glob` make them of any
list that FreeBSD may give, up to `MaxLength`; what FreeBSD gives is freed in the
same call. Null names, addresses and masks, and families that are not
known, are among the inputs. `FirstRoom` is the number of places that `scandir`
begins with, 32 in the code; `Scanned` is its loop, the array after each entry, and
an entry that is written behind the array is lost. `qsort` puts equal names in any
order.

### TimeZone

`tzset` refreshes FreeBSD's zone, then copies the names, searches for the offset of
standard time, stores it, searches for summer time and stores the flag; each is a
step, and other threads' calls and `setenv` come between. `localtime`, too, makes
FreeBSD take the environment's zone. `of` and `undisturbed` belong to the
property: the zone that the first of overlapping calls has begun with, and
whether the environment was left alone since. A zone is its offset on 21 June and
21 December of every year since 1970, which is all that the code asks for.

### Exits

`__libc_start_main` calls the program's constructors before it registers `fini`, so
`fini` runs before the handlers that constructors have registered, unlike in
glibc; the dynamic linker's handler is never called. On i386 every handler has a
box (`wrapper_args`) that its wrapper frees after the call. `atexit` is FreeBSD's
list; libraries are loaded and unloaded, and their handlers called, in any order;
handlers may register handlers.

### Redirects, NamedFiles

`redirect` gives a path's replacement, itself, or null for a path that is hidden.
`fopen`, `access`, `lstat` and `open` ask it; `stat`, `remove`, `chmod`, `readlink`
and `realpath` do not. `lstat` passes the null on, which the kernel refuses. `fopen`
makes up two files.
`readlink` and `realpath` read the name of a process's program, with the override
of `SHIM_PROC_SELF_EXE` for the process itself; `readlink` cuts it to the room it is
given. A path in `/proc` with one slash only is read through a null pointer there
(`link`), and a name that is no number panics. `FIX_NV_DEV_ID` makes device numbers
up from names, in Linux's layout of bits. `answers` holds the last two answers that
a process or its child was given, since the property compares two calls. `NamesTold`
has three parts, each with the exceptions that the code makes: a path is one file
to the calls that ask `redirect` and one to those that do not, and another to the
two kinds exactly if `redirect` changes it (`PathsAgree`); `/proc/<pid>/exe` is one
file to both calls, under each of its names, save that the override is told to the
process it is about and not to its parent or child (`LinksAgree`); and two devices
have two numbers unless both are `/dev/nvidia-*`, which all have 254
(`DevicesApart`).

### MCCalls

The eight modules of step 6 share no state in the code, so a behaviour of `MCCalls`
is one of theirs, chosen at the start (`part`): the states add up and are not
multiplied.

## 4. Runs

| Run | Configuration | What it shows |
|---|---|---|
| `lazy_mutex` | 2 threads, 2 mutexes, 3 addresses, types NORMAL, RECURSIVE and others, allocations may fail | `IInv` (the inductive invariant), `MutualExclusion`, `OwnershipAgrees`, `KindFidelity`, `NoOrphanObject`, `PointerStays`; 877,865 states |
| `posix_mutex` | 3 threads, 1 mutex, allocations succeed, fair | `ImplementsPosix`, and `LazyInitTerminates`: a thread that begins the initialisation gets through |
| `destroy_unused_mutex` | 1 thread, 1 mutex | violated: `NoAbort`. A mutex that was initialised statically and never locked cannot be destroyed (pthread.c:272) |
| `dir_streams` | 2 threads, 2 streams, 2 native DIRs, 3 cells, 2 entries in 2 buffers | `IInv`, `NoLeak`, `HandedIntact` |
| `closedir_ends` | 2 threads, 2 streams, 1 native DIR, 2 cells, fair | `ClosedirEnds` |
| `signals` | SIGUSR1 (no number here), SIGSEGV (filtered), SIGPWR (same number), two sets of flags, one handler at a time | `TypeOK`, `ImplementsLinux` |
| `signal_takes_faults` | the same, and `signal()` may be called for SIGSEGV | violated: `FaultsAreDefault`. The filter that signal.c:137 announces is missing in `signal()` |
| `descriptors` | 2 descriptors, 2 descriptions, a device behind `/dev/nvidia-uvm` and `/proc/self/maps`, a replaced file, a hidden one, a shared memory object; five sets of flags with every bit that has an effect; 60,176 states | `TypeOK`, `ImplementsLinux` |
| `setfl_of_getfl` | the same | violated: `ReportedFlagsAccepted`. F_GETFL reports `O_WRONLY`, F_SETFL's assertion refuses it |
| `sockets` | 2 sockets, eight addresses (abstract names of which two differ behind a NUL, one that no NUL ends and that is read on and cut, a path that is an abstract name's, one that is too long, an internet address, an unknown family), three types (one unknown), three sets of flags (MSG_DONTWAIT; MSG_WAITALL and MSG_NOSIGNAL; one unknown), room for 0, 16 or 110 bytes; 165,762 states | `TypeOK`, `ReplyReachesSender`, `NamesApart`, `RightsArrive`, `NonblockingCallsReturn` |
| `futexes` | 3 threads, waits with and without timeouts, two values behind the futex, fair | `NoLostWakeUp`, `WaitsAreUnderstood`, and `SleepersGo`: nobody sleeps for ever while nobody holds the mutex |
| `calls` | 2 threads; 2 blocks and 2 native locales; 3 argument blocks; all values of all attributes; lists of up to 3; four zones over 2 years; all options, 2 set at a time; 2 libraries, 2 handlers, 2 boxes; 8 paths, 6 devices, 2 processes; 474,174 states | the fourteen properties of the eight modules |

Bounds. Two threads are enough for every race of the double-checked test (a
third only waits, and `posix_mutex` has it); two mutexes and three addresses let
one mutex's object be freed and reused for the other. Two streams over two or one
`DIR`s give the reuse of a `DIR` in use; one entry per buffer makes every readdir
a refill. Two descriptors are what sharing a description, and a pipe, need.

`sockets`: two pieces fit (`SunPathMax`), so that one more is cut, and a name has up
to three, of which one may be a NUL in it or behind it; two sockets are
a sender and a holder, and one message in a queue (`MaxQueue`) gives full and
empty. `futexes`: of three threads one holds, one wakes and one falls asleep.
`calls`: two locales, two threads and blocks give a copy of a copy and an
exchange; three argument blocks are one more than threads, so that one is left
and one reused; `FirstRoom` is 2 and lists have three, so that `scandir`'s array
grows, with entries before and behind the boundary that are not selected;
`LastYear` is 1971, where the search crosses a year and reaches its end, with zones
of summer in June, in December, in one year only and always; two options that
are set (`MaxOptionsSet`) are what can collide; two boxes give reuse in any order;
/dev/nvidia253 and 254 are on either side of the limit.

Sets that are interchangeable are declared symmetric in the runs without liveness
only. `MaxDepth` bounds recursion and nested handlers, and the model's addresses
bound memory: the program calls only while memory is left, except where
`AllocFails` lets the allocation fail, and in `MCCalls`, where a call without
memory writes at null, as the code does.

Deadlock is not checked: a program may lock a NORMAL mutex twice and stop for
ever, a call may wait for a message that nobody sends, and an assertion or a null
pointer ends the process.

Fairness. `LazyMutex`: weak fairness of each thread's steps inside
`init_mutex_if_necessary`, for there the code only waits for
`mutex_initialization_mutex`, and each first use takes that once; nothing is
assumed of, or claimed for, waiting on the program's own mutexes. `DirStream`:
weak fairness of each thread's steps inside a call; the only wait is for the
stream's mutex, held over two assignments or the freeing of a list. `Futexes`:
weak fairness of each thread's `Step`, that is of runnable threads and of the end
of a critical section; not of `Lock`, of signals or of timeouts, so that
`SleepersGo` cannot be owed to a thread that a timeout has woken.

## 5. Proofs

`LazyMutexProofs` proves `Spec => []IInv` for any threads, mutexes, addresses and
types, and from it `TypeCorrect`, `OwnershipCorrect`, `KindCorrect` and
`MutualExclusionCorrect`; with one more induction `NoOrphanCorrect`; and the action
property `PointerStays`. Exclusion alone is not inductive: it
follows from "what the program holds is what the native object records"
(`OwnershipAgrees`), which needs that no step replaces a mutex's object while it is
in use. That is the heart of the argument: a thread about to store a pointer holds
`mutex_initialization_mutex` (`InitLockHeld`), the pointer is still null
(`InitIsFirst`), nobody enters the native call on a null pointer of a mutex with
a type (`EnterIsSafe`), live objects are apart (`ObjectsApart`) and a thread in
the native call works on the object behind its mutex (`HandleIsOwn`).
The refinement is a theorem too, step by step: `ImplementsPosixCorrect` says that
every step is one of `TypedMutex` or none while `failed` is empty, and
`MutexesArePosix` drops the condition where allocations do not fail. Init and
destroy are `Initialise` and `Destroy`, taking and taking again `Acquire`, an unlock
that finds its owner `Release`; a wait's two halves are `Park` and `Unpark`, with
`Parked` read off the sleeping threads' `tgt` and `saved`. Everything else (all of
`init_mutex_if_necessary`, and what the native call refuses) leaves POSIX's view as
it is (`ShimStutters`, `NativeStutters`). Taking a mutex that is free needs the
invariant: that the native object is free means that nobody holds the mutex only
because that object is the one behind it (`HandleIsOwn`, `OwnershipAgrees`), and
that its type is recursive only if the program's is (`KindIsChosen`).

`DirStreamProofs` proves `Spec => []IInv` and from it `NoLeakCorrect`,
`HandedCorrect` and `FaithfulCorrect`, for any number of threads, streams, cells
and any buffer size. The strengthening: calls that overlap are on shared streams
(`Alone`), a list does not change between the two halves of an insertion because
the mutex is the inserting thread's (`MutexOwned`, `InsertAtomic`), cells are in
one list or being filled by one thread (`CellsApart`), and an open stream's `DIR`
is nobody else's (`OwnDir`).

`SignalsProofs` proves `TypeOK` and `Spec => Linux!Spec`, the whole
refinement, for any signals, handlers and flags. It rests on two lemmas about the
conversions: a signal that has a number here has the same number there, so that
a converted set is the set without the others; and flags read back are those that
were given (`SeenAs`), though they differ on the way. Each action then maps to the
Linux action of its name, and `old` in the invariant ties what the last call told
to what the kernel had stored.

`SocketsProofs` proves the five properties of the run. The invariant `IInv` adds to
them that a socket is as the program asked for (`SocketsAsAsked`), which is why a
wait may be, and that a told name is a native one converted (`NamesConverted`). The
lemmas are about the conversions: a converted address fits the native field; a C
string ends at its first NUL, whose existence is a least element of a set of
naturals (`FirstNul`), so that of a name without one all is kept; two plain
addresses that both fit differ if their names do; a name told and converted again is the
name the kernel had; a word of flags has a bit exactly if its conversion has.

`DescriptorsProofs` proves `TypeOK` and `Spec => Linux!Spec` for any descriptors,
descriptions, paths, objects and words of flags. Its lemmas are about the
conversion of flags, set by set: what is told of a word that a conversion has made
is the word without the bits that have no number, and access modes and status flags
keep apart; and about names, which are different for different files, so that a
set of files is the same set under its names (`NamedSets`). The invariant
(`DescriptorsIInv`) adds to the types that every descriptor in use has a
description, that a description has a file and flags of FreeBSD's, that files which
are there, written or locked have FreeBSD's names, and that the last answer's flags
are Linux's. Each call then maps to the call of its name, and a refusal of the
shim's own to a refusal of Linux's.

`FutexesProofs` proves `NoLostWakeUp` and `WaitsAreUnderstood` for any number of
threads and any `Uppers`. The invariant (`IInv`) is the two and `MutexOK`, which is
the program's own doing and which the two rest on, beside the types: the word is 0
exactly if nobody holds, so that only a holder's unlock frees it; the unlock takes the mark away
only with a wake to follow; a thread that is woken, interrupted or found a
mismatch marks the word again before it sleeps; and the errors of a wait are of
the kinds that the conversion knows, but for EINTR, which has one number.

`ThreadsProofs` has three parts. `LocalesIInv` is inductive: types, `NativesOwned`,
`UsesWhatItSays` and `LconvOfProcess`. That the locale in use is not freed is a
guard, which POSIX puts on the program; that its native one is not either follows
from `NativesOwned`. Of `ThreadCalls` it proves the two properties: the block of
a thread that has not read it is in use, its own, and holds what the thread was
given. Of `TimeZone` it proves `OfOneZone` for any zones, last year and number of
threads. The invariant (`TimeIInv`, of which `ThreadOfOneZone` is the heart) says
how far each thread's copies are the zone's: what a thread has passed is right, or
will be written again by one that comes after it. Its lemmas show that the search,
down the years and the two months, finds the latest half year of its kind.

`CallsProofs` has an inductive invariant for each of five modules, and from them
the seven properties that the run checks of these modules.

- `AttributesIInv`: what was asked for is in its bit field, among its bits, or is a
  number of FreeBSD's that no other value has. `SettingsRead` follows, since a
  setting is written in one place only and fields do not overlap.
- `OptionsIInv`: an option that was set, and not dropped, is stored under the name
  its conversion gives, in FreeBSD's form. `OptionsKept` needs that the conversion of
  names has an inverse, which is a lemma about the tables. Its proof found an overlap of two conditions in an
  earlier form of `NativeLevel`, which a checker that takes the first of them
  cannot see.
- `ExitsIInv`: every handler that waits has a box of its own (`HandlersBoxed`), by
  lemmas about sequences that get or lose one entry; FreeBSD calls the latest
  handler of a library, whose existence is a least element of a set of naturals.
- `FilesIInv`: an answer depends on its call, its name, who asks and what never
  changes (`AnswerIs`). Two of one name therefore differ only where the call, or who
  asks, matters; and two numbers of devices have different bits, which is arithmetic.
- `ListsIInv`: the heap has as many blocks of a kind as the results that the
  program has are made of (`HeapHeld`). The sum over the results is the cardinality
  of a set of numbered blocks, `BlocksOf`, so that a call that gives a result adds
  a set that is apart, and one that frees it takes the same set away; from this,
  and nothing less, follows `NothingLeft`. For `CopiesComplete` the loop of `scandir` is
  shown to have an array after every entry (`ScanGoesOn`) which has what was
  selected, in order, and a place for the next (`HasSelected`). Both are
  inductions, made with `UpTo`, which takes a set of numbers for the hypothesis.

Assumptions are the modules' `ASSUME`s, which say that the constants have their
kinds and are apart: `SocketsAssumption` also that an internet address is not
empty and no string, that only local addresses are abstract, and that calls neither
peek nor ask for out-of-band data, `LocalesAssumption` that
`LC_GLOBAL_LOCALE` is no block, `TimeAssumption` that a zone is defined on all half
years, `PathsOK` that shared memory objects, pipes and replaced paths are not one
another's names and that nobody locks a device, `NoneAssumption` that "no
description" is none, `BoxesAssumption` that `malloc` does not give a null
pointer out, `NodesAssumption` that device nodes are numbers, and `ListsAssumption`
that an array begins with a place. Symmetry, fairness and bounds on lists play no
part in the proofs.

What TLC alone shows: the liveness properties (`LazyInitTerminates`, `ClosedirEnds`,
`SleepersGo`), since liveness is beyond the prover. What they rest on is proved:
whoever holds `mutex_initialization_mutex` is between lines 212 and 227 and not in a
native call (`InitLockHeld`), whoever holds a stream's mutex inserts or frees entries
(`MutexOwned`), and sleepers of a free futex have someone on the way to wake them
(`NoLostWakeUp`). Every safety property and every refinement that a run finds to hold
is a theorem. The three that runs find violated are about calls that the
theorems leave out or say nothing of: destroying an unused mutex, `signal()` for the
four faults, and the assertion of F_SETFL.

## 6. What is not modelled

- Calls that pass on: most numbers of `shim_syscall_impl`, `pthread_once`,
  `pthread_kill`, locks for reading and writing, `read` and `write` beyond what
  descriptors do, `nftw`. There is no control in them to model.
- Stateless conversions around one native call: `epoll`, `eventfd`, `inotify`,
  `mmap`, `ioctl`, `semctl`, `select`, `poll`, `statfs`, `utsname`, `sysctl`,
  `prctl`, `rlimit`, `termios`, `passwd`, the contents of `stat`, the clocks'
  numbers, `getnameinfo`'s flags, `sigaltstack`, `sigsuspend` and `siginfo_t`.
  Flag words of the same kind are modelled where calls follow on one
  another (`Sockets`, `Descriptors`, `Signals`, `Attributes`).
- Robust mutexes and the robust list of futexes, which is handed out and which
  nothing in the shim reads; priority protocols and process-shared mutexes.
- `shim_init`, which sets the program's variables once, before there are threads.
  The copy of `environ` that it makes for the program (main.c:66) is not refreshed
  by `setenv`, which is FreeBSD's: no step of the code follows that a property
  could be about.
- Errors other than the four that are converted: there is no right number to ask
  for.
- Constant tables (`ctype`, `wctype`, `langinfo`, `libm`), assembler stubs
  (`setjmp`, `ucontext`), the generators and symbol lists, which run when the
  library is built, and the launchers, which set the environment.
- FreeBSD itself, which appears as external definitions: what its calls may
  answer, not how.
