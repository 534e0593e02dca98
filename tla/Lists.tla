-------------------------------- MODULE Lists --------------------------------
(***************************************************************************)
(* Lists that the shim copies for the program to free: getaddrinfo         *)
(* (src/src/libc/netdb.c), getifaddrs (ifaddrs.c), scandir (dirent.c) and  *)
(* glob (glob.c).  The heap is counted, by what is in its blocks.          *)
(***************************************************************************)
EXTENDS Process, Integers, FiniteSets, Sequences, Functions

CONSTANTS
  Infos,       \* FreeBSD's address infos: [family, named]
  Interfaces,  \* FreeBSD's interfaces: [family, mask], NULL for no address
  Files,       \* entries of directories: [name, selected]
  MaxLength,   \* of a native list or a directory
  FirstRoom,   \* entries that scandir's array has room for at first
  Slots        \* what the program has at a time

\* A null address is none of the families.
ASSUME ListsAssumption ==
  /\ MaxLength \in Nat /\ FirstRoom \in Nat \ {0}
  /\ NULL \notin {2, 18, 28}

VARIABLES
  heap,        \* per kind of block, how many there are
  held,        \* per name in use: [call, of, list], of the native one
  lists_dead

listsVars == <<heap, held, lists_dead>>

-----------------------------------------------------------------------------
AF_INET == 2
AF_LINK == 18
AF_INET6 == 28
AF_PACKET == 17
BlockKinds == {"node", "name", "address", "mask", "array", "entry", "native"}

Count(list, P(_)) == Cardinality({i \in DOMAIN list : P(list[i])})
NativeLists(S) == UNION {[1..n -> S] : n \in 1..MaxLength}

ListsInit ==
  /\ heap = [k \in BlockKinds |-> 0]
  /\ held = <<>> /\ lists_dead = FALSE

ListsLive == ~lists_dead /\ UNCHANGED lists_dead

ListsDie == ~lists_dead /\ lists_dead' = TRUE /\ UNCHANGED <<heap, held>>

ListsFail == ListsLive /\ UNCHANGED <<heap, held>>

\* The blocks of a kind among those that a call has counted.
Of(counts, k) == IF k \in DOMAIN counts THEN counts[k] ELSE 0

\* The program gets a result, and the heap has more in it; or frees one.
Gives(call, of, list, counts) ==
  /\ ListsLive
  /\ \E r \in Slots \ DOMAIN held :
       held' = [s \in DOMAIN held \cup {r} |->
                  IF s = r THEN [call |-> call, of |-> of, list |-> list] ELSE held[s]]
  /\ heap' = [k \in BlockKinds |-> heap[k] + Of(counts, k)]

Takes(r, counts) ==
  /\ ListsLive /\ held' = [s \in DOMAIN held \ {r} |-> held[s]]
  /\ heap' = [k \in BlockKinds |-> heap[k] - Of(counts, k)]

-----------------------------------------------------------------------------
(* getaddrinfo                                                             *)

ToLinuxFamily(f) ==
  CASE f = AF_INET -> 2 [] f = AF_INET6 -> 10 [] f = AF_LINK -> AF_PACKET

copy_addrinfo(info) == [family |-> ToLinuxFamily(info.family), named |-> info.named]

\* The head, and then the rest.
Copied(list) == DOMAIN list

Named(n) == n.named

\* FreeBSD's error is returned as it is.
getaddrinfo(list) ==
  \/ ListsFail
  \/ (\E i \in DOMAIN list : list[i].family \notin {AF_INET, AF_INET6}) /\ ListsDie
  \/ /\ \A i \in DOMAIN list : list[i].family \in {AF_INET, AF_INET6}
     /\ LET copy == [i \in Copied(list) |-> copy_addrinfo(list[i])] IN
          Gives("getaddrinfo", list, copy,
                [node |-> Len(copy), address |-> Len(copy), name |-> Count(copy, Named)])

\* Variant: the name goes with its node.
FreeaddrinfoKeepsNames(r) ==
  /\ r \in DOMAIN held /\ held[r].call = "getaddrinfo"
  /\ Takes(r, [node |-> Len(held[r].list), address |-> Len(held[r].list)])

freeaddrinfo(r) ==
  /\ r \in DOMAIN held /\ held[r].call = "getaddrinfo"
  /\ Takes(r, [node |-> Len(held[r].list), address |-> Len(held[r].list),
               name |-> Count(held[r].list, Named)])

-----------------------------------------------------------------------------
(* getifaddrs                                                              *)

copy_ifaddrs(ifa) ==
  [family |-> IF ifa.family = NULL THEN NULL ELSE ToLinuxFamily(ifa.family),
   mask   |-> IF ifa.mask = NULL THEN NULL ELSE ToLinuxFamily(ifa.mask)]

IfaddrsKnown(ifa) ==
  /\ ifa.family \in {NULL, AF_INET, AF_INET6, AF_LINK}
  /\ ifa.mask \in {NULL, AF_INET, AF_INET6}

HasAddress(n) == n.family # NULL
HasMask(n)    == n.mask # NULL
OfIfaddrs(list) ==
  [node |-> Len(list), name |-> Len(list), address |-> Count(list, HasAddress),
   mask |-> Count(list, HasMask)]

getifaddrs(list) ==
  \/ ListsFail
  \/ (\E i \in DOMAIN list : ~IfaddrsKnown(list[i])) /\ ListsDie
  \/ /\ \A i \in DOMAIN list : IfaddrsKnown(list[i])
     /\ LET copy == [i \in Copied(list) |-> copy_ifaddrs(list[i])] IN
          Gives("getifaddrs", list, copy, OfIfaddrs(copy))

\* ifa_dstaddr is null always.
freeifaddrs(r) ==
  r \in DOMAIN held /\ held[r].call = "getifaddrs" /\ Takes(r, OfIfaddrs(held[r].list))

-----------------------------------------------------------------------------
(* scandir and scandir64                                                   *)

\* Variant: the array is full one entry late.
FullLate(out) == Len(out.arr) > out.len

Full(out) == Len(out.arr) >= out.len

\* An entry that the program's select() takes; the others are freed at once.
\* One that is written behind the array is not in it.
Insert(out, e) ==
  IF ~e.selected THEN out
  ELSE LET len == IF Full(out) THEN 2 * out.len ELSE out.len IN
       [arr |-> IF Len(out.arr) < len THEN Append(out.arr, e) ELSE out.arr, len |-> len]

\* FreeBSD's, with the program's order of names; of equal ones any comes first.
qsort(s) ==
  {t \in {[i \in DOMAIN s |-> s[p[i]]] : p \in Bijection(DOMAIN s, DOMAIN s)} :
     \A i, j \in DOMAIN s : i < j => t[i].name <= t[j].name}

\* The array after each of the directory's entries, and before the first.
Scanned(dir) ==
  LET out[i \in 0..Len(dir)] ==
        IF i = 0 THEN [arr |-> <<>>, len |-> FirstRoom] ELSE Insert(out[i - 1], dir[i]) IN
  out

\* compar is the program's, by name, or null.
scandir(dir, compar) ==
  LET arr == Scanned(dir)[Len(dir)].arr IN
  \/ ListsFail
  \/ compar = NULL /\ Gives("scandir", dir, arr, [array |-> 1, entry |-> Len(arr)])
  \/ /\ compar # NULL
     /\ \E sorted \in qsort(arr) :
          Gives("scandir, sorted", dir, sorted, [array |-> 1, entry |-> Len(sorted)])

\* The program frees the entries and the array.
FreeEntries(r) ==
  /\ r \in DOMAIN held /\ held[r].call \in {"scandir", "scandir, sorted"}
  /\ Takes(r, [array |-> 1, entry |-> Len(held[r].list)])

-----------------------------------------------------------------------------
(* glob                                                                    *)

\* The paths are FreeBSD's own, in its one array; no match is an error.  With
\* GLOB_APPEND FreeBSD goes on from what is in the glob_t, which here is a
\* local without a value: of what follows nothing is said.
glob(append, n) ==
  \/ append /\ ListsDie
  \/ ~append /\ n = 0 /\ ListsFail
  \/ /\ ~append /\ n > 0
     /\ LET paths == [i \in 1..n |-> [path |-> i]] IN
          Gives("glob", paths, paths, [array |-> 1, native |-> n])

globfree(r) ==
  /\ r \in DOMAIN held /\ held[r].call = "glob"
  /\ Takes(r, [array |-> 1, native |-> Len(held[r].list)])

-----------------------------------------------------------------------------
\* The program calls while it has room for another result.
Room == Slots \ DOMAIN held # {}

ListsNext ==
  \/ /\ Room
     /\ \/ \E list \in NativeLists(Infos) : getaddrinfo(list)
        \/ \E list \in NativeLists(Interfaces) : getifaddrs(list)
        \/ \E dir \in NativeLists(Files), compar \in {"by name", NULL} : scandir(dir, compar)
        \/ \E append \in BOOLEAN, n \in 0..2 : glob(append, n)
  \/ \E r \in Slots : freeaddrinfo(r) \/ freeifaddrs(r) \/ FreeEntries(r) \/ globfree(r)

ListsSpec == ListsInit /\ [][ListsNext]_listsVars

-----------------------------------------------------------------------------
(* Properties                                                              *)

\* When the program has freed all that it got, by the function that belongs
\* to it, the heap is empty: nodes, names, addresses and masks, of which some
\* have one and some none, leave nothing behind and are freed once.
NothingLeft == DOMAIN held = {} => \A k \in BlockKinds : heap[k] = 0

\* The family that a program on Linux expects.
FamilyOf(f) ==
  CASE f = AF_INET -> 2 [] f = AF_INET6 -> 10 [] f = AF_LINK -> 17 [] OTHER -> NULL

Selected(of) == {i \in DOMAIN of : of[i].selected}

\* Where in the directory the entries of a list were.
Places(list, of) ==
  {at \in Bijection(DOMAIN list, Selected(of)) : \A i \in DOMAIN list : list[i] = of[at[i]]}

Complete(h) ==
  /\ h.call \in {"getaddrinfo", "getifaddrs"} =>
       /\ Len(h.list) = Len(h.of)
       /\ \A i \in DOMAIN h.of : h.list[i].family = FamilyOf(h.of[i].family)
  /\ h.call = "scandir" =>
       \E at \in Places(h.list, h.of) : \A i, j \in DOMAIN h.list : i < j => at[i] < at[j]
  /\ h.call = "scandir, sorted" =>
       /\ Places(h.list, h.of) # {}
       /\ \A i, j \in DOMAIN h.list : i < j => h.list[i].name <= h.list[j].name

\* A copy has FreeBSD's addresses in their order, none left out; a
\* directory's entries are those that were selected, within the array, each
\* once, in their order or sorted if the program has asked for that.
CopiesComplete == \A r \in DOMAIN held : Complete(held[r])

-----------------------------------------------------------------------------
(* The inductive invariant                                                 *)

\* What each result is made of.
Owes(h) ==
  CASE h.call = "getaddrinfo" ->
         [node |-> Len(h.list), address |-> Len(h.list), name |-> Count(h.list, Named)]
    [] h.call = "getifaddrs" -> OfIfaddrs(h.list)
    [] h.call \in {"scandir", "scandir, sorted"} -> [array |-> 1, entry |-> Len(h.list)]
    [] h.call = "glob" -> [array |-> 1, native |-> Len(h.list)]

ListsTypeOK ==
  /\ heap \in [BlockKinds -> Nat]
  /\ DOMAIN held \subseteq Slots
  /\ held = [r \in DOMAIN held |-> held[r]]
  /\ \A r \in DOMAIN held :
       /\ held[r].call \in {"getaddrinfo", "getifaddrs", "scandir", "scandir, sorted", "glob"}
       /\ held[r].list \in Seq(Range(held[r].list))

\* The blocks of a kind, as the numbered parts of the results the program has.
BlocksOf(k) == UNION {{r} \X (1..Of(Owes(held[r]), k)) : r \in DOMAIN held}

\* Every block on the heap belongs to one of the results.
HeapHeld ==
  \A k \in BlockKinds : IsFiniteSet(BlocksOf(k)) /\ heap[k] = Cardinality(BlocksOf(k))

ListsIInv == ListsTypeOK /\ HeapHeld /\ CopiesComplete
=============================================================================
