---------------------------- MODULE ThreadsProofs ----------------------------
(* What Locales, ThreadCalls and TimeZone promise, for any threads: the parts *)
(* of the process that its threads share.                                    *)
EXTENDS Locales, ThreadCalls, TimeZone, WellFoundedInduction, TLAPS

-----------------------------------------------------------------------------
(* Locales: any blocks and native locales                                  *)

\* A block that gets a native locale shares it with no other; natives and
\* their owners stay in step.
LEMMA WithNativeOwned ==
  ASSUME LocalesTypeOK, NativesOwned, NEW b \in Blocks \ Allocated, WithNative(b)
  PROVE  /\ native_locale' \in [Blocks -> Natives \cup {NULL, FREE}]
         /\ natives' \subseteq Natives
         /\ native_locale'[b] # FREE
         /\ \A c \in Blocks \ {b} : native_locale'[c] = native_locale[c]
         /\ NativesOwned'
<1> USE LocalesAssumption DEF LocalesTypeOK
<1>1. CASE \E n \in Natives \ natives :
             /\ native_locale' = [native_locale EXCEPT ![b] = n]
             /\ natives' = natives \cup {n}
  <2>1. PICK n \in Natives \ natives :
          /\ native_locale' = [native_locale EXCEPT ![b] = n]
          /\ natives' = natives \cup {n}
    BY <1>1
  <2>2. /\ native_locale' \in [Blocks -> Natives \cup {NULL, FREE}]
        /\ natives' \subseteq Natives
        /\ native_locale'[b] = n
        /\ \A c \in Blocks \ {b} : native_locale'[c] = native_locale[c]
    BY <2>1
  <2>3. Allocated' = Allocated \cup {b}
    BY <2>2 DEF Allocated
  <2>4. \A c \in Allocated : native_locale[c] # n
    BY <2>1 DEF NativesOwned, Owned
  <2>5. Owned' = Owned \cup {n}
    BY <2>2, <2>3 DEF Owned, Allocated
  <2>6. NativesOwned'
    BY <2>1, <2>2, <2>3, <2>4, <2>5 DEF NativesOwned
  <2> QED
    BY <2>2, <2>6
<1>2. CASE native_locale' = [native_locale EXCEPT ![b] = NULL] /\ UNCHANGED natives
  <2>1. /\ native_locale' \in [Blocks -> Natives \cup {NULL, FREE}]
        /\ native_locale'[b] = NULL
        /\ \A c \in Blocks \ {b} : native_locale'[c] = native_locale[c]
    BY <1>2
  <2>2. Allocated' = Allocated \cup {b}
    BY <2>1 DEF Allocated
  <2>3. Owned' = Owned
    BY <2>1, <2>2 DEF Owned, Allocated
  <2> QED
    BY <1>2, <2>1, <2>2, <2>3 DEF NativesOwned
<1> QED
  BY <1>1, <1>2 DEF WithNative

\* No thread's locale is a block that is only made now.
LEMMA WithNativeUsed ==
  ASSUME LocalesTypeOK, NativesOwned, UsesWhatItSays,
         NEW b \in Blocks \ Allocated, WithNative(b),
         UNCHANGED <<thread_locale, in_force>>
  PROVE  UsesWhatItSays'
<1> SUFFICES ASSUME NEW t \in Threads,
                    thread_locale[t] # LC_GLOBAL_LOCALE \/ in_force[t] # LC_GLOBAL_LOCALE
             PROVE  /\ thread_locale[t] \in Allocated'
                    /\ native_locale'[thread_locale[t]] \in {in_force[t], NULL}
  BY DEF UsesWhatItSays
<1>1. /\ thread_locale[t] \in Allocated
      /\ native_locale[thread_locale[t]] \in {in_force[t], NULL}
  BY DEF UsesWhatItSays
<1>2. thread_locale[t] \in Blocks \ {b}
  BY <1>1 DEF Allocated
<1>3. native_locale'[thread_locale[t]] = native_locale[thread_locale[t]]
  BY <1>2, WithNativeOwned
<1> QED
  BY <1>1, <1>2, <1>3 DEF Allocated

-----------------------------------------------------------------------------
LEMMA LocalesStart == LocalesInit => LocalesIInv
<1> SUFFICES ASSUME LocalesInit PROVE LocalesIInv
  OBVIOUS
<1>1. LocalesTypeOK
  <2>1. own \in BOOLEAN /\ locale_dead \in BOOLEAN
    BY Zenon DEF LocalesInit
  <2>2. \A f : f = [c \in OfLconv |-> "C"] => f \in [OfLconv -> Names]
    BY DEF Names
  <2> QED
    BY <2>1, <2>2 DEF LocalesInit, LocalesTypeOK
<1>2. Allocated = {}
  BY DEF LocalesInit, Allocated
<1> QED
  BY <1>1, <1>2
  DEF LocalesIInv, LocalesInit, NativesOwned, Owned, UsesWhatItSays, LconvOfProcess

\* Steps that make a block: newlocale() and duplocale().
LEMMA LocalesMakes ==
  ASSUME LocalesIInv, NEW b \in Blocks \ Allocated, WithNative(b), LocalesLive,
         UNCHANGED <<thread_locale, in_force, global, process_lconv, own>>
  PROVE  LocalesIInv'
<1>1. LocalesTypeOK /\ NativesOwned /\ UsesWhatItSays
  BY DEF LocalesIInv
<1>2. LocalesTypeOK'
  BY <1>1, WithNativeOwned DEF LocalesTypeOK, LocalesLive
<1>3. LconvOfProcess'
  BY DEF LocalesIInv, LconvOfProcess
<1> QED
  BY <1>1, <1>2, <1>3, WithNativeOwned, WithNativeUsed DEF LocalesIInv

LEMMA LocalesUses ==
  ASSUME LocalesIInv, NEW t \in Threads, NEW l \in Blocks \cup {LC_GLOBAL_LOCALE},
         uselocale(t, l)
  PROVE  LocalesIInv'
<1> USE LocalesAssumption
<1>1. LocalesTypeOK /\ NativesOwned /\ UsesWhatItSays /\ LconvOfProcess
  BY DEF LocalesIInv
<1>2. /\ l \in Allocated \cup {LC_GLOBAL_LOCALE}
      /\ thread_locale' = [thread_locale EXCEPT ![t] = l]
      /\ in_force' = [in_force EXCEPT ![t] = NativeOf(t, l)]
      /\ UNCHANGED <<native_locale, natives, global, process_lconv, own, locale_dead>>
  BY DEF uselocale, LocalesLive
<1>3. NativeOf(t, l) \in Natives \cup {LC_GLOBAL_LOCALE}
  BY <1>1, <1>2 DEF NativeOf, Allocated, LocalesTypeOK
<1>4. LocalesTypeOK'
  BY <1>1, <1>2, <1>3 DEF LocalesTypeOK
<1>5. NativesOwned' /\ LconvOfProcess'
  BY <1>1, <1>2 DEF NativesOwned, Owned, Allocated, LconvOfProcess
<1>6. UsesWhatItSays'
  <2> SUFFICES ASSUME NEW u \in Threads
               PROVE  \/ thread_locale'[u] = LC_GLOBAL_LOCALE /\ in_force'[u] = LC_GLOBAL_LOCALE
                      \/ /\ thread_locale'[u] \in Allocated
                         /\ native_locale[thread_locale'[u]] \in {in_force'[u], NULL}
    BY <1>2 DEF UsesWhatItSays, Allocated
  <2>1. CASE u = t
    <3>1. thread_locale'[u] = l /\ in_force'[u] = NativeOf(t, l)
      BY <2>1, <1>1, <1>2 DEF LocalesTypeOK
    <3> QED
      BY <3>1, <1>2 DEF NativeOf, Allocated
  <2>2. CASE u # t
    BY <2>2, <1>1, <1>2 DEF LocalesTypeOK, UsesWhatItSays
  <2> QED
    BY <2>1, <2>2
<1> QED
  BY <1>4, <1>5, <1>6 DEF LocalesIInv

LEMMA LocalesFrees ==
  ASSUME LocalesIInv, NEW l \in Blocks, freelocale(l)
  PROVE  LocalesIInv'
<1> USE LocalesAssumption
<1>1. LocalesTypeOK /\ NativesOwned /\ UsesWhatItSays /\ LconvOfProcess
  BY DEF LocalesIInv
<1>2. /\ l \in Allocated /\ ~InUse(l)
      /\ native_locale' = [native_locale EXCEPT ![l] = FREE]
      /\ natives' = natives \ {native_locale[l]}
      /\ UNCHANGED <<thread_locale, in_force, global, process_lconv, own, locale_dead>>
  BY DEF freelocale, LocalesLive
<1>3. LocalesTypeOK'
  BY <1>1, <1>2 DEF LocalesTypeOK
<1>4. Allocated' = Allocated \ {l}
  BY <1>1, <1>2 DEF LocalesTypeOK, Allocated
<1>5. \A c \in Blocks \ {l} : native_locale'[c] = native_locale[c]
  BY <1>1, <1>2 DEF LocalesTypeOK
<1>6. Owned' = Owned \ {native_locale[l]}
  <2>1. Owned' = {native_locale[c] : c \in Allocated \ {l}} \ {NULL}
    BY <1>4, <1>5 DEF Owned, Allocated
  <2>2. \A c \in Allocated \ {l} : native_locale[c] = native_locale[l] => native_locale[c] = NULL
    BY <1>1, <1>2 DEF NativesOwned
  <2> QED
    BY <2>1, <2>2, <1>2 DEF Owned
<1>7. NativesOwned'
  BY <1>1, <1>2, <1>4, <1>5, <1>6 DEF NativesOwned, Allocated
<1>8. UsesWhatItSays'
  BY <1>1, <1>2, <1>4, <1>5 DEF UsesWhatItSays, InUse, Allocated
<1>9. LconvOfProcess'
  BY <1>1, <1>2 DEF LconvOfProcess
<1> QED
  BY <1>3, <1>7, <1>8, <1>9 DEF LocalesIInv

\* The process's locale is another one, or it was only asked for: the copy
\* follows, of what the caller sees.
LEMMA LocalesSets ==
  ASSUME LocalesIInv, NEW t \in Threads, NEW c, NEW name, setlocale(t, c, name)
  PROVE  LocalesIInv'
<1>1. LocalesTypeOK /\ NativesOwned /\ UsesWhatItSays /\ LconvOfProcess
  BY DEF LocalesIInv
<1>2. CASE LocalesDie
  BY <1>1, <1>2
  DEF LocalesDie, LocalesIInv, LocalesTypeOK, NativesOwned, Owned, Allocated, UsesWhatItSays,
      LconvOfProcess
<1>3. CASE UNCHANGED localesVars
  BY <1>1, <1>3
  DEF localesVars, LocalesIInv, LocalesTypeOK, NativesOwned, Owned, Allocated, UsesWhatItSays,
      LconvOfProcess
<1>4. CASE /\ LocalesLive /\ name \in Names \cup {NULL}
           /\ global' = [d \in OfLconv |->
                IF name # NULL /\ c \in {d, LC_ALL} THEN name ELSE global[d]]
           /\ process_lconv' = set_process_lconv(t, global')
           /\ own' = (in_force[t] # LC_GLOBAL_LOCALE)
           /\ UNCHANGED <<native_locale, natives, thread_locale, in_force>>
  <2>1. global' \in [OfLconv -> Names]
    BY <1>1, <1>4 DEF LocalesTypeOK
  <2>2. process_lconv' \in [OfLconv -> Names]
    <3>1. "C" \in Names
      BY DEF Names
    <3> QED
      BY <1>4, <2>1, <3>1 DEF set_process_lconv, native_lconv
  <2>3. own' \in BOOLEAN
    BY <1>4, Zenon
  <2>4. LocalesTypeOK'
    BY <1>1, <1>4, <2>1, <2>2, <2>3 DEF LocalesTypeOK, LocalesLive
  <2>5. LconvOfProcess'
    BY <1>4 DEF LconvOfProcess, set_process_lconv, native_lconv
  <2>6. NativesOwned' /\ UsesWhatItSays'
    BY <1>1, <1>4 DEF NativesOwned, Owned, Allocated, UsesWhatItSays
  <2> QED
    BY <2>4, <2>5, <2>6 DEF LocalesIInv
<1> QED
  BY <1>2, <1>3, <1>4 DEF setlocale

\* Every step keeps all of it.
LEMMA LocalesStep == LocalesIInv /\ [LocalesNext]_localesVars => LocalesIInv'
<1> SUFFICES ASSUME LocalesIInv, [LocalesNext]_localesVars PROVE LocalesIInv'
  OBVIOUS
<1>1. ASSUME LocalesDie \/ UNCHANGED localesVars PROVE LocalesIInv'
  <2>1. UNCHANGED <<native_locale, natives, thread_locale, in_force, global, process_lconv, own>>
    BY <1>1 DEF LocalesDie, localesVars
  <2>2. locale_dead' \in BOOLEAN
    BY <1>1, Zenon DEF LocalesDie, localesVars, LocalesIInv, LocalesTypeOK
  <2> QED
    BY <2>1, <2>2
    DEF LocalesIInv, LocalesTypeOK, NativesOwned, Owned, Allocated, UsesWhatItSays,
        LconvOfProcess
<1>2. ASSUME NEW mask, NEW name, newlocale(mask, name) PROVE LocalesIInv'
  BY <1>1, <1>2, LocalesMakes DEF newlocale
<1>3. ASSUME NEW b, duplocale(b) PROVE LocalesIInv'
  BY <1>1, <1>3, LocalesMakes DEF duplocale, CopyBlock
<1> QED
  BY <1>1, <1>2, <1>3, LocalesFrees, LocalesUses, LocalesSets DEF LocalesNext

THEOREM LocalesIInvCorrect == LocalesSpec => []LocalesIInv
<1> QED
  BY LocalesStart, LocalesStep, PTL DEF LocalesSpec

-----------------------------------------------------------------------------
\* Blocks and native locales, threads and names are what they should be.
THEOREM LocalesTypeCorrect == LocalesSpec => []LocalesTypeOK
<1>1. LocalesIInv => LocalesTypeOK
  BY DEF LocalesIInv
<1> QED
  BY LocalesIInvCorrect, <1>1, PTL

\* Every native locale belongs to one Linux locale: locale.c frees each one
\* once and loses none, however often locales are copied and freed.
THEOREM NativesOwnedCorrect == LocalesSpec => []NativesOwned
<1>1. LocalesIInv => NativesOwned
  BY DEF LocalesIInv
<1> QED
  BY LocalesIInvCorrect, <1>1, PTL

\* What FreeBSD's functions use in a thread is what uselocale() says.
THEOREM UsesWhatItSaysCorrect == LocalesSpec => []UsesWhatItSays
<1>1. LocalesIInv => UsesWhatItSays
  BY DEF LocalesIInv
<1> QED
  BY LocalesIInvCorrect, <1>1, PTL

\* The copy behind localeconv() is of the process's locale, unless a thread
\* with its own has made it.
THEOREM LconvOfProcessCorrect == LocalesSpec => []LconvOfProcess
<1>1. LocalesIInv => LconvOfProcess
  BY DEF LocalesIInv
<1> QED
  BY LocalesIInvCorrect, <1>1, PTL

-----------------------------------------------------------------------------
(* ThreadCalls: any blocks and arguments                                   *)

\* What every step keeps: whoever needs a block has one of its own.
CallsIInv ==
  /\ stage \in [Threads -> {"none", "started", "running", "ended"}]
  /\ cell \in [Threads -> Cells \cup {NULL}]
  /\ given \in [Threads -> Arguments \cup {NULL}]
  /\ got \in [Threads -> Arguments \cup {NULL}]
  /\ wargs \in [Cells -> Arguments \cup {NULL}]
  /\ in_use \subseteq Cells
  /\ CellsApart /\ OwnArgument

LEMMA CallsStart == CallsInit => CallsIInv
  BY DEF CallsInit, CallsIInv, CellsApart, OwnArgument

-----------------------------------------------------------------------------
\* A thread is created with a block that nobody has, or the block is lost.
LEMMA CallsCreate ==
  ASSUME CallsIInv, NEW t \in Threads, NEW arg \in Arguments, pthread_create(t, arg)
  PROVE  CallsIInv'
<1> USE DEF CallsIInv
<1>1. CASE CallsDie
  BY <1>1 DEF CallsDie, CellsApart, OwnArgument
<1>2. ASSUME NEW c \in Cells \ in_use, stage[t] = "none",
             Malloc(c), wargs' = [wargs EXCEPT ![c] = arg], UNCHANGED <<got, value>>,
             \/ /\ stage' = [stage EXCEPT ![t] = "started"]
                /\ cell' = [cell EXCEPT ![t] = c]
                /\ given' = [given EXCEPT ![t] = arg]
             \/ UNCHANGED <<stage, cell, given>>
      PROVE  CallsIInv'
  <2>1. /\ wargs' \in [Cells -> Arguments \cup {NULL}] /\ in_use' \subseteq Cells
        /\ wargs'[c] = arg /\ c \in in_use'
        /\ \A d \in in_use : d \in in_use' /\ wargs'[d] = wargs[d]
    BY <1>2 DEF Malloc
  <2>2. CASE UNCHANGED <<stage, cell, given>>
    BY <1>2, <2>1, <2>2 DEF CellsApart, OwnArgument
  <2>3. CASE /\ stage' = [stage EXCEPT ![t] = "started"]
             /\ cell' = [cell EXCEPT ![t] = c]
             /\ given' = [given EXCEPT ![t] = arg]
    <3>1. /\ stage' \in [Threads -> {"none", "started", "running", "ended"}]
          /\ cell' \in [Threads -> Cells \cup {NULL}]
          /\ given' \in [Threads -> Arguments \cup {NULL}]
          /\ got' \in [Threads -> Arguments \cup {NULL}]
      BY <1>2, <2>3
    <3>2. stage'[t] = "started" /\ cell'[t] = c /\ given'[t] = arg
      BY <2>3
    <3>3. \A u \in Threads \ {t} :
            stage'[u] = stage[u] /\ cell'[u] = cell[u] /\ given'[u] = given[u]
      BY <2>3
    <3>4. CellsApart'
      <4>1. \A u \in Threads \ {t} :
              stage[u] \in {"started", "running"} => cell[u] \in in_use /\ cell[u] # c
        BY DEF CellsApart
      <4> QED
        BY <2>1, <3>2, <3>3, <4>1 DEF CellsApart
    <3>5. OwnArgument'
      BY <1>2, <3>2, <3>3 DEF OwnArgument
    <3> QED
      BY <2>1, <3>1, <3>4, <3>5
  <2> QED
    BY <1>2, <2>2, <2>3
<1> QED
  BY <1>1, <1>2 DEF pthread_create

\* The routine's wrapper reads its own thread's block.
LEMMA CallsCall ==
  ASSUME CallsIInv, NEW t \in Threads, Call(t)
  PROVE  CallsIInv'
<1> USE DEF CallsIInv, Call
<1>1. got'[t] = given[t]
  BY DEF CellsApart
<1>2. wargs[cell[t]] \in Arguments \cup {NULL}
  BY DEF CellsApart
<1>3. CellsApart'
  BY DEF CellsApart
<1>4. OwnArgument'
  BY <1>1 DEF OwnArgument
<1> QED
  BY <1>2, <1>3, <1>4

\* A thread ends, with its block freed or not: nobody else needs that one.
LEMMA CallsEnd ==
  ASSUME CallsIInv, NEW t \in Threads, NEW v, Ends(t, v),
         in_use' = in_use \/ in_use' = in_use \ {cell[t]}
  PROVE  CallsIInv'
<1> USE DEF CallsIInv, Ends
<1>1. \A u \in Threads \ {t} : stage'[u] = stage[u]
  OBVIOUS
<1>2. stage'[t] = "ended"
  OBVIOUS
<1>3. CellsApart'
  BY <1>1, <1>2 DEF CellsApart
<1>4. OwnArgument'
  BY <1>1, <1>2 DEF OwnArgument
<1> QED
  BY <1>3, <1>4

LEMMA CallsJoined ==
  ASSUME CallsIInv, NEW t \in Threads, Joined(t)
  PROVE  CallsIInv'
<1> USE DEF CallsIInv, Joined
<1>1. stage'[t] = "none"
  OBVIOUS
<1>2. \A u \in Threads \ {t} :
        /\ stage'[u] = stage[u] /\ cell'[u] = cell[u]
        /\ given'[u] = given[u] /\ got'[u] = got[u]
  OBVIOUS
<1>3. CellsApart'
  BY <1>1, <1>2 DEF CellsApart
<1>4. OwnArgument'
  BY <1>1, <1>2 DEF OwnArgument
<1> QED
  BY <1>3, <1>4

\* Every step keeps all of it.
LEMMA CallsStep == CallsIInv /\ [CallsNext]_callsVars => CallsIInv'
<1> SUFFICES ASSUME CallsIInv, [CallsNext]_callsVars PROVE CallsIInv'
  OBVIOUS
<1>1. ASSUME NEW t \in Threads, Return(t) \/ Exit(t) \/ Cancel(t) PROVE CallsIInv'
  BY <1>1, CallsEnd DEF Return, Exit, Cancel
<1>2. ASSUME NEW err, Tells(err) PROVE CallsIInv'
  BY <1>2 DEF Tells, CallsIInv, CellsApart, OwnArgument
<1>3. ASSUME NEW t \in Threads, pthread_join(t) \/ pthread_timedjoin_np(t) PROVE CallsIInv'
  BY <1>2, <1>3, CallsJoined DEF pthread_join, pthread_timedjoin_np
<1>4. CASE UNCHANGED callsVars
  BY <1>4 DEF callsVars, CallsIInv, CellsApart, OwnArgument
<1> QED
  BY <1>1, <1>3, <1>4, CallsCreate, CallsCall DEF CallsNext

THEOREM CallsIInvCorrect == CallsSpec => []CallsIInv
<1> QED
  BY CallsStart, CallsStep, PTL DEF CallsSpec

-----------------------------------------------------------------------------
\* Every routine gets the argument of its own thread's creation.
THEOREM OwnArgumentCorrect == CallsSpec => []OwnArgument
<1>1. CallsIInv => OwnArgument
  BY DEF CallsIInv
<1> QED
  BY CallsIInvCorrect, <1>1, PTL

\* No two threads share a block, and no block is freed while it is needed.
THEOREM CellsApartCorrect == CallsSpec => []CellsApart
<1>1. CallsIInv => CellsApart
  BY DEF CallsIInv
<1> QED
  BY CallsIInvCorrect, <1>1, PTL

-----------------------------------------------------------------------------
(* TimeZone: any zones and years                                           *)

LEMMA HalfYears ==
  ASSUME NEW h \in Halves
  PROVE  /\ h[1] \in Int /\ h[2] \in {June, December}
         /\ Date(h) \in Int
<1>1. PICK y \in 70..LastYear, m \in {June, December} : h = <<y, m>>
  BY DEF Halves
<1> QED
  BY <1>1, TimeAssumption DEF Date, June, December

\* The years are tried up to the clock's date.
LEMMA TriedByDate ==
  ASSUME TimeTypeOK
  PROVE  Tried = {h \in Halves : Date(h) <= Date(now)}
<1>1. now[1] \in Int /\ now[2] \in 0..11
  BY TimeAssumption DEF TimeTypeOK
<1>2. ASSUME NEW h \in Halves
      PROVE  h[1] < now[1] \/ (h[1] = now[1] /\ h[2] <= now[2]) <=> Date(h) <= Date(now)
  BY <1>1, HalfYears DEF Date, June, December
<1> QED
  BY <1>2 DEF Tried

\* The order in which they are tried is from the latest to the earliest.
LEMMA RoundByDate ==
  ASSUME TimeTypeOK, NEW g \in Halves, NEW h \in Halves
  PROVE  Round(h) <= Round(g) <=> Date(g) <= Date(h)
<1>1. now[1] \in Int
  BY TimeAssumption DEF TimeTypeOK
<1>2. CASE g[2] = December /\ h[2] = December
  BY <1>1, <1>2, HalfYears DEF Round, Date, June, December
<1>3. CASE g[2] = December /\ h[2] = June
  BY <1>1, <1>3, HalfYears DEF Round, Date, June, December
<1>4. CASE g[2] = June /\ h[2] = December
  BY <1>1, <1>4, HalfYears DEF Round, Date, June, December
<1>5. CASE g[2] = June /\ h[2] = June
  BY <1>1, <1>5, HalfYears DEF Round, Date, June, December
<1> QED
  BY <1>2, <1>3, <1>4, <1>5, HalfYears

LEMMA ZoneTyped == TimeTypeOK => zone \in Zone
<1>1. GMT \in Zone
  <2>1. [dst |-> FALSE, offset |-> 0] \in [dst : BOOLEAN, offset : Int]
    OBVIOUS
  <2> QED
    BY <2>1 DEF GMT, Zone
<1> QED
  BY <1>1, TimeAssumption DEF TimeTypeOK

LEMMA SummerOrNot ==
  ASSUME TimeTypeOK
  PROVE  \A h \in Halves : zone[h].dst \in BOOLEAN
<1>1. ASSUME NEW h \in Halves PROVE zone[h] \in [dst : BOOLEAN, offset : Int]
  BY ZoneTyped DEF Zone
<1> QED
  BY <1>1, Zenon

\* The search finds the latest half year of its kind.
LEMMA FindsTheLatest ==
  ASSUME TimeTypeOK
  PROVE  (IF OfKind(FALSE) # {} THEN -find_offset(FALSE) ELSE 0) = StandardTime(zone, Date(now))
<1> DEFINE standard == {h \in Halves : ~zone[h].dst /\ Date(h) <= Date(now)}
<1>1. \A h \in Halves : zone[h].dst \in BOOLEAN
  BY SummerOrNot
<1>2. OfKind(FALSE) = standard
  BY <1>1, TriedByDate DEF OfKind
<1>3. \A h \in standard :
        (\A g \in standard : Round(h) <= Round(g)) <=> (\A g \in standard : Date(g) <= Date(h))
  BY RoundByDate
<1>4. (CHOOSE h \in standard : \A g \in standard : Round(h) <= Round(g))
        = (CHOOSE h \in standard : \A g \in standard : Date(g) <= Date(h))
  BY <1>3, Zenon
<1> HIDE DEF standard
<1>5. find_offset(FALSE)
        = zone[CHOOSE h \in standard : \A g \in standard : Date(g) <= Date(h)].offset
  BY <1>2, <1>4 DEF find_offset
<1> QED
  BY <1>2, <1>5 DEF StandardTime, standard

LEMMA NatMin ==
  ASSUME NEW T, T \subseteq Nat, T # {}
  PROVE  \E x \in T : \A y \in T : x <= y
<1>1. IsWellFoundedOn(OpToRel(<, Nat), Nat)
  BY NatLessThanWellFounded
<1>2. PICK x \in T : \A y \in T : ~ (<<y, x>> \in OpToRel(<, Nat))
  BY <1>1, WFMin, Zenon
<1>3. \A y \in T : ~ (y < x)
  BY <1>2 DEF OpToRel
<1> QED
  BY <1>3

\* There is always one that is tried first, so what is found is an offset.
LEMMA OffsetIsInt ==
  ASSUME TimeTypeOK
  PROVE  (IF OfKind(FALSE) # {} THEN -find_offset(FALSE) ELSE 0) \in Int
<1>0. 0 \in Int
  OBVIOUS
<1> SUFFICES ASSUME OfKind(FALSE) # {} PROVE -find_offset(FALSE) \in Int
  BY <1>0, Zenon
<1>1. OfKind(FALSE) \subseteq Halves
  BY DEF OfKind, Tried
<1>2. \A h \in OfKind(FALSE) : Round(h) \in Nat
  <2>1. /\ now[1] \in Int
        /\ \A h \in Halves : h[1] \in Int
    BY HalfYears, TimeAssumption DEF TimeTypeOK
  <2>2. \A h \in Tried : now[1] - h[1] \in Nat
    BY <2>1 DEF Tried
  <2> QED
    BY <2>2 DEF OfKind, Round
<1>3. {Round(h) : h \in OfKind(FALSE)} # {}
  BY Zenon
<1>4. \E h \in OfKind(FALSE) : \A g \in OfKind(FALSE) : Round(h) <= Round(g)
  <2>1. {Round(h) : h \in OfKind(FALSE)} \subseteq Nat
    BY <1>2
  <2>2. \E x \in {Round(h) : h \in OfKind(FALSE)} :
          \A y \in {Round(h) : h \in OfKind(FALSE)} : x <= y
    BY <2>1, <1>3, NatMin, Zenon
  <2> QED
    BY <2>2, Zenon
<1>5. (CHOOSE h \in OfKind(FALSE) : \A g \in OfKind(FALSE) : Round(h) <= Round(g)) \in Halves
  BY <1>1, <1>4
<1>6. \A h \in Halves : zone[h].offset \in Int
  BY ZoneTyped DEF Zone
<1> QED
  BY <1>5, <1>6 DEF find_offset

LEMMA FindsASummer ==
  ASSUME TimeTypeOK
  PROVE  OfKind(TRUE) # {} <=> HasHadSummer(zone, Date(now))
<1>1. \A h \in Halves : zone[h].dst \in BOOLEAN
  BY SummerOrNot
<1> QED
  BY <1>1, TriedByDate DEF OfKind, HasHadSummer

-----------------------------------------------------------------------------
LEMMA TimeStart == TimeInit => TimeIInv
<1> SUFFICES ASSUME TimeInit PROVE TimeIInv
  OBVIOUS
<1> USE TimeAssumption
<1>1. {TZ, zone, tzname, of} \subseteq Zones \cup {GMT} /\ daylight \in {0, 1}
  BY DEF TimeInit
<1>2. now \in (70..LastYear) \X (0..11)
  BY DEF TimeInit
<1>3. /\ at \in [Threads -> {"out", "names", "search", "offset", "again", "flag"}]
      /\ offset \in [Threads -> Int] /\ found \in [Threads -> {0, 1}]
  BY DEF TimeInit
<1>4. undisturbed \in BOOLEAN /\ ~undisturbed
  BY Zenon DEF TimeInit
<1> QED
  BY <1>1, <1>2, <1>3, <1>4 DEF TimeIInv, TimeTypeOK, OfOneZone

-----------------------------------------------------------------------------
(* Steps.  The environment, FreeBSD's zone and the date are the thread's,  *)
(* the other threads stay where they are.                                  *)

LEMMA TimeTypeStep == TimeTypeOK /\ [TimeNext]_timeVars => TimeTypeOK'
<1> SUFFICES ASSUME TimeTypeOK, [TimeNext]_timeVars PROVE TimeTypeOK'
  OBVIOUS
<1> USE TimeAssumption DEF TimeTypeOK, Goto
<1>1. ASSUME NEW t \in Threads, tzset(t) PROVE TimeTypeOK'
  <2>1. undisturbed' \in BOOLEAN
    BY <1>1, Zenon DEF tzset
  <2> QED
    BY <1>1, <2>1 DEF tzset
<1>2. ASSUME NEW t \in Threads, CopyNames(t) PROVE TimeTypeOK'
  BY <1>2 DEF CopyNames
<1>3. ASSUME NEW t \in Threads, FindOffset(t) PROVE TimeTypeOK'
  <2>1. (IF OfKind(FALSE) # {} THEN -find_offset(FALSE) ELSE 0) \in Int
    BY OffsetIsInt
  <2> QED
    BY <1>3, <2>1 DEF FindOffset
<1>4. ASSUME NEW t \in Threads, SetTimezone(t) PROVE TimeTypeOK'
  BY <1>4 DEF SetTimezone
<1>5. ASSUME NEW t \in Threads, FindDaylight(t) PROVE TimeTypeOK'
  BY <1>5 DEF FindDaylight
<1>6. ASSUME NEW t \in Threads, SetDaylight(t) PROVE TimeTypeOK'
  BY <1>6 DEF SetDaylight
<1>7. ASSUME NEW z \in Zones, setenv(z) PROVE TimeTypeOK'
  <2>1. undisturbed' \in BOOLEAN
    BY <1>7, Zenon DEF setenv
  <2> QED
    BY <1>7, <2>1 DEF setenv
<1>8. CASE localtime
  BY <1>8 DEF localtime
<1>9. CASE UNCHANGED timeVars
  BY <1>9 DEF timeVars
<1> QED
  BY <1>1, <1>2, <1>3, <1>4, <1>5, <1>6, <1>7, <1>8, <1>9 DEF TimeNext

\* What a thread has stays right while its zone, the date, and what it has
\* found and told stay.
LEMMA ThreadStays ==
  ASSUME NEW t \in Threads, ThreadOfOneZone(t),
         at'[t] = at[t], offset'[t] = offset[t], found'[t] = found[t],
         now' = now, of' = of, TZ' = TZ,
         at[t] # "out" => zone' = zone,
         tzname' = tzname \/ tzname' = of,
         timezone' = timezone \/ timezone' = StandardTime(of, Date(now))
  PROVE  ThreadOfOneZone(t)'
BY DEF ThreadOfOneZone, Date

LEMMA TimeStep == TimeIInv /\ [TimeNext]_timeVars => TimeIInv'
<1> SUFFICES ASSUME TimeIInv, [TimeNext]_timeVars PROVE TimeIInv'
  OBVIOUS
<1> DEFINE Told == /\ OfOneZone
                   /\ undisturbed => \A t \in Threads : ThreadOfOneZone(t)
<1>1. TimeTypeOK /\ TimeTypeOK' /\ Told
  BY TimeTypeStep DEF TimeIInv
<1> SUFFICES Told'
  BY <1>1 DEF TimeIInv
<1>2. ASSUME NEW t \in Threads, tzset(t) PROVE Told'
  <2>1. at'[t] = "names" /\ ~Idle(Threads)'
    BY <1>1, <1>2 DEF tzset, Goto, TimeTypeOK, Idle
  <2>2. OfOneZone'
    BY <2>1 DEF OfOneZone
  <2>3. ASSUME undisturbed', NEW u \in Threads PROVE ThreadOfOneZone(u)'
    <3>1. CASE Idle(Threads \ {t})
      <4>1. of' = TZ /\ TZ' = TZ /\ zone' = TZ
        BY <1>2, <3>1 DEF tzset
      <4>2. CASE u = t
        BY <2>1, <4>1, <4>2 DEF ThreadOfOneZone
      <4>3. CASE u # t
        <5>1. at'[u] = "out"
          BY <1>1, <1>2, <3>1, <4>3 DEF tzset, Goto, TimeTypeOK, Idle
        <5> QED
          BY <5>1 DEF ThreadOfOneZone
      <4> QED
        BY <4>2, <4>3
    <3>2. CASE ~Idle(Threads \ {t})
      <4>1. of' = of /\ undisturbed /\ TZ' = TZ /\ zone' = TZ
        BY <1>2, <2>3, <3>2 DEF tzset
      <4>2. of = TZ /\ zone = TZ
        <5>1. PICK v \in Threads \ {t} : at[v] # "out"
          BY <3>2 DEF Idle
        <5> QED
          BY <1>1, <4>1, <5>1 DEF ThreadOfOneZone
      <4>3. CASE u = t
        BY <2>1, <4>1, <4>2, <4>3 DEF ThreadOfOneZone
      <4>4. CASE u # t
        <5>1. at'[u] = at[u]
          BY <1>1, <1>2, <4>4 DEF tzset, Goto, TimeTypeOK
        <5> QED
          BY <1>1, <1>2, <4>1, <4>2, <5>1, ThreadStays DEF tzset
      <4> QED
        BY <4>3, <4>4
    <3> QED
      BY <3>1, <3>2
  <2> QED
    BY <2>2, <2>3
\* From here on of and undisturbed are what they were, and so is the zone.
<1>3. ASSUME NEW t \in Threads, CopyNames(t) PROVE Told'
  <2>1. at[t] = "names" /\ at'[t] = "search" /\ tzname' = zone
    BY <1>1, <1>3 DEF CopyNames, Goto, TimeTypeOK
  <2>2. OfOneZone'
    BY <2>1 DEF OfOneZone, Idle
  <2>3. ASSUME undisturbed', NEW u \in Threads PROVE ThreadOfOneZone(u)'
    <3>1. /\ undisturbed /\ ThreadOfOneZone(u)
          /\ TZ' = of /\ zone' = of /\ tzname' = of /\ of' = of
      BY <1>1, <1>3, <2>1, <2>3 DEF CopyNames, ThreadOfOneZone
    <3>2. CASE u = t
      BY <2>1, <3>1, <3>2 DEF ThreadOfOneZone
    <3>3. CASE u # t
      <4>1. at'[u] = at[u]
        BY <1>1, <1>3, <3>3 DEF CopyNames, Goto, TimeTypeOK
      <4> QED
        BY <1>3, <3>1, <4>1, ThreadStays DEF CopyNames
    <3> QED
      BY <3>2, <3>3
  <2> QED
    BY <2>2, <2>3
<1>4. ASSUME NEW t \in Threads, FindOffset(t) PROVE Told'
  <2>1. at[t] = "search" /\ at'[t] = "offset"
        /\ offset'[t] = StandardTime(zone, Date(now))
    BY <1>1, <1>4, FindsTheLatest DEF FindOffset, Goto, TimeTypeOK
  <2>2. OfOneZone'
    BY <2>1 DEF OfOneZone, Idle
  <2>3. ASSUME undisturbed', NEW u \in Threads PROVE ThreadOfOneZone(u)'
    <3>1. undisturbed /\ ThreadOfOneZone(u) /\ ThreadOfOneZone(t)
      BY <1>1, <1>4, <2>3 DEF FindOffset
    <3>2. CASE u = t
      BY <1>4, <2>1, <3>1, <3>2 DEF FindOffset, ThreadOfOneZone, Date
    <3>3. CASE u # t
      <4>1. at'[u] = at[u] /\ offset'[u] = offset[u]
        BY <1>1, <1>4, <3>3 DEF FindOffset, Goto, TimeTypeOK
      <4> QED
        BY <1>4, <3>1, <4>1, ThreadStays DEF FindOffset
    <3> QED
      BY <3>2, <3>3
  <2> QED
    BY <2>2, <2>3
<1>5. ASSUME NEW t \in Threads, SetTimezone(t) PROVE Told'
  <2>1. at[t] = "offset" /\ at'[t] = "again" /\ timezone' = offset[t]
    BY <1>1, <1>5 DEF SetTimezone, Goto, TimeTypeOK
  <2>2. OfOneZone'
    BY <2>1 DEF OfOneZone, Idle
  <2>3. ASSUME undisturbed', NEW u \in Threads PROVE ThreadOfOneZone(u)'
    <3>1. /\ undisturbed /\ ThreadOfOneZone(u) /\ ThreadOfOneZone(t)
          /\ timezone' = StandardTime(of, Date(now))
      BY <1>1, <1>5, <2>1, <2>3 DEF SetTimezone, ThreadOfOneZone
    <3>2. CASE u = t
      BY <1>5, <2>1, <3>1, <3>2 DEF SetTimezone, ThreadOfOneZone, Date
    <3>3. CASE u # t
      <4>1. at'[u] = at[u] /\ offset'[u] = offset[u]
        BY <1>1, <1>5, <3>3 DEF SetTimezone, Goto, TimeTypeOK
      <4> QED
        BY <1>5, <3>1, <4>1, ThreadStays DEF SetTimezone
    <3> QED
      BY <3>2, <3>3
  <2> QED
    BY <2>2, <2>3
<1>6. ASSUME NEW t \in Threads, FindDaylight(t) PROVE Told'
  <2>1. at[t] = "again" /\ at'[t] = "flag"
        /\ found'[t] = (IF HasHadSummer(zone, Date(now)) THEN 1 ELSE 0)
    BY <1>1, <1>6, FindsASummer DEF FindDaylight, Goto, TimeTypeOK
  <2>2. OfOneZone'
    BY <2>1 DEF OfOneZone, Idle
  <2>3. ASSUME undisturbed', NEW u \in Threads PROVE ThreadOfOneZone(u)'
    <3>1. undisturbed /\ ThreadOfOneZone(u) /\ ThreadOfOneZone(t)
      BY <1>1, <1>6, <2>3 DEF FindDaylight
    <3>2. CASE u = t
      BY <1>6, <2>1, <3>1, <3>2 DEF FindDaylight, ThreadOfOneZone, Date
    <3>3. CASE u # t
      <4>1. at'[u] = at[u] /\ found'[u] = found[u]
        BY <1>1, <1>6, <3>3 DEF FindDaylight, Goto, TimeTypeOK
      <4> QED
        BY <1>6, <3>1, <4>1, ThreadStays DEF FindDaylight
    <3> QED
      BY <3>2, <3>3
  <2> QED
    BY <2>2, <2>3
\* The last step of tzset(): what it has told is complete.
<1>7. ASSUME NEW t \in Threads, SetDaylight(t) PROVE Told'
  <2>1. at[t] = "flag" /\ at'[t] = "out" /\ daylight' = found[t]
    BY <1>1, <1>7 DEF SetDaylight, Goto, TimeTypeOK
  <2>2. OfOneZone'
    BY <1>1, <1>7, <2>1 DEF SetDaylight, OfOneZone, ThreadOfOneZone, Date
  <2>3. ASSUME undisturbed', NEW u \in Threads PROVE ThreadOfOneZone(u)'
    <3>1. undisturbed /\ ThreadOfOneZone(u)
      BY <1>1, <1>7, <2>3 DEF SetDaylight
    <3>2. CASE u = t
      BY <2>1, <3>2 DEF ThreadOfOneZone
    <3>3. CASE u # t
      <4>1. at'[u] = at[u] /\ found'[u] = found[u]
        BY <1>1, <1>7, <3>3 DEF SetDaylight, Goto, TimeTypeOK
      <4> QED
        BY <1>7, <3>1, <4>1, ThreadStays DEF SetDaylight
    <3> QED
      BY <3>2, <3>3
  <2> QED
    BY <2>2, <2>3
\* The environment changes: nothing is claimed while a thread is on its way.
<1>8. ASSUME NEW z \in Zones, setenv(z) PROVE Told'
  <2>1. OfOneZone'
    BY <1>1, <1>8 DEF setenv, OfOneZone, Idle, Date
  <2>2. ASSUME undisturbed', NEW u \in Threads PROVE ThreadOfOneZone(u)'
    BY <1>8, <2>2 DEF setenv, ThreadOfOneZone, Idle
  <2> QED
    BY <2>1, <2>2
<1>9. CASE localtime
  <2>1. OfOneZone'
    BY <1>1, <1>9 DEF localtime, OfOneZone, Idle, Date
  <2>2. ASSUME undisturbed', NEW u \in Threads PROVE ThreadOfOneZone(u)'
    <3>1. ThreadOfOneZone(u)
      BY <1>1, <1>9, <2>2 DEF localtime
    <3> QED
      BY <1>9, <3>1, ThreadStays DEF localtime, ThreadOfOneZone
  <2> QED
    BY <2>1, <2>2
<1>10. CASE UNCHANGED timeVars
  <2>1. OfOneZone'
    BY <1>1, <1>10 DEF timeVars, OfOneZone, Idle, Date
  <2>2. ASSUME undisturbed', NEW u \in Threads PROVE ThreadOfOneZone(u)'
    BY <1>1, <1>10, <2>2, ThreadStays DEF timeVars
  <2> QED
    BY <2>1, <2>2
<1> QED
  BY <1>2, <1>3, <1>4, <1>5, <1>6, <1>7, <1>8, <1>9, <1>10 DEF TimeNext

THEOREM TimeIInvCorrect == TimeSpec => []TimeIInv
<1> QED
  BY TimeStart, TimeStep, PTL DEF TimeSpec

-----------------------------------------------------------------------------
\* When every tzset() has come back, and none was overtaken by a change of
\* the environment, the program's name, offset and flag are of one zone.
THEOREM OfOneZoneCorrect == TimeSpec => []OfOneZone
<1>1. TimeIInv => OfOneZone
  BY DEF TimeIInv
<1> QED
  BY TimeIInvCorrect, <1>1, PTL
=============================================================================
