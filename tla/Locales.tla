------------------------------- MODULE Locales -------------------------------
(***************************************************************************)
(* src/src/libc/locale.c.  A Linux locale is a block around a native       *)
(* locale, always the "C" locale.  A thread has its locale twice, as the   *)
(* block here and as the native one in FreeBSD's libc; setlocale() sets    *)
(* the process's, and localeconv() points to the one copy of its           *)
(* conventions that every setlocale() makes.                               *)
(***************************************************************************)
EXTENDS Process, Integers

CONSTANTS
  Blocks,          \* addresses of struct linux_locale
  Natives,         \* addresses of FreeBSD's locales
  LC_GLOBAL_LOCALE

FREE == -1   \* in place of the native locale of a block that is not there

ASSUME LocalesAssumption ==
  /\ NULL \notin Blocks \cup Natives
  /\ LC_GLOBAL_LOCALE \notin Blocks \cup Natives \cup {NULL}
  /\ FREE \notin Natives \cup {NULL}

VARIABLES
  native_locale,   \* of every block: NULL if newlocale() failed, -1 if free
  natives,         \* FreeBSD's locales that are there
  thread_locale,   \* per thread: a block, or LC_GLOBAL_LOCALE
  in_force,        \* per thread: FreeBSD's, or LC_GLOBAL_LOCALE
  global,          \* per category: the name of the process's locale
  process_lconv,   \* per category: the name of the locale it is of
  own,             \* the last to copy was a thread with a locale of its own
  locale_dead

localesVars == <<native_locale, natives, thread_locale, in_force, global,
                 process_lconv, own, locale_dead>>

-----------------------------------------------------------------------------
LC_NUMERIC == 1
LC_MONETARY == 4
LC_ALL == 6

\* The categories that struct lconv is made of; the others are known, too.
OfLconv == {LC_NUMERIC, LC_MONETARY}
Names   == {"C", "de_DE"}

Allocated == {b \in Blocks : native_locale[b] # FREE}
Owned     == {native_locale[b] : b \in Allocated} \ {NULL}
InUse(b)  == \E t \in Threads : thread_locale[t] = b

LocalesTypeOK ==
  /\ native_locale \in [Blocks -> Natives \cup {NULL, FREE}]
  /\ natives \subseteq Natives
  /\ thread_locale \in [Threads -> Blocks \cup {LC_GLOBAL_LOCALE}]
  /\ in_force \in [Threads -> Natives \cup {LC_GLOBAL_LOCALE}]
  /\ global \in [OfLconv -> Names]
  /\ process_lconv \in [OfLconv -> Names]
  /\ own \in BOOLEAN /\ locale_dead \in BOOLEAN

LocalesInit ==
  /\ native_locale = [b \in Blocks |-> FREE] /\ natives = {}
  /\ thread_locale = [t \in Threads |-> LC_GLOBAL_LOCALE]
  /\ in_force = [t \in Threads |-> LC_GLOBAL_LOCALE]
  /\ global = [c \in OfLconv |-> "C"]
  /\ process_lconv = [c \in OfLconv |-> "C"]
  /\ own = FALSE /\ locale_dead = FALSE

LocalesLive == ~locale_dead /\ UNCHANGED locale_dead

LocalesDie ==
  /\ ~locale_dead /\ locale_dead' = TRUE
  /\ UNCHANGED <<native_locale, natives, thread_locale, in_force, global, process_lconv, own>>

-----------------------------------------------------------------------------
\* Block b gets a native locale of its own, or none is to be had.
WithNative(b) ==
  \/ \E n \in Natives \ natives :
       /\ native_locale' = [native_locale EXCEPT ![b] = n]
       /\ natives' = natives \cup {n}
  \/ native_locale' = [native_locale EXCEPT ![b] = NULL] /\ UNCHANGED natives

\* The categories are all or LC_ALL's number, the locale is "C", and what
\* base has is "C" as well.  malloc() may fail, and FreeBSD's newlocale().
newlocale(mask, name) ==
  \/ ~(mask \in {64, 8127} /\ name = "C") /\ LocalesDie
  \/ mask \in {64, 8127} /\ name = "C" /\ Allocated = Blocks /\ LocalesDie
  \/ /\ LocalesLive /\ mask \in {64, 8127} /\ name = "C"
     /\ \E b \in Blocks \ Allocated : WithNative(b)
     /\ UNCHANGED <<thread_locale, in_force, global, process_lconv, own>>

\* Variant: the copy of the block is all that is done.
CopyShares(b, locale) ==
  native_locale' = [native_locale EXCEPT ![b] = native_locale[locale]] /\ UNCHANGED natives

\* The copy of the block points to the native locale of the original; that
\* is duplicated, too (of NULL FreeBSD makes a new one).
CopyBlock(b, locale) == WithNative(b)

\* LC_GLOBAL_LOCALE is no block: the copy reads at the address -1.  Without
\* memory it is written at null.
duplocale(locale) ==
  \/ locale = LC_GLOBAL_LOCALE /\ LocalesDie
  \/ locale \in Allocated /\ Allocated = Blocks /\ LocalesDie
  \/ /\ LocalesLive /\ locale \in Allocated
     /\ \E b \in Blocks \ Allocated : CopyBlock(b, locale)
     /\ UNCHANGED <<thread_locale, in_force, global, process_lconv, own>>

\* Variant: going back to the process's locale is this side's business.
NativeStays(t, locale) ==
  IF locale = LC_GLOBAL_LOCALE \/ native_locale[locale] = NULL THEN in_force[t]
  ELSE native_locale[locale]

\* FreeBSD's uselocale(NULL) changes nothing.
NativeOf(t, locale) ==
  IF locale = LC_GLOBAL_LOCALE THEN LC_GLOBAL_LOCALE
  ELSE IF native_locale[locale] = NULL THEN in_force[t]
  ELSE native_locale[locale]

uselocale(t, locale) ==
  /\ LocalesLive /\ locale \in Allocated \cup {LC_GLOBAL_LOCALE}
  /\ thread_locale' = [thread_locale EXCEPT ![t] = locale]
  /\ in_force' = [in_force EXCEPT ![t] = NativeOf(t, locale)]
  /\ UNCHANGED <<native_locale, natives, global, process_lconv, own>>

\* Not while a thread uses it; what a failed newlocale() has left may still
\* be in force there.
freelocale(locale) ==
  /\ LocalesLive /\ locale \in Allocated /\ ~InUse(locale)
  /\ \A t \in Threads : in_force[t] # native_locale[locale]
  /\ native_locale' = [native_locale EXCEPT ![locale] = FREE]
  /\ natives' = natives \ {native_locale[locale]}
  /\ UNCHANGED <<thread_locale, in_force, global, process_lconv, own>>

-----------------------------------------------------------------------------
\* FreeBSD's localeconv(), as thread t sees it.
native_lconv(t, names) ==
  IF in_force[t] = LC_GLOBAL_LOCALE THEN names ELSE [c \in OfLconv |-> "C"]

\* Variant: the conventions of money are forgotten.
LconvWithoutMoney(t, names) == [native_lconv(t, names) EXCEPT ![LC_MONETARY] = "C"]

set_process_lconv(t, names) == native_lconv(t, names)

\* Of one category or of all; NULL, here no name, asks only, and the answer
\* is followed by a copy all the same.
setlocale(t, category, name) ==
  \/ category \notin 0..6 /\ LocalesDie
  \/ /\ LocalesLive /\ category \in 0..6 /\ name \notin Names \cup {NULL}
     /\ UNCHANGED localesVars
  \/ /\ LocalesLive /\ category \in 0..6 /\ name \in Names \cup {NULL}
     /\ global' = [c \in OfLconv |->
                     IF name # NULL /\ category \in {c, LC_ALL} THEN name ELSE global[c]]
     /\ process_lconv' = set_process_lconv(t, global')
     /\ own' = (in_force[t] # LC_GLOBAL_LOCALE)
     /\ UNCHANGED <<native_locale, natives, thread_locale, in_force>>

LocalesNext ==
  \/ \E mask \in {2, 8127}, name \in {"C", "de_DE"} : newlocale(mask, name)
  \/ \E b \in Blocks \cup {LC_GLOBAL_LOCALE} : duplocale(b)
  \/ \E b \in Blocks : freelocale(b)
  \/ \E t \in Threads :
       \/ \E b \in Blocks \cup {LC_GLOBAL_LOCALE} : uselocale(t, b)
       \/ \E c \in {LC_NUMERIC, LC_ALL, 7}, n \in Names \cup {NULL, "none"} :
            setlocale(t, c, n)

LocalesSpec == LocalesInit /\ [][LocalesNext]_localesVars

-----------------------------------------------------------------------------
(* Properties                                                              *)

\* Every native locale belongs to one Linux locale: freeing them all frees
\* each native one once, and none stays behind.
NativesOwned ==
  /\ natives = Owned
  /\ \A b, c \in Allocated :
       native_locale[b] = native_locale[c] => b = c \/ native_locale[b] = NULL

\* What FreeBSD's functions use in a thread is what uselocale(NULL) tells it,
\* except in a locale that newlocale() could not make.
UsesWhatItSays ==
  \A t \in Threads :
    \/ thread_locale[t] = LC_GLOBAL_LOCALE /\ in_force[t] = LC_GLOBAL_LOCALE
    \/ /\ thread_locale[t] \in Allocated
       /\ native_locale[thread_locale[t]] \in {in_force[t], NULL}

\* localeconv() points to the conventions of the process's locale, unless
\* the last call of setlocale() was by a thread with a locale of its own:
\* that one has copied its own for all.
LconvOfProcess == ~own => process_lconv = global

\* What every step keeps.
LocalesIInv == LocalesTypeOK /\ NativesOwned /\ UsesWhatItSays /\ LconvOfProcess
=============================================================================
