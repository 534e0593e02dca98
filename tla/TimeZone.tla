------------------------------ MODULE TimeZone ------------------------------
(***************************************************************************)
(* tzset() of src/src/libc/time.c.  FreeBSD keeps the zone; the program's  *)
(* tzname, timezone and daylight are copies that only tzset() makes, step  *)
(* by step and under no lock.  The offsets are found by trying 21 June and *)
(* 21 December of every year back to 1970.                                 *)
(***************************************************************************)
EXTENDS Process, Integers

CONSTANTS
  Zones,     \* per half year, [dst, offset]
  LastYear   \* that the clock may show, counted from 1900

VARIABLES
  TZ,              \* the program's environment
  zone,            \* FreeBSD's
  tzname, timezone, daylight,   \* the program's: whose name, which values
  now,             \* <<year, month>>, months from 0 as in struct tm
  at,              \* per thread: where it is in tzset()
  offset, found,   \* per thread: its locals timezone and daylight
  of, undisturbed  \* the zone that the last lone call has begun with, and
                   \* whether it was left alone until all have come back

timeVars == <<TZ, zone, tzname, timezone, daylight, now, at, offset, found, of, undisturbed>>

-----------------------------------------------------------------------------
June == 5
December == 11
Halves == {<<y, m>> : y \in 70..LastYear, m \in {June, December}}
Zone   == [Halves -> [dst : BOOLEAN, offset : Int]]
GMT    == [h \in Halves |-> [dst |-> FALSE, offset |-> 0]]

ASSUME TimeAssumption == Zones \subseteq Zone /\ LastYear \in Nat /\ LastYear >= 70

Idle(T) == \A t \in T : at[t] = "out"

TimeTypeOK ==
  /\ {TZ, zone, tzname, of} \subseteq Zones \cup {GMT}
  /\ daylight \in {0, 1} /\ now \in (70..LastYear) \X (0..11)
  /\ at \in [Threads -> {"out", "names", "search", "offset", "again", "flag"}]
  /\ offset \in [Threads -> Int] /\ found \in [Threads -> {0, 1}]
  /\ undisturbed \in BOOLEAN

\* Before the first tzset() the program's variables are GMT's.
TimeInit ==
  /\ TZ \in Zones /\ zone \in Zones /\ now \in {LastYear} \X {0, 6, 11}
  /\ tzname = GMT /\ timezone = 0 /\ daylight = 0 /\ of = GMT /\ undisturbed = FALSE
  /\ at = [t \in Threads |-> "out"]
  /\ offset = [t \in Threads |-> 0] /\ found = [t \in Threads |-> 0]

Goto(t, from, to) == at[t] = from /\ at' = [at EXCEPT ![t] = to]

\* tzset() of FreeBSD: it takes the zone from the environment.
tzset(t) ==
  /\ Goto(t, "out", "names")
  /\ zone' = TZ
  /\ IF Idle(Threads \ {t}) THEN of' = TZ /\ undisturbed' = TRUE
     ELSE UNCHANGED <<of, undisturbed>>
  /\ UNCHANGED <<TZ, tzname, timezone, daylight, now, offset, found>>

CopyNames(t) ==
  /\ Goto(t, "names", "search") /\ tzname' = zone
  /\ UNCHANGED <<TZ, zone, timezone, daylight, now, offset, found, of, undisturbed>>

\* The half years that find_offset() tries: none that the clock has not come
\* to by its month, June's from the 1st.
Tried == {h \in Halves : h[1] < now[1] \/ (h[1] = now[1] /\ h[2] <= now[2])}

\* Variant: of every year, June first.
RoundJune(h) == 2 * (now[1] - h[1]) + (IF h[2] = June THEN 0 ELSE 1)

\* In which round of the two loops a half year is tried.
Round(h) == 2 * (now[1] - h[1]) + (IF h[2] = December THEN 0 ELSE 1)

OfKind(dst) == {h \in Tried : zone[h].dst = dst}

find_offset(dst) ==
  zone[CHOOSE h \in OfKind(dst) : \A g \in OfKind(dst) : Round(h) <= Round(g)].offset

\* One step: the zone changes under a search only if the environment does, and
\* then nothing is said of what is found.
FindOffset(t) ==
  /\ Goto(t, "search", "offset")
  /\ offset' = [offset EXCEPT ![t] = IF OfKind(FALSE) # {} THEN -find_offset(FALSE) ELSE 0]
  /\ UNCHANGED <<TZ, zone, tzname, timezone, daylight, now, found, of, undisturbed>>

\* timezone and __timezone are told together.  The locals end with their use.
SetTimezone(t) ==
  /\ Goto(t, "offset", "again")
  /\ timezone' = offset[t] /\ offset' = [offset EXCEPT ![t] = 0]
  /\ UNCHANGED <<TZ, zone, tzname, daylight, now, found, of, undisturbed>>

FindDaylight(t) ==
  /\ Goto(t, "again", "flag")
  /\ found' = [found EXCEPT ![t] = IF OfKind(TRUE) # {} THEN 1 ELSE 0]
  /\ UNCHANGED <<TZ, zone, tzname, timezone, daylight, now, offset, of, undisturbed>>

SetDaylight(t) ==
  /\ Goto(t, "flag", "out")
  /\ daylight' = found[t] /\ found' = [found EXCEPT ![t] = 0]
  /\ UNCHANGED <<TZ, zone, tzname, timezone, now, offset, of, undisturbed>>

-----------------------------------------------------------------------------
(* What is not the shim's                                                  *)

setenv(z) ==
  /\ z # TZ /\ TZ' = z /\ undisturbed' = (undisturbed /\ Idle(Threads))
  /\ UNCHANGED <<zone, tzname, timezone, daylight, now, at, offset, found, of>>

\* FreeBSD's localtime(): the zone follows the environment, the program's
\* variables do not.
localtime ==
  /\ zone' = TZ
  /\ UNCHANGED <<TZ, tzname, timezone, daylight, now, at, offset, found, of, undisturbed>>

TimeNext ==
  \/ \E t \in Threads : \/ tzset(t) \/ CopyNames(t) \/ FindOffset(t)
                        \/ SetTimezone(t) \/ FindDaylight(t) \/ SetDaylight(t)
  \/ \E z \in Zones : setenv(z)
  \/ localtime

TimeSpec == TimeInit /\ [][TimeNext]_timeVars

-----------------------------------------------------------------------------
(* Properties                                                              *)

\* Dates in months since 1900: of a half year, of the clock.
Date(d) == 12 * d[1] + d[2]

\* The offset, west of Greenwich, of a zone's standard time on a date: that of
\* the latest half year with standard time; 0 if there was none.
StandardTime(z, date) ==
  LET standard == {h \in Halves : ~z[h].dst /\ Date(h) <= date} IN
  IF standard = {} THEN 0
  ELSE -z[CHOOSE h \in standard : \A g \in standard : Date(g) <= Date(h)].offset

HasHadSummer(z, date) == \E h \in Halves : z[h].dst /\ Date(h) <= date

\* Whatever was in the variables, and however many threads call tzset() at a
\* time: when they have all come back, and the environment was left alone
\* since the first of them began, the name, the offset and the flag are of
\* one zone, the environment's.
OfOneZone ==
  Idle(Threads) /\ undisturbed =>
    /\ tzname = of
    /\ timezone = StandardTime(of, Date(now))
    /\ daylight = (IF HasHadSummer(of, Date(now)) THEN 1 ELSE 0)

\* What every step keeps: the threads that are on their way have what they
\* have found, and what they have told, from the same zone.
ThreadOfOneZone(t) ==
  /\ at[t] # "out" => TZ = of /\ zone = of
  /\ at[t] \in {"search", "offset", "again", "flag"} => tzname = of
  /\ at[t] = "offset" => offset[t] = StandardTime(of, Date(now))
  /\ at[t] \in {"again", "flag"} => timezone = StandardTime(of, Date(now))
  /\ at[t] = "flag" => found[t] = (IF HasHadSummer(of, Date(now)) THEN 1 ELSE 0)

TimeIInv ==
  /\ TimeTypeOK /\ OfOneZone
  /\ undisturbed => \A t \in Threads : ThreadOfOneZone(t)
=============================================================================
