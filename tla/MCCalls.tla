------------------------------- MODULE MCCalls -------------------------------
(* The parts of the shim that share no state.  A behaviour is one part's,  *)
(* chosen at the start, so that the states of the parts add up and do not  *)
(* multiply.                                                               *)
EXTENDS Locales, ThreadCalls, Attributes, Lists, TimeZone, SocketOptions, Exits, NamedFiles

VARIABLE part

Parts == {"locales", "threads", "attributes", "lists", "time",
          "options", "exits", "files"}

Only(p) ==
  /\ part = p /\ UNCHANGED part
  /\ IF p = "locales" THEN TRUE ELSE UNCHANGED localesVars
  /\ IF p = "threads" THEN TRUE ELSE UNCHANGED callsVars
  /\ IF p = "attributes" THEN TRUE ELSE UNCHANGED attributesVars
  /\ IF p = "lists" THEN TRUE ELSE UNCHANGED listsVars
  /\ IF p = "time" THEN TRUE ELSE UNCHANGED timeVars
  /\ IF p = "options" THEN TRUE ELSE UNCHANGED optionsVars
  /\ IF p = "exits" THEN TRUE ELSE UNCHANGED exitsVars
  /\ IF p = "files" THEN TRUE ELSE UNCHANGED filesVars

Init ==
  /\ part \in Parts
  /\ LocalesInit /\ CallsInit /\ AttributesInit /\ ListsInit
  /\ TimeInit /\ OptionsInit /\ ExitsInit /\ FilesInit
  /\ part # "time" => now[2] = 0 /\ TZ = zone /\ TZ = CHOOSE z \in Zones : TRUE
  /\ part # "options" => domain = "local"
  /\ part # "files" => proc_self_exe_override = NULL

Next ==
  \/ Only("locales") /\ LocalesNext
  \/ Only("threads") /\ CallsNext
  \/ Only("attributes") /\ AttributesNext
  \/ Only("lists") /\ ListsNext
  \/ Only("time") /\ TimeNext
  \/ Only("options") /\ OptionsNext
  \/ Only("exits") /\ ExitsNext
  \/ Only("files") /\ FilesNext

Spec == Init /\ [][Next]_<<localesVars, callsVars, attributesVars, listsVars, timeVars,
                        optionsVars, exitsVars, filesVars, part>>

-----------------------------------------------------------------------------
\* Address infos with and without a name, and one of AF_UNIX.
SomeInfos == {[family |-> 2, named |-> TRUE], [family |-> 28, named |-> FALSE],
              [family |-> 1, named |-> FALSE]}

\* Interfaces: of AF_INET, of AF_LINK, without address, with an odd mask.
SomeInterfaces ==
  {[family |-> 2, mask |-> 2], [family |-> 18, mask |-> NULL],
   [family |-> NULL, mask |-> NULL], [family |-> 18, mask |-> 18]}

SomeFiles == {[name |-> n, selected |-> TRUE] : n \in 1..2} \cup {[name |-> 1, selected |-> FALSE]}

\* Summers in June, in December, in one year only with another offset since
\* then, and always.
ZoneOf(Dst(_), Standard(_)) ==
  [h \in Halves |-> [dst |-> Dst(h), offset |-> Standard(h) + (IF Dst(h) THEN 1 ELSE 0)]]

SomeZones ==
  {ZoneOf(LAMBDA h : h[2] = June, LAMBDA h : 2),
   ZoneOf(LAMBDA h : h[2] = December, LAMBDA h : 10),
   ZoneOf(LAMBDA h : h = <<70, June>>, LAMBDA h : IF h = <<71, December>> THEN -6 ELSE -5),
   ZoneOf(LAMBDA h : TRUE, LAMBDA h : 3)}

\* Paths that are replaced, hidden, of a device, made up.
SomePaths == {"/proc/cpuinfo", "/proc/version", "/sys/devices", "/dev/nvidia-uvm",
              "/dev/char/195:0", "/proc/driver/nvidia/params", "/proc/self/task/1/comm",
              "/etc/ssl/certs/ca-certificates.crt"}

SomeOverrides == {NULL, "program"}

Symmetry == Permutations(Threads) \cup Permutations(Slots)
=============================================================================
