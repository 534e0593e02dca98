------------------------------ MODULE Redirects ------------------------------
(* src/src/util.c: the files that FreeBSD has under other names than Linux, *)
(* and those that a program shall not see.                                  *)
EXTENDS Integers, Sequences

HIDDEN == "NULL"

\* What init_redirects leaves: pairs of a path and its replacement.
procfs_redirects ==
  <<"/proc/self/maps", "/dev/null",
    "/proc/cpuinfo",   "/compat/linux//proc/cpuinfo",
    HIDDEN>>

\* Paths that begin with "/proc/" and with "/sys/".
ProcPaths == {"/proc/self/maps", "/proc/cpuinfo", "/proc/version",
              "/proc/driver/nvidia/params", "/proc/self/task/1/comm"}
SysPaths  == {"/sys/devices"}

Entry(p) == {i \in DOMAIN procfs_redirects :
               i % 2 = 1 /\ procfs_redirects[i] = p}

redirect(p) ==
  CASE p = "/dev/nvidia-uvm" -> "/dev/null"
    [] p \in ProcPaths ->
         IF Entry(p) = {} THEN HIDDEN
         ELSE procfs_redirects[1 + CHOOSE i \in Entry(p) : TRUE]
    [] p \in SysPaths -> HIDDEN
    [] p = "/etc/ssl/certs/ca-certificates.crt" -> "/etc/ssl/cert.pem"
    [] OTHER -> p
=============================================================================
