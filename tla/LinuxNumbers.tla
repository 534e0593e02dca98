---------------------------- MODULE LinuxNumbers ----------------------------
(***************************************************************************)
(* Words of flags and error numbers, as every part of the shim converts    *)
(* them.  A word is the set of its bits' numbers; a table is a set of      *)
(* pairs <<Linux's bit, FreeBSD's bit>>.                                   *)
(***************************************************************************)
EXTENDS Integers

ToNative(R, F) == {b[2] : b \in {a \in R : a[1] \in F}}
ToLinux(R, F)  == {b[1] : b \in {a \in R : a[2] \in F}}

\* EAGAIN, ENOSYS, ETIMEDOUT, EINPROGRESS
Errnos == {<<11, 35>>, <<38, 78>>, <<110, 60>>, <<115, 36>>}

native_to_linux_errno(e) ==
  IF \E p \in Errnos : p[2] = e THEN (CHOOSE p \in Errnos : p[2] = e)[1] ELSE e

linux_to_native_errno(e) ==
  IF \E p \in Errnos : p[1] = e THEN (CHOOSE p \in Errnos : p[1] = e)[2] ELSE e
=============================================================================
