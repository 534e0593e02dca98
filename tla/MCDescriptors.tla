---------------------------- MODULE MCDescriptors ----------------------------
(* Descriptors on few paths: a device by two names, a hidden path, a replaced one. *)
EXTENDS Descriptors, TLC

SomePaths == {"/dev/nvidia-uvm", "/proc/self/maps", "/proc/version",
              "/etc/ssl/certs/ca-certificates.crt"}
SomeLocked == {"/etc/ssl/certs/ca-certificates.crt"}
\* WRONLY TRUNC; RDWR CREAT; RDWR CREAT EXCL APPEND CLOEXEC;
\* NONBLOCK CLOEXEC; DIRECTORY
SomeFlagSets == {{0, 9}, {1, 6}, {1, 6, 7, 10, 19}, {11, 19}, {16}}

Symmetry == Permutations(Fds) \cup Permutations(Descs)
=============================================================================
