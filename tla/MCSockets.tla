------------------------------ MODULE MCSockets ------------------------------
(* Sockets with names that are cut, that collide and that do not convert. *)
EXTENDS Sockets, TLC

Unix(abstract, name, behind) ==
  [sa_family |-> 1, abstract |-> abstract, name |-> name, behind |-> behind]

Other(family, name) == [Unix(FALSE, name, <<>>) EXCEPT !.sa_family = family]

\* An abstract name and one that differs from it behind a NUL, another and one
\* that is read on and then cut, a path that is read on to its end, a path that
\* is too long, an internet address, AF_PACKET.
SomeAddresses ==
  {Unix(TRUE, <<"x">>, <<NUL, "a">>), Unix(TRUE, <<"x", NUL, "a">>, <<>>),
   Unix(TRUE, <<"y">>, <<>>), Unix(TRUE, <<"y">>, <<"a">>),
   Unix(FALSE, <<VarRun>>, <<"y">>), Unix(FALSE, <<VarRun, "y", "a">>, <<>>),
   Other(10, <<"::1">>), Other(17, <<>>)}

\* SOCK_STREAM; SOCK_DGRAM, non-blocking; SOCK_PACKET, which is not known
SomeTypes == {[kind |-> 1, bits |-> {}], [kind |-> 2, bits |-> {11}],
              [kind |-> 10, bits |-> {}]}

\* DONTWAIT; WAITALL and NOSIGNAL; MORE, which is not known
SomeFlags == {{6}, {8, 14}, {15}}
SomeRooms == {0, 16, 110}

Symmetry == Permutations(Sockets)
=============================================================================
