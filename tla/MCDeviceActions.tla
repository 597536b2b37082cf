---------------------------- MODULE MCDeviceActions ----------------------------
(* Small instances of DeviceActions for TLC. *)
EXTENDS DeviceActions, TLC

CONSTANTS r1, r2, m1, m2, n1

Line(m, n) == [mac |-> m, note |-> n]

\* One line; two devices after a comment; a device twice, named the second
\* time; and a file over the limit.
MCFiles == {<<Line(m1, n1)>>,
            <<Line(NoMac, NoName), Line(m2, NoName), Line(m1, n1)>>,
            <<Line(m1, NoName), Line(m1, n1)>>,
            <<Line(m1, n1), Line(m2, n1), Line(m1, n1)>>}

\* m1 has the first row, in any state; m2 has the second one or none.
MCInit ==
  /\ Init /\ macOf[1] = m1
  /\ status[2] = "unknown" /\ name[2] = NoName
  /\ dry => status[1] = "unknown" /\ name[1] = NoName

MCSpec == MCInit /\ [][Next]_vars

Symmetry == Permutations({r1, r2})

=============================================================================
