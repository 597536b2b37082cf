----------------------------- MODULE MCScanner -----------------------------
(* Scanner on small instances: two scan threads, two MACs. *)
EXTENDS Scanner, TLC

CONSTANTS sched, manual, m1, m2

MCScanners == {sched, manual}
MCMacs == {m1, m2}
MCOneScanner == {sched}
MCOneMac == {m1}
Symmetric == Permutations(MCScanners) \cup Permutations(MCMacs)
=============================================================================
