---------------------------- MODULE AlertPolicy ----------------------------
(***************************************************************************)
(* What the scanner promises about repeat alerts, and nothing else: every  *)
(* device has a time of its latest recorded alert, and a new alert of the  *)
(* same device is recorded only when more than the cooldown has passed.    *)
(* A deleted device is forgotten.  Scanner.tla is shown to implement this  *)
(* specification.                                                          *)
(***************************************************************************)
EXTENDS Integers

CONSTANTS Devices, Cooldown

VARIABLES clock,      \* the current time
          recorded    \* the time of the latest recorded alert of each device

vars == <<clock, recorded>>

Never == -1

Init == /\ clock = 0
        /\ recorded = [d \in Devices |-> Never]

Due(d, t) == recorded[d] = Never \/ recorded[d] + Cooldown < t

\* One delivery records alerts of a set of devices, at times not in the future.
Record(B) == /\ \E at \in [B -> 0..clock] :
                  /\ \A d \in B : Due(d, at[d])
                  /\ recorded' = [d \in Devices |-> IF d \in B THEN at[d] ELSE recorded[d]]
             /\ UNCHANGED clock

Forget(d) == /\ recorded' = [recorded EXCEPT ![d] = Never]
             /\ UNCHANGED clock

Tick == /\ clock' = clock + 1
        /\ UNCHANGED recorded

Next == \/ \E B \in SUBSET Devices : Record(B)
        \/ \E d \in Devices : Forget(d)
        \/ Tick

Spec == Init /\ [][Next]_vars
=============================================================================
