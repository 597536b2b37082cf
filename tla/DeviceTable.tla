------------------------------ MODULE DeviceTable ------------------------------
(***************************************************************************)
(* What the table of devices looks like from outside: which MAC has which  *)
(* row, and its status.  Whatever a request does before it commits, others *)
(* see one step: some rows get one status, a row goes, rows are added.     *)
(* DeviceActions, with its sessions and HTTP calls, implements this, and   *)
(* so does Scanner, with its scans and their long transactions: each of    *)
(* the two takes the other for steps of this table.                        *)
(***************************************************************************)
EXTENDS Integers

CONSTANTS Macs, MaxId, NoMac, Statuses

Ids == 1..MaxId

VARIABLES macOf, status
table == <<macOf, status>>

LiveIds(macs) == {i \in Ids : macs[i] # NoMac}
HasRow(macs, m) == \E i \in Ids : macs[i] = m

Init ==
  /\ macOf \in [Ids -> Macs \cup {NoMac}]
  /\ \A i, j \in LiveIds(macOf) : macOf[i] = macOf[j] => i = j
  /\ status \in [Ids -> Statuses]

\* A decision about some devices; none of them is a no-op.
Decide(ds, s) ==
  /\ status' = [i \in Ids |-> IF i \in ds THEN s ELSE status[i]]
  /\ UNCHANGED macOf

Remove(d) ==
  /\ macOf' = [macOf EXCEPT ![d] = NoMac]
  /\ status' = [status EXCEPT ![d] = "unknown"]

\* One transaction adds rows for MACs that have none, with one status, and may
\* give that status to rows that exist.
Add(row, ds, s) ==
  /\ \A m \in DOMAIN row : ~HasRow(macOf, m) /\ macOf[row[m]] = NoMac
  /\ \A m, k \in DOMAIN row : row[m] = row[k] => m = k
  /\ macOf' = [i \in Ids |-> IF \E m \in DOMAIN row : row[m] = i
                             THEN CHOOSE m \in DOMAIN row : row[m] = i ELSE macOf[i]]
  /\ status' = [i \in Ids |-> IF i \in ds \/ \E m \in DOMAIN row : row[m] = i
                              THEN s ELSE status[i]]

Next ==
  \/ \E ds \in SUBSET LiveIds(macOf), s \in Statuses : Decide(ds, s)
  \/ \E d \in LiveIds(macOf) : Remove(d)
  \/ \E new \in SUBSET Macs : \E row \in [new -> Ids], ds \in SUBSET LiveIds(macOf) :
       \E s \in {"unknown", "trusted"} : Add(row, ds, s)

Spec == Init /\ [][Next]_table

=============================================================================
