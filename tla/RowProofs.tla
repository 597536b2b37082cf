----------------------------- MODULE RowProofs -----------------------------
(***************************************************************************)
(* A MAC never gets a second row.  The scan inserts a MAC it did not find  *)
(* when it loaded the rows, long before; what saves it is that the flush   *)
(* of the INSERT sees the committed rows and takes the write lock, which   *)
(* keeps every import and deletion out until the scan's commit.            *)
(* The same locks keep a decision about a device from being undone by a    *)
(* scan, and what a scan carries from step to step names no device that    *)
(* was decided before the scan began and stays so (SettledInv).            *)
(* Last, the refinement: Scanner implements DeviceTable.                   *)
(***************************************************************************)
EXTENDS ScannerProofs

NoRow(m) == \A d \in Ids : macOf[d] # m

Pending(p) ==
  /\ pc[p] \notin {"upsert", "choose", "deliver", "queue", "send"} => inserted[p] = {}
  /\ pc[p] \in {"upsert", "choose"} =>
       /\ inserted[p] # {} => writer = p
       /\ \A m \in inserted[p] : loaded[p][m] \in Ids \ Live /\ NoRow(m)
       /\ \A m, k \in inserted[p] : loaded[p][m] = loaded[p][k] => m = k

RowInv == OneRowPerMac /\ \A p \in Scanners : Pending(p)

\* devices_by_mac.get(mac) is None only when no row has the MAC.
LEMMA RowOfNone == ASSUME NEW m \in Macs, RowOf(m) = NoId PROVE NoRow(m)
<1> SUFFICES ASSUME NEW d \in Ids, macOf[d] = m PROVE FALSE
  BY DEF NoRow
<1>1. RowOf(m) \in Ids
  BY DEF RowOf
<1> QED
  BY <1>1 DEF Ids, NoId

\* A step that changes neither the rows nor what the scans have inserted.
LEMMA RowFrame ==
  ASSUME TypeOK, RowInv, UNCHANGED <<macOf, inserted, loaded>>,
         \A q \in Scanners : /\ writer = q => writer' = q
                             /\ pc'[q] \in {"upsert", "choose"} => pc[q] \in {"load", "upsert", "choose"}
                             /\ pc'[q] \notin {"upsert", "choose", "deliver", "queue", "send"} =>
                                  pc[q] \notin {"upsert", "choose", "deliver", "queue", "send"}
  PROVE  RowInv'
<1>1. OneRowPerMac'
  BY DEF RowInv, OneRowPerMac, Live
<1>2. ASSUME NEW q \in Scanners PROVE Pending(q)'
  BY DEF RowInv, Pending, Live, NoRow
<1> QED
  BY <1>1, <1>2 DEF RowInv

\* Every insertion, by a scan's commit or by an import, happens under the write
\* lock and after the check that the MAC has no row.
LEMMA RowNext == TypeInv /\ LockDiscipline /\ RowInv /\ [Next]_vars => RowInv'
<1> SUFFICES ASSUME TypeOK, LockDiscipline, RowInv, [Next]_vars PROVE RowInv'
  BY DEF TypeInv
<1> USE OwnersAssumption DEF tables, batch, mail, past, others, At, Goto, CanWrite
<1>1. ASSUME NEW p \in Scanners, NEW how, UNCHANGED macOf, Leave(p, how) PROVE RowInv'
  <2>1. OneRowPerMac'
    BY <1>1 DEF RowInv, OneRowPerMac, Live
  <2>2. ASSUME NEW q \in Scanners PROVE Pending(q)'
    BY <1>1 DEF RowInv, Pending, Live, NoRow, Leave, TypeOK
  <2> QED
    BY <2>1, <2>2 DEF RowInv
<1>2. ASSUME NEW p \in Scanners,
             \/ Busy(p) \/ Acquire(p) \/ Release(p) \/ BeginScan(p) \/ FetchClients(p)
             \/ FetchFails(p) \/ UpdateDevice(p) \/ ReadCooldown(p) \/ ChooseIntent(p)
             \/ OpenDelivery(p) \/ QueueAlert(p) \/ SendAlert(p) \/ LoseAnswer(p)
             \/ SendFails(p) \/ AddOutcome(p)
      PROVE RowInv'
  <2>1. UNCHANGED <<macOf, inserted, loaded>>
    BY <1>2 DEF Busy, Acquire, Release, BeginScan, FetchClients, FetchFails, UpdateDevice,
       ReadCooldown, ChooseIntent, OpenDelivery, QueueAlert, SendAlert, LoseAnswer, Accept, SendFails,
       AddOutcome
  <2>2. ASSUME NEW q \in Scanners, writer = q PROVE writer' = q
    BY <1>2, <2>2 DEF Busy, Acquire, Release, BeginScan, FetchClients, FetchFails, UpdateDevice,
       ReadCooldown, ChooseIntent, OpenDelivery, QueueAlert, SendAlert, LoseAnswer, Accept, SendFails,
       AddOutcome
  <2>3. ASSUME NEW q \in Scanners
        PROVE /\ pc'[q] \in {"upsert", "choose"} => pc[q] \in {"load", "upsert", "choose"}
              /\ pc'[q] \notin {"upsert", "choose", "deliver", "queue", "send"} =>
                   pc[q] \notin {"upsert", "choose", "deliver", "queue", "send"}
    BY <1>2 DEF Busy, Acquire, Release, BeginScan, FetchClients, FetchFails, UpdateDevice,
       ReadCooldown, ChooseIntent, OpenDelivery, QueueAlert, SendAlert, LoseAnswer, Accept, SendFails,
       AddOutcome,
       TypeOK
  <2> QED
    BY <2>1, <2>2, <2>3, RowFrame
<1>3. ASSUME NEW p \in Scanners, LoadDevices(p) PROVE RowInv'
  <2>1. OneRowPerMac'
    BY <1>3 DEF RowInv, OneRowPerMac, Live, LoadDevices
  <2>2. ASSUME NEW q \in Scanners PROVE Pending(q)'
    BY <1>3 DEF RowInv, Pending, Live, NoRow, LoadDevices, TypeOK
  <2> QED
    BY <2>1, <2>2 DEF RowInv
<1>4. ASSUME NEW p \in Scanners, InsertDevice(p) PROVE RowInv'
  <2> DEFINE m == Head(clients[p])
  <2>1. m \in Macs /\ pc[p] = "upsert" /\ UNCHANGED <<macOf, pc>> /\ writer' = p
    BY <1>4 DEF InsertDevice, TypeOK
  <2>2. NoRow(m)
    BY <1>4, <2>1, RowOfNone DEF InsertDevice, FlushWorks
  <2>3. PICK d \in Ids : IsNextId(d, Visible(p)) /\ loaded' = [loaded EXCEPT ![p][m] = d]
    BY <1>4 DEF InsertDevice
  <2>4. inserted' = [inserted EXCEPT ![p] = @ \cup {m}]
    BY <1>4 DEF InsertDevice
  <2>5. d \notin Live /\ \A k \in inserted[p] : loaded[p][k] # d
    <3>1. \A e \in Visible(p) : e < d
      BY <2>3 DEF IsNextId
    <3>2. d \notin Visible(p)
      BY <3>1 DEF Ids
    <3> QED
      BY <3>2 DEF Visible
  <2>6. Pending(p)'
    <3>1. inserted'[p] = inserted[p] \cup {m}
      BY <2>4 DEF TypeOK
    <3>2. \A k \in Macs : loaded'[p][k] = IF k = m THEN d ELSE loaded[p][k]
      BY <2>1, <2>3 DEF TypeOK
    <3>3. inserted[p] \subseteq Macs
      BY DEF TypeOK
    <3>4. /\ \A k \in inserted[p] : loaded[p][k] \in Ids \ Live /\ NoRow(k)
          /\ \A k, l \in inserted[p] : loaded[p][k] = loaded[p][l] => k = l
      BY <2>1 DEF RowInv, Pending
    <3>5. \A k \in inserted'[p] : loaded'[p][k] \in Ids \ Live /\ NoRow(k)
      BY <2>1, <2>2, <2>3, <2>5, <3>1, <3>2, <3>3, <3>4
    <3>6. \A k, l \in inserted'[p] : loaded'[p][k] = loaded'[p][l] => k = l
      BY <2>1, <2>5, <3>1, <3>2, <3>3, <3>4
    <3> QED
      BY <2>1, <3>5, <3>6 DEF Pending, Live, NoRow
  <2>7. ASSUME NEW q \in Scanners, q # p PROVE Pending(q)'
    <3>1. pc[q] = "idle" /\ inserted'[q] = inserted[q]
      BY <2>1, <2>4, <2>7 DEF LockDiscipline, TypeOK
    <3> QED
      BY <2>1, <3>1 DEF RowInv, Pending
  <2>8. OneRowPerMac'
    BY <2>1 DEF RowInv, OneRowPerMac, Live
  <2> QED
    BY <2>6, <2>7, <2>8 DEF RowInv
<1>5. ASSUME NEW p \in Scanners, CommitScan(p) PROVE RowInv'
  <2>1. pc[p] = "choose" /\ pc' = [pc EXCEPT ![p] = "deliver"] /\ UNCHANGED <<inserted, loaded>>
    BY <1>5 DEF CommitScan, CommitReady
  <2>2. ASSUME NEW q \in Scanners PROVE Pending(q)'
    <3>1. CASE q = p
      BY <2>1, <3>1 DEF Pending, TypeOK
    <3>2. CASE q # p
      <4>1. pc[q] = "idle" /\ pc'[q] = "idle"
        BY <2>1, <3>2 DEF LockDiscipline, TypeOK
      <4> QED
        BY <2>1, <4>1 DEF RowInv, Pending
    <3> QED
      BY <3>1, <3>2
  <2>3. /\ \A m \in inserted[p] : loaded[p][m] \in Ids \ Live /\ NoRow(m)
        /\ \A m, k \in inserted[p] : loaded[p][m] = loaded[p][k] => m = k
    BY <2>1 DEF RowInv, Pending
  <2>4. ASSUME NEW d \in Ids
        PROVE \/ /\ \A m \in inserted[p] : loaded[p][m] # d
                 /\ macOf'[d] = macOf[d]
              \/ macOf'[d] \in inserted[p] /\ loaded[p][macOf'[d]] = d
    BY <1>5 DEF CommitScan
  <2>5. OneRowPerMac'
    <3> SUFFICES ASSUME NEW d \in Ids, NEW e \in Ids, macOf'[d] # NoMac, macOf'[d] = macOf'[e]
                 PROVE d = e
      BY DEF OneRowPerMac, Live
    <3>1. CASE macOf'[d] \in inserted[p]
      <4>1. loaded[p][macOf'[d]] = d
        BY <2>3, <2>4, <3>1 DEF NoRow
      <4>2. loaded[p][macOf'[e]] = e
        BY <2>3, <2>4, <3>1 DEF NoRow
      <4> QED
        BY <4>1, <4>2
    <3>2. CASE macOf'[d] \notin inserted[p]
      <4>1. macOf'[d] = macOf[d] /\ macOf'[e] = macOf[e]
        BY <2>4, <3>2
      <4> QED
        BY <4>1 DEF RowInv, OneRowPerMac, Live
    <3> QED
      BY <3>1, <3>2
  <2> QED
    BY <2>2, <2>5 DEF RowInv
<1>6. ASSUME NEW p \in Scanners,
             \/ RecordFailure(p) \/ InsertFails(p) \/ CommitFails(p) \/ NothingToDeliver(p)
             \/ QueueFails(p) \/ RecordDelivery(p) \/ RecordFails(p) \/ WriteFails(p)
      PROVE RowInv'
  <2>1. UNCHANGED macOf /\ \E how : Leave(p, how)
    BY <1>6 DEF RecordFailure, InsertFails, CommitFails, NothingToDeliver, QueueFails,
       RecordDelivery, RecordFails, WriteFails
  <2> QED
    BY <1>1, <2>1
\* A request commits only while no scan holds the write lock, hence while no
\* scan has anything inserted.
<1>7. ASSUME writer = NoOne, UNCHANGED <<writer, pc, inserted, loaded>>, OneRowPerMac' PROVE RowInv'
  <2> SUFFICES ASSUME NEW q \in Scanners PROVE Pending(q)'
    BY <1>7 DEF RowInv
  <2>1. pc[q] \in {"upsert", "choose"} => inserted[q] = {}
    BY <1>7 DEF RowInv, Pending
  <2> QED
    BY <1>7, <2>1 DEF RowInv, Pending
<1>8. ASSUME NEW d \in Ids, DeleteDevice(d) PROVE RowInv'
  <2>1. OneRowPerMac'
    BY <1>8 DEF DeleteDevice, RowInv, OneRowPerMac, Live, TypeOK
  <2> QED
    BY <1>7, <1>8, <2>1 DEF DeleteDevice
<1>9. ASSUME NEW ms \in SUBSET Macs, ImportTrusted(ms) PROVE RowInv'
  <2> DEFINE new == {m \in ms : RowOf(m) = NoId}
  <2>1. PICK row \in [new -> Ids] :
          /\ \A m \in new : IsNextId(row[m], Live \cup {row[k] : k \in {k \in new : row[k] < row[m]}})
          /\ \A m, k \in new : row[m] = row[k] => m = k
          /\ macOf' = [d \in Ids |-> IF \E m \in new : row[m] = d
                                     THEN CHOOSE m \in new : row[m] = d ELSE macOf[d]]
    BY <1>9 DEF ImportTrusted
  <2>2. \A m \in new : NoRow(m)
    BY RowOfNone
  <2>3. ASSUME NEW d \in Ids
        PROVE \/ /\ \A m \in new : row[m] # d
                 /\ macOf'[d] = macOf[d]
              \/ macOf'[d] \in new /\ row[macOf'[d]] = d
    BY <2>1
  <2>4. OneRowPerMac'
    <3> HIDE DEF new
    <3> SUFFICES ASSUME NEW d \in Ids, NEW e \in Ids, macOf'[d] # NoMac, macOf'[d] = macOf'[e]
                 PROVE d = e
      BY DEF OneRowPerMac, Live
    <3>1. CASE macOf'[d] \in new
      BY <2>2, <2>3, <3>1 DEF NoRow
    <3>2. CASE macOf'[d] \notin new
      <4>1. macOf'[d] = macOf[d] /\ macOf'[e] = macOf[e]
        BY <2>3, <3>2
      <4> QED
        BY <4>1 DEF RowInv, OneRowPerMac, Live
    <3> QED
      BY <3>1, <3>2
  <2> QED
    BY <1>7, <1>9, <2>4 DEF ImportTrusted
<1>10. ASSUME \/ \E ds, s : SetStatus(ds, s)
              \/ CreateChannel \/ \E c : DeleteChannel(c) \/ Retain
       PROVE RowInv'
  <2>1. writer = NoOne /\ UNCHANGED <<writer, pc, inserted, loaded, macOf>>
    BY <1>10 DEF SetStatus, CreateChannel, DeleteChannel, Retain
  <2>2. OneRowPerMac'
    BY <2>1 DEF RowInv, OneRowPerMac, Live
  <2> QED
    BY <1>7, <2>1, <2>2
<1>11. CASE OuiBegin \/ OuiEnd \/ Tick \/ UNCHANGED vars
  <2>1. UNCHANGED <<macOf, inserted, loaded, pc>> /\ (writer \in Scanners => writer' = writer)
    BY <1>11 DEF OuiBegin, OuiEnd, Tick, vars
  <2> QED
    BY <2>1, RowFrame
<1>12. CASE Crash
  BY <1>12 DEF Crash, RowInv, Pending, OneRowPerMac, Live
<1> QED
  BY <1>2, <1>3, <1>4, <1>5, <1>6, <1>8, <1>9, <1>10, <1>11, <1>12 DEF Next, ScanStep

\* Scans, imports, deletions and restarts, in any order and with ids reused,
\* never leave two rows of the same MAC.
THEOREM RowsAreUnique == Spec => []OneRowPerMac
<1>1. Init => RowInv
  BY DEF Init, RowInv, Pending, OneRowPerMac, Live
<1>2. TypeInv /\ LockDiscipline /\ RowInv /\ [Next]_vars
        => (TypeInv /\ LockDiscipline /\ RowInv)'
  BY TypeNext, SendNext, LockNext, RowNext DEF TypeInv
<1>3. TypeInv /\ LockDiscipline /\ RowInv => OneRowPerMac
  BY DEF RowInv
<1> QED
  BY TypeInit, LockInit, <1>1, <1>2, <1>3, PTL DEF Spec

\* NoLostDecision is a fact about one step: the rows that a scan's commit fills in
\* were nobody's, and a scan never writes a status.
LEMMA DecisionsKept ==
  ASSUME RowInv, NEW p \in Scanners, ScanStep(p), NEW d \in Live
  PROVE  macOf'[d] = macOf[d] /\ status'[d] = status[d]
<1>1. CASE CommitScan(p)
  <2>1. \A m \in inserted[p] : loaded[p][m] # d
    BY <1>1 DEF CommitScan, CommitReady, At, RowInv, Pending
  <2> QED
    BY <1>1, <2>1 DEF CommitScan, Live
<1>2. CASE ~CommitScan(p)
  BY <1>2 DEF ScanStep, BeginScan, FetchClients, FetchFails, RecordFailure, LoadDevices,
     UpdateDevice, InsertDevice, InsertFails, ReadCooldown, ChooseIntent, CommitFails,
     NothingToDeliver, OpenDelivery, QueueAlert, QueueFails, SendAlert, LoseAnswer, Accept, SendFails,
       AddOutcome,
     RecordDelivery, RecordFails, WriteFails, Release, tables
<1> QED
  BY <1>1, <1>2

\* scanner.py loads rows, works for long and commits: no decision an administrator
\* has committed meanwhile is written over.
THEOREM DecisionsStand == Spec => NoLostDecision
<1>1. Init => RowInv
  BY DEF Init, RowInv, Pending, OneRowPerMac, Live
<1>2. TypeInv /\ LockDiscipline /\ RowInv /\ [Next]_vars
        => (TypeInv /\ LockDiscipline /\ RowInv)'
  BY TypeNext, SendNext, LockNext, RowNext DEF TypeInv
<1>3. RowInv => ((\E p \in Scanners : ScanStep(p)) =>
                   \A d \in Live : macOf'[d] = macOf[d] /\ status'[d] = status[d])
  BY DecisionsKept
<1> QED
  BY TypeInit, LockInit, <1>1, <1>2, <1>3, PTL DEF Spec, NoLostDecision

-----------------------------------------------------------------------------
(* Settled devices *)

\* What a scan carries from one step to the next names no settled device.
Unsettled(p) ==
  /\ pc[p] \in {"idle", "release"} => unknown[p] = {} /\ candidates[p] = <<>> /\ intents[p] = <<>>
  /\ pc[p] = "idle" => reached[p] = {}
  /\ \A m \in unknown[p] : loaded[p][m] \notin settled
  /\ \A i \in 1..Len(candidates[p]) : candidates[p][i] \notin settled
  /\ \A i \in 1..Len(intents[p]) : intents[p][i] \notin settled
  /\ reached[p] \cap settled = {}

SettledInv == /\ \A d \in settled : d \in Live /\ status[d] # "unknown"
              /\ \A p \in Scanners : Unsettled(p)

\* A step that leaves the locals of the scans alone and settles nothing.
LEMMA SettledFrame ==
  ASSUME SettledInv, settled' \subseteq settled,
         \A d \in settled' : d \in Live' /\ status'[d] # "unknown",
         UNCHANGED <<pc, unknown, loaded, candidates, intents>>,
         \A p \in Scanners : reached'[p] \subseteq reached[p]
  PROVE  SettledInv'
BY DEF SettledInv, Unsettled

\* The other ways of a scan thread's step: it changes its own locals only.
LEMMA SettledLocal ==
  ASSUME TypeOK, SettledInv, NEW p \in Scanners, Unsettled(p)', UNCHANGED <<macOf, status, settled>>,
         \A q \in Scanners : q # p =>
           /\ pc'[q] = pc[q] /\ unknown'[q] = unknown[q] /\ loaded'[q] = loaded[q]
           /\ candidates'[q] = candidates[q] /\ intents'[q] = intents[q] /\ reached'[q] = reached[q]
  PROVE  SettledInv'
<1>1. ASSUME NEW q \in Scanners PROVE Unsettled(q)'
  <2>1. CASE q = p
    BY <2>1
  <2>2. CASE q # p
    BY <2>2 DEF SettledInv, Unsettled
  <2> QED
    BY <2>1, <2>2
<1> QED
  BY <1>1 DEF SettledInv, Live

LEMMA SettledNext ==
  ASSUME TypeInv, LockDiscipline, RowInv, SettledInv, [Next]_vars
  PROVE  SettledInv'
<1> USE DEF tables, batch, mail, past, others, At, Goto
<1>t. TypeOK
  BY DEF TypeInv
<1>1. ASSUME NEW p \in Scanners, NEW how, UNCHANGED <<macOf, status, settled, reached>>, Leave(p, how)
      PROVE  SettledInv'
  <2>1. Unsettled(p)'
    BY <1>1, <1>t DEF Leave, Unsettled, SettledInv, TypeOK
  <2>2. \A q \in Scanners : q # p =>
           /\ pc'[q] = pc[q] /\ unknown'[q] = unknown[q] /\ loaded'[q] = loaded[q]
           /\ candidates'[q] = candidates[q] /\ intents'[q] = intents[q] /\ reached'[q] = reached[q]
    BY <1>1, <1>t DEF Leave, TypeOK
  <2> QED
    BY <1>1, <1>t, <2>1, <2>2, SettledLocal
<1>2. ASSUME NEW p \in Scanners,
             \/ RecordFailure(p) \/ InsertFails(p) \/ CommitFails(p) \/ NothingToDeliver(p)
             \/ QueueFails(p) \/ RecordDelivery(p) \/ RecordFails(p) \/ WriteFails(p)
      PROVE SettledInv'
  <2>1. UNCHANGED <<macOf, status, settled, reached>> /\ \E how : Leave(p, how)
    BY <1>2 DEF RecordFailure, InsertFails, CommitFails, NothingToDeliver, QueueFails,
       RecordDelivery, RecordFails, WriteFails
  <2> QED
    BY <1>1, <2>1
<1>3. ASSUME NEW p \in Scanners, Acquire(p) PROVE SettledInv'
  <2>1. \A q \in Scanners : pc[q] = "idle"
    BY <1>3, OwnersAssumption DEF Acquire, LockDiscipline
  <2>2. \A q \in Scanners : unknown[q] = {} /\ reached[q] = {} /\ candidates[q] = <<>> /\ intents[q] = <<>>
    BY <2>1 DEF SettledInv, Unsettled
  <2>3. UNCHANGED <<macOf, status, unknown, reached, candidates, intents>>
        /\ settled' = {d \in Live : status[d] # "unknown"}
    BY <1>3 DEF Acquire
  <2> QED
    BY <2>2, <2>3 DEF SettledInv, Unsettled, Live
<1>4. ASSUME NEW p \in Scanners, Release(p) PROVE SettledInv'
  <2>1. settled' = {}
    BY <1>4 DEF Release
  <2>2. UNCHANGED <<unknown, candidates, intents>> /\ reached' = [reached EXCEPT ![p] = {}]
        /\ pc' = [pc EXCEPT ![p] = "idle"] /\ pc[p] = "release"
    BY <1>4 DEF Release
  <2> QED
    BY <2>1, <2>2, <1>t DEF SettledInv, Unsettled, TypeOK
<1>5. ASSUME NEW p \in Scanners,
             \/ Busy(p) \/ BeginScan(p) \/ FetchClients(p) \/ FetchFails(p) \/ ReadCooldown(p)
             \/ CommitScan(p) \/ OpenDelivery(p) \/ QueueAlert(p) \/ SendFails(p)
      PROVE  SettledInv'
  <2>1. UNCHANGED <<status, settled, unknown, loaded, candidates, intents, reached>>
    BY <1>5 DEF Busy, BeginScan, FetchClients, FetchFails, ReadCooldown, CommitScan, OpenDelivery,
       QueueAlert, SendFails
  <2>2. \A q \in Scanners : pc'[q] \in {"idle", "release"} => pc[q] = pc'[q]
    BY <1>5, <1>t DEF Busy, BeginScan, FetchClients, FetchFails, ReadCooldown, CommitScan,
       OpenDelivery, QueueAlert, SendFails, TypeOK
  <2>3. ASSUME NEW d \in settled PROVE d \in Live'
    <3>1. d \in Live
      BY <2>3 DEF SettledInv
    <3>2. CASE CommitScan(p)
      BY <3>1, <3>2, DecisionsKept DEF ScanStep, Live
    <3>3. CASE ~CommitScan(p)
      BY <1>5, <3>1, <3>3 DEF Busy, BeginScan, FetchClients, FetchFails, ReadCooldown, OpenDelivery,
         QueueAlert, SendFails, Live
    <3> QED
      BY <3>2, <3>3
  <2> QED
    BY <2>1, <2>2, <2>3 DEF SettledInv, Unsettled
<1>6. ASSUME NEW p \in Scanners, LoadDevices(p) PROVE SettledInv'
  <2>1. \A m \in unknown'[p] : m \in Macs /\ \E d \in Ids : macOf[d] = m /\ status[d] = "unknown"
    BY <1>6, <1>t DEF LoadDevices, TypeOK
  <2>2. ASSUME NEW m \in unknown'[p] PROVE loaded'[p][m] \notin settled
    <3>1. PICK d \in Ids : macOf[d] = m /\ status[d] = "unknown"
      BY <2>1, <2>2
    <3>2. RowOf(m) \in Ids /\ macOf[RowOf(m)] = m
      BY <3>1 DEF RowOf
    <3>3. RowOf(m) = d
      BY <2>1, <2>2, <3>1, <3>2, MacsAssumption DEF RowInv, OneRowPerMac, Live
    <3>4. loaded'[p][m] = RowOf(m)
      BY <1>6, <1>t, <2>1, <2>2 DEF LoadDevices, TypeOK
    <3> QED
      BY <3>1, <3>3, <3>4 DEF SettledInv
  <2>3. UNCHANGED <<macOf, status, settled, candidates, intents, reached>> /\ pc'[p] = "upsert"
        /\ \A q \in Scanners : q # p =>
             pc'[q] = pc[q] /\ unknown'[q] = unknown[q] /\ loaded'[q] = loaded[q]
    BY <1>6, <1>t DEF LoadDevices, TypeOK
  <2>4. Unsettled(p)'
    BY <2>2, <2>3 DEF SettledInv, Unsettled
  <2> QED
    BY <1>t, <2>3, <2>4, SettledLocal
<1>7. ASSUME NEW p \in Scanners, UpdateDevice(p) PROVE SettledInv'
  <2> DEFINE m == Head(clients[p])
  <2>1. candidates'[p] = IF m \in unknown[p] THEN Append(candidates[p], loaded[p][m]) ELSE candidates[p]
    BY <1>7, <1>t DEF UpdateDevice, TypeOK
  <2>2. UNCHANGED <<macOf, status, settled, pc, unknown, loaded, intents, reached>>
        /\ (\A q \in Scanners : q # p => candidates'[q] = candidates[q]) /\ pc[p] = "upsert"
    BY <1>7, <1>t DEF UpdateDevice, TypeOK
  <2>3. candidates[p] \in Seq(Ids) /\ Unsettled(p)
    BY <1>t DEF TypeOK, SettledInv
  <2>4. m \in unknown[p] => loaded[p][m] \notin settled
    BY <2>3 DEF Unsettled
  <2> HIDE DEF m
  <2>5. \A i \in 1..Len(candidates'[p]) : candidates'[p][i] \notin settled
    BY <2>1, <2>3, <2>4 DEF Unsettled
  <2>6. Unsettled(p)'
    BY <2>2, <2>3, <2>5 DEF Unsettled
  <2> QED
    BY <1>t, <2>2, <2>6, SettledLocal
<1>8. ASSUME NEW p \in Scanners, InsertDevice(p) PROVE SettledInv'
  <2> DEFINE m == Head(clients[p])
  <2>1. PICK d \in Ids : /\ IsNextId(d, Visible(p))
                         /\ loaded' = [loaded EXCEPT ![p][m] = d]
                         /\ candidates' = [candidates EXCEPT ![p] = Append(@, d)]
    BY <1>8 DEF InsertDevice
  <2>2. UNCHANGED <<macOf, status, settled, pc, intents, reached>> /\ pc[p] = "upsert"
        /\ m \in Macs /\ unknown' = [unknown EXCEPT ![p] = @ \cup {m}]
    BY <1>8, <1>t DEF InsertDevice, TypeOK
  <2>3. d \notin Live
    <3>1. \A e \in Live : e < d
      BY <2>1 DEF IsNextId, Visible
    <3> QED
      BY <3>1 DEF Ids
  <2>4. d \notin settled /\ candidates[p] \in Seq(Ids) /\ Unsettled(p)
    BY <2>3, <1>t DEF SettledInv, TypeOK
  <2> HIDE DEF m
  <2>5. \A k \in unknown'[p] : loaded'[p][k] \notin settled
    <3>1. \A k \in Macs : loaded'[p][k] = IF k = m THEN d ELSE loaded[p][k]
      BY <2>1, <2>2, <1>t DEF TypeOK
    <3>2. unknown'[p] = unknown[p] \cup {m} /\ unknown[p] \subseteq Macs
      BY <2>2, <1>t DEF TypeOK
    <3> QED
      BY <2>2, <2>4, <3>1, <3>2 DEF Unsettled
  <2>6. candidates'[p] = Append(candidates[p], d)
    BY <2>1, <1>t DEF TypeOK
  <2>7. \A i \in 1..Len(candidates'[p]) : candidates'[p][i] \notin settled
    BY <2>4, <2>6 DEF Unsettled
  <2>8. Unsettled(p)'
    BY <2>2, <2>4, <2>5, <2>7 DEF Unsettled
  <2>9. \A q \in Scanners : q # p =>
          unknown'[q] = unknown[q] /\ loaded'[q] = loaded[q] /\ candidates'[q] = candidates[q]
    BY <2>1, <2>2, <1>t DEF TypeOK
  <2> QED
    BY <1>t, <2>2, <2>8, <2>9, SettledLocal
<1>9. ASSUME NEW p \in Scanners, ChooseIntent(p) PROVE SettledInv'
  <2>1. UNCHANGED <<macOf, status, settled, pc, unknown, loaded, reached>> /\ pc[p] = "choose"
        /\ candidates[p] # <<>> /\ candidates[p] \in Seq(Ids) /\ intents[p] \in Seq(Ids)
        /\ candidates'[p] = Tail(candidates[p])
    BY <1>9, <1>t DEF ChooseIntent, TypeOK
  <2>2. intents'[p] = intents[p] \/ intents'[p] = Append(intents[p], candidates[p][1])
    BY <1>9, <1>t DEF ChooseIntent, TypeOK
  <2>3. Unsettled(p)
    BY DEF SettledInv
  <2>4. \A i \in 1..Len(candidates'[p]) : candidates'[p][i] \notin settled
    BY <2>1, <2>3 DEF Unsettled
  <2>5. \A i \in 1..Len(intents'[p]) : intents'[p][i] \notin settled
    <3>1. candidates[p][1] \in Ids /\ candidates[p][1] \notin settled
      BY <2>1, <2>3 DEF Unsettled
    <3>2. CASE intents'[p] = intents[p]
      BY <2>1, <2>3, <3>2 DEF Unsettled
    <3>3. CASE intents'[p] = Append(intents[p], candidates[p][1])
      <4> DEFINE c == candidates[p][1]
      <4>1. ASSUME NEW i \in 1..Len(Append(intents[p], c)) PROVE Append(intents[p], c)[i] \notin settled
        <5> HIDE DEF c
        <5>1. CASE i \in 1..Len(intents[p])
          BY <2>1, <2>3, <3>1, <5>1 DEF Unsettled
        <5>2. CASE i = Len(intents[p]) + 1
          <6>1. c \in Ids /\ c \notin settled
            BY <3>1 DEF c
          <6> QED
            BY <2>1, <5>2, <6>1
        <5>3. c \in Ids
          BY <3>1 DEF c
        <5> QED
          BY <2>1, <4>1, <5>1, <5>2, <5>3
      <4> QED
        BY <2>1, <3>3, <4>1
    <3> QED
      BY <2>2, <3>2, <3>3
  <2>6. Unsettled(p)'
    BY <2>1, <2>3, <2>4, <2>5 DEF Unsettled
  <2>7. \A q \in Scanners : q # p => candidates'[q] = candidates[q] /\ intents'[q] = intents[q]
    BY <1>9, <1>t DEF ChooseIntent, TypeOK
  <2> QED
    BY <1>t, <2>1, <2>6, <2>7, SettledLocal
<1>10. ASSUME NEW p \in Scanners, SendAlert(p) \/ LoseAnswer(p) PROVE SettledInv'
  <2>1. UNCHANGED <<macOf, status, settled, pc, unknown, loaded, candidates, intents>>
        /\ reached'[p] = reached[p] \cup {Head(intents[p])} /\ pc[p] = "send"
        /\ \A q \in Scanners : q # p => reached'[q] = reached[q]
    BY <1>10, <1>t DEF SendAlert, LoseAnswer, Accept, TypeOK
  <2>2. Unsettled(p) /\ intents[p] # <<>> /\ intents[p] \in Seq(Ids)
    BY <2>1 DEF SettledInv, TypeInv, SendHasIntent, TypeOK
  <2>3. Head(intents[p]) \notin settled
    BY <2>2 DEF Unsettled
  <2>4. Unsettled(p)'
    BY <2>1, <2>2, <2>3 DEF Unsettled
  <2> QED
    BY <1>t, <2>1, <2>4, SettledLocal
<1>11. ASSUME NEW p \in Scanners, AddOutcome(p) PROVE SettledInv'
  <2>1. UNCHANGED <<macOf, status, settled, unknown, loaded, candidates, reached>>
        /\ pc[p] = "send" /\ pc'[p] = "queue" /\ intents'[p] = Tail(intents[p])
        /\ \A q \in Scanners : q # p => pc'[q] = pc[q] /\ intents'[q] = intents[q]
    BY <1>11, <1>t DEF AddOutcome, TypeOK
  <2>2. Unsettled(p) /\ intents[p] # <<>> /\ intents[p] \in Seq(Ids)
    BY <2>1 DEF SettledInv, TypeInv, SendHasIntent, TypeOK
  <2>3. \A i \in 1..Len(intents'[p]) : intents'[p][i] \notin settled
    BY <2>1, <2>2 DEF Unsettled
  <2>4. Unsettled(p)'
    BY <2>1, <2>2, <2>3 DEF Unsettled
  <2> QED
    BY <1>t, <2>1, <2>4, SettledLocal
<1>12. ASSUME NEW ds, NEW s, SetStatus(ds, s) PROVE SettledInv'
  <2>1. UNCHANGED <<macOf, pc, unknown, loaded, candidates, intents, reached>>
        /\ settled' = (IF s = "unknown" THEN settled \ ds ELSE settled)
        /\ status' = [d \in Ids |-> IF d \in ds THEN s ELSE status[d]]
    BY <1>12 DEF SetStatus
  <2>2. \A d \in settled' : d \in Live' /\ status'[d] # "unknown"
    BY <2>1 DEF SettledInv, Live
  <2> QED
    BY <2>1, <2>2, SettledFrame
<1>13. ASSUME NEW d \in Ids, DeleteDevice(d) PROVE SettledInv'
  <2>1. UNCHANGED <<pc, unknown, loaded, candidates, intents>> /\ settled' = settled \ {d}
        /\ macOf' = [macOf EXCEPT ![d] = NoMac] /\ status' = [status EXCEPT ![d] = "unknown"]
        /\ \A p \in Scanners : reached'[p] \subseteq reached[p]
    BY <1>13 DEF DeleteDevice
  <2>2. \A e \in settled' : e \in Live' /\ status'[e] # "unknown"
    BY <2>1, <1>t DEF SettledInv, Live, TypeOK
  <2> QED
    BY <2>1, <2>2, SettledFrame
<1>14. ASSUME NEW ms \in SUBSET Macs, ImportTrusted(ms) PROVE SettledInv'
  <2>1. UNCHANGED <<pc, unknown, loaded, candidates, intents, settled, reached>>
    BY <1>14 DEF ImportTrusted
  <2>2. ASSUME NEW d \in settled PROVE d \in Live' /\ status'[d] # "unknown"
    <3>1. d \in Live /\ d \in Ids /\ status[d] # "unknown"
      BY <2>2 DEF SettledInv, Live
    <3> DEFINE new == {m \in ms : RowOf(m) = NoId}
    <3>2. PICK row : /\ macOf' = [e \in Ids |-> IF \E m \in new : row[m] = e
                                                THEN CHOOSE m \in new : row[m] = e ELSE macOf[e]]
                     /\ status' = [e \in Ids |-> IF (\E m \in new : row[m] = e) \/ macOf[e] \in ms
                                                 THEN "trusted" ELSE status[e]]
      BY <1>14 DEF ImportTrusted
    <3>3. macOf'[d] = macOf[d] \/ macOf'[d] \in new
      BY <3>1, <3>2
    <3>4. macOf'[d] # NoMac
      BY <3>1, <3>3, MacsAssumption DEF Live
    <3>5. status'[d] # "unknown"
      BY <3>1, <3>2
    <3> QED
      BY <3>1, <3>4, <3>5 DEF Live
  <2> QED
    BY <2>1, <2>2, SettledFrame
<1>15. CASE CreateChannel \/ (\E c : DeleteChannel(c)) \/ Retain \/ OuiBegin \/ OuiEnd \/ Tick
            \/ UNCHANGED vars
  <2>1. UNCHANGED <<macOf, status, pc, unknown, loaded, candidates, intents, settled, reached>>
    BY <1>15 DEF CreateChannel, DeleteChannel, Retain, OuiBegin, OuiEnd, Tick, vars
  <2> QED
    BY <2>1 DEF SettledInv, Unsettled, Live
<1>16. CASE Crash
  BY <1>16 DEF Crash, SettledInv, Unsettled
<1> QED
  BY <1>2, <1>3, <1>4, <1>5, <1>6, <1>7, <1>8, <1>9, <1>10, <1>11, <1>12, <1>13, <1>14, <1>15, <1>16
     DEF Next, ScanStep

\* scanner.py:361 tests the status it loaded: no device that was decided before the
\* scan began, and stays so, is alerted on by it.
THEOREM SettledStaySilent == Spec => []SettledDevicesStaySilent
<1> DEFINE Inv == TypeInv /\ LockDiscipline /\ RowInv /\ SettledInv
<1>1. Init => Inv
  BY TypeInit, LockInit DEF Init, RowInv, Pending, OneRowPerMac, Live, SettledInv, Unsettled
<1>2. Inv /\ [Next]_vars => Inv'
  BY TypeNext, SendNext, LockNext, RowNext, SettledNext DEF TypeInv
<1>3. Inv => SettledDevicesStaySilent
  BY DEF SettledInv, Unsettled, SettledDevicesStaySilent
<1> HIDE DEF Inv
<1> QED
  BY <1>1, <1>2, <1>3, PTL DEF Spec

-----------------------------------------------------------------------------
(* The refinement *)

\* An id without a row has the status of a row to come.
Blank == \A d \in Ids \ Live : status[d] = "unknown"

\* The rows of an import: new gets row, and all of ms become trusted.
Imported(ms, new, row) ==
  /\ row \in [new -> Ids]
  /\ \A m \in new : NoRow(m) /\ macOf[row[m]] = NoMac
  /\ \A m, k \in new : row[m] = row[k] => m = k
  /\ macOf' = [d \in Ids |-> IF \E m \in new : row[m] = d
                             THEN CHOOSE m \in new : row[m] = d ELSE macOf[d]]
  /\ status' = [d \in Ids |-> IF (\E m \in new : row[m] = d) \/ macOf[d] \in ms
                              THEN "trusted" ELSE status[d]]

LEMMA ImportStores ==
  ASSUME TypeOK, NEW ms \in SUBSET Macs, ImportTrusted(ms)
  PROVE  \E new \in SUBSET ms : \E row : Imported(ms, new, row)
<1> DEFINE new == {m \in ms : RowOf(m) = NoId}
<1>1. PICK row \in [new -> Ids] :
        /\ \A m \in new : IsNextId(row[m], Live \cup {row[k] : k \in {k \in new : row[k] < row[m]}})
        /\ \A m, k \in new : row[m] = row[k] => m = k
        /\ macOf' = [d \in Ids |-> IF \E m \in new : row[m] = d
                                   THEN CHOOSE m \in new : row[m] = d ELSE macOf[d]]
        /\ status' = [d \in Ids |-> IF (\E m \in new : row[m] = d) \/ macOf[d] \in ms
                                    THEN "trusted" ELSE status[d]]
  BY DEF ImportTrusted
<1>2. \A m \in new : NoRow(m)
  BY RowOfNone
<1>3. ASSUME NEW m \in new PROVE macOf[row[m]] = NoMac
  <2>1. row[m] \in Ids /\ \A e \in Live : e < row[m]
    BY <1>1 DEF IsNextId
  <2> QED
    BY <2>1 DEF Live, Ids
<1> QED
  <2>1. new \in SUBSET ms
    OBVIOUS
  <2> HIDE DEF new
  <2> QED
    BY <1>1, <1>2, <1>3, <2>1 DEF Imported

\* A scan, whatever it does, adds rows of unknown devices, or leaves the table alone.
LEMMA ScanOnlyAdds ==
  ASSUME TypeOK, RowInv, Blank, NEW p \in Scanners, ScanStep(p)
  PROVE  \/ UNCHANGED <<macOf, status>>
         \/ /\ inserted[p] \in SUBSET Macs
            /\ \E row \in [inserted[p] -> Ids] : Table!Add(row, {}, "unknown")
<1>1. CASE CommitScan(p)
  <2> DEFINE row == [m \in inserted[p] |-> loaded[p][m]]
  <2>1. /\ \A m \in inserted[p] : loaded[p][m] \in Ids \ Live /\ NoRow(m)
        /\ \A m, k \in inserted[p] : loaded[p][m] = loaded[p][k] => m = k
    BY <1>1 DEF CommitScan, CommitReady, At, RowInv, Pending
  <2>2. row \in [inserted[p] -> Ids] /\ DOMAIN row = inserted[p]
        /\ \A m \in inserted[p] : row[m] = loaded[p][m]
    BY <2>1
  <2>3. macOf' = [d \in Ids |-> IF \E m \in inserted[p] : row[m] = d
                               THEN CHOOSE m \in inserted[p] : row[m] = d ELSE macOf[d]]
    <3>1. \A d \in Ids : (CHOOSE m \in inserted[p] : row[m] = d)
                          = (CHOOSE m \in inserted[p] : loaded[p][m] = d)
      BY <2>2
    <3> QED
      BY <1>1, <2>2, <3>1 DEF CommitScan
  <2> HIDE DEF row
  <2>4. status' = [d \in Ids |-> IF d \in {} \/ \E m \in inserted[p] : row[m] = d
                                THEN "unknown" ELSE status[d]]
    <3>1. status' = status /\ status \in [Ids -> Statuses]
      BY <1>1 DEF CommitScan, TypeOK
    <3>2. \A d \in Ids : (\E m \in inserted[p] : row[m] = d) => status[d] = "unknown"
      BY <2>1, <2>2 DEF Blank
    <3> QED
      BY <3>1, <3>2
  <2>5. \A m \in DOMAIN row : ~Table!HasRow(macOf, m) /\ macOf[row[m]] = NoMac
    BY <2>1, <2>2 DEF Table!HasRow, NoRow, Live, Ids, Table!Ids
  <2>6. Table!Add(row, {}, "unknown")
    BY <2>1, <2>2, <2>3, <2>4, <2>5 DEF Table!Add, Ids, Table!Ids
  <2> QED
    BY <2>2, <2>6 DEF TypeOK
<1>2. CASE ~CommitScan(p)
  BY <1>2 DEF ScanStep, BeginScan, FetchClients, FetchFails, RecordFailure, LoadDevices,
     UpdateDevice, InsertDevice, InsertFails, ReadCooldown, ChooseIntent, CommitFails,
     NothingToDeliver, OpenDelivery, QueueAlert, QueueFails, SendAlert, LoseAnswer, Accept, SendFails,
       AddOutcome,
     RecordDelivery, RecordFails, WriteFails, Release, tables
<1> QED
  BY <1>1, <1>2

\* The steps that are none of a scan's and none of a request on devices.
LEMMA OthersLeaveRows ==
  ASSUME \/ \E p \in Scanners : Busy(p) \/ Acquire(p)
         \/ CreateChannel \/ (\E c : DeleteChannel(c)) \/ Retain
         \/ OuiBegin \/ OuiEnd \/ Tick \/ Crash \/ UNCHANGED vars
  PROVE  UNCHANGED <<macOf, status>>
BY DEF Busy, Acquire, CreateChannel, DeleteChannel, Retain, OuiBegin, OuiEnd, Tick, Crash,
       tables, vars

LEMMA BlankNext ==
  ASSUME TypeOK, RowInv, Blank, [Next]_vars
  PROVE  Blank'
<1>1. CASE UNCHANGED <<macOf, status>>
  BY <1>1 DEF Blank, Live
<1>2. ASSUME NEW p \in Scanners, ScanStep(p) PROVE Blank'
  <2>1. CASE UNCHANGED <<macOf, status>>
    BY <1>1, <2>1
  <2>2. ASSUME inserted[p] \in SUBSET Macs, NEW row \in [inserted[p] -> Ids],
               Table!Add(row, {}, "unknown")
        PROVE  Blank'
    <3>1. ASSUME NEW d \in Ids, d \notin Live' PROVE d \notin Live
      BY <2>2, <3>1, DecisionsKept, <1>2 DEF Live
    <3> QED
      BY <2>2, <3>1 DEF Table!Add, Blank, Live, Ids, Table!Ids
  <2> QED
    BY <1>2, <2>1, <2>2, ScanOnlyAdds
<1>3. ASSUME NEW ds \in SUBSET Live, NEW s, SetStatus(ds, s) PROVE Blank'
  BY <1>3 DEF SetStatus, Blank, Live
<1>4. ASSUME NEW d \in Ids, DeleteDevice(d) PROVE Blank'
  BY <1>4 DEF DeleteDevice, Blank, Live, TypeOK
<1>5. ASSUME NEW ms \in SUBSET Macs, ImportTrusted(ms) PROVE Blank'
  <2>0. PICK new \in SUBSET ms : \E row : Imported(ms, new, row)
    BY <1>5, ImportStores
  <2>1. PICK row : Imported(ms, new, row)
    BY <2>0
  <2> SUFFICES ASSUME NEW d \in Ids, macOf'[d] = NoMac PROVE status'[d] = "unknown"
    BY DEF Blank, Live
  <2>2. ~\E m \in new : row[m] = d
    <3> SUFFICES ASSUME \E m \in new : row[m] = d PROVE FALSE
      OBVIOUS
    <3>1. macOf'[d] \in new
      BY <2>1 DEF Imported
    <3> QED
      BY <3>1, MacsAssumption
  <2>3. macOf[d] = NoMac /\ macOf[d] \notin ms
    BY <2>1, <2>2, MacsAssumption DEF Imported
  <2> QED
    BY <2>1, <2>2, <2>3 DEF Imported, Blank, Live
<1> QED
  BY <1>1, <1>2, <1>3, <1>4, <1>5, OthersLeaveRows DEF Next

\* Every step is one of the table's, or none.
LEMMA OnTheTable ==
  ASSUME TypeOK, RowInv, Blank, [Next]_vars
  PROVE  [Table!Next]_(Table!table)
<1>1. CASE UNCHANGED <<macOf, status>>
  BY <1>1 DEF Table!table
<1>2. Table!LiveIds(macOf) = Live /\ Table!Ids = Ids
  BY DEF Table!LiveIds, Table!Ids, Live, Ids
<1>3. ASSUME NEW p \in Scanners, ScanStep(p) PROVE [Table!Next]_(Table!table)
  <2>1. ASSUME inserted[p] \in SUBSET Macs, NEW row \in [inserted[p] -> Ids],
               Table!Add(row, {}, "unknown")
        PROVE  Table!Next
    BY <1>2, <2>1 DEF Table!Next
  <2> QED
    BY <1>1, <1>3, <2>1, ScanOnlyAdds
<1>4. ASSUME NEW ds \in SUBSET Live, NEW s \in Statuses, SetStatus(ds, s) PROVE Table!Next
  <2>1. Table!Decide(ds, s)
    BY <1>2, <1>4 DEF SetStatus, Table!Decide
  <2> QED
    BY <1>2, <2>1 DEF Table!Next
<1>5. ASSUME NEW d \in Ids, DeleteDevice(d) PROVE Table!Next
  <2>1. d \in Live /\ Table!Remove(d)
    BY <1>5 DEF DeleteDevice, Table!Remove
  <2> QED
    BY <1>2, <2>1 DEF Table!Next
<1>6. ASSUME NEW ms \in SUBSET Macs, ImportTrusted(ms) PROVE Table!Next
  <2>0. PICK new \in SUBSET ms : \E row : Imported(ms, new, row)
    BY <1>6, ImportStores
  <2>1. PICK row : Imported(ms, new, row)
    BY <2>0
  <2> DEFINE ds == {d \in Ids : macOf[d] \in ms}
  <2>2. ds \in SUBSET Live
    BY MacsAssumption DEF Live
  <2>3. DOMAIN row = new /\ \A m \in new : ~Table!HasRow(macOf, m)
    BY <1>2, <2>1 DEF Imported, Table!HasRow, NoRow
  <2>4. status' = [d \in Ids |-> IF d \in ds \/ \E m \in new : row[m] = d
                                THEN "trusted" ELSE status[d]]
    BY <2>1 DEF Imported
  <2> HIDE DEF ds
  <2>5. Table!Add(row, ds, "trusted")
    BY <1>2, <2>1, <2>3, <2>4 DEF Imported, Table!Add
  <2> QED
    BY <1>2, <2>1, <2>2, <2>5 DEF Imported, Table!Next
<1> QED
  BY <1>1, <1>3, <1>4, <1>5, <1>6, OthersLeaveRows DEF Next

\* scanner.py with its long transactions, the imports and the deletions that run
\* beside it: for the rest of the program it is the table DeviceActions implements.
THEOREM ScannerImplementsTable == Spec => TableKept
<1> DEFINE Inv == TypeInv /\ LockDiscipline /\ RowInv /\ Blank
<1>1. Init => Inv
  BY TypeInit, LockInit DEF Init, RowInv, Pending, OneRowPerMac, Live, Blank
<1>2. Inv /\ [Next]_vars => Inv'
  BY TypeNext, SendNext, LockNext, RowNext, BlankNext DEF TypeInv
<1>3. Inv /\ [Next]_vars => [Table!Next]_(Table!table)
  BY OnTheTable DEF TypeInv
<1>4. Init => Table!Init
  <2>1. Init => macOf = [d \in Ids |-> NoMac] /\ status = [d \in Ids |-> "unknown"]
    BY DEF Init
  <2> QED
    BY <2>1 DEF Table!Init, Table!LiveIds, Ids, Table!Ids, Statuses
<1> HIDE DEF Inv
<1> QED
  BY <1>1, <1>2, <1>3, <1>4, PTL DEF Spec, TableKept, Table!Spec
=============================================================================
