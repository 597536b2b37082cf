--------------------------- MODULE ScannerProofs ---------------------------
(***************************************************************************)
(* Theorems about Scanner.tla, for every number of threads, MACs, ids and  *)
(* channels and every cooldown.                                            *)
(***************************************************************************)
EXTENDS Scanner, TLAPS

USE DEF NoId, Never

\* An intent is being sent only while there is one: what Head needs.
SendHasIntent == \A p \in Scanners : At(p, "send") => intents[p] # <<>>
TypeInv == TypeOK /\ SendHasIntent

\* Type correctness of one step, first for the ways out of a scan.
LEMMA LeaveType ==
  ASSUME TypeOK, NEW p \in Scanners, NEW how \in Answers, Leave(p, how)
  PROVE  /\ writer' \in Scanners \cup {Oui, NoOne}
         /\ pc' \in [Scanners -> Points]
         /\ answer' \in [Scanners -> Answers]
         /\ now' \in [Scanners -> Nat]
         /\ clients' \in [Scanners -> Seq(Macs)]
         /\ loaded' \in [Scanners -> [Macs -> Ids \cup {NoId}]]
         /\ unknown' \in [Scanners -> SUBSET Macs]
         /\ inserted' \in [Scanners -> SUBSET Macs]
         /\ touched' \in [Scanners -> SUBSET Ids]
         /\ candidates' \in [Scanners -> Seq(Ids)]
         /\ cooling' \in [Scanners -> SUBSET Ids]
         /\ intents' \in [Scanners -> Seq(Ids)]
         /\ targets' \in [Scanners -> SUBSET ChannelIds]
         /\ todo' \in [Scanners -> SUBSET ChannelIds]
         /\ okay' \in [Scanners -> BOOLEAN]
         /\ added' \in [Scanners -> SUBSET PendingRows]
         /\ tx' \in [Scanners -> SUBSET EventRows]
  BY DEF TypeOK, Leave, Goto, Points

\* The tables are empty and no thread scans: the initial state has its types.
LEMMA TypeInit == Init => TypeInv
  BY NumbersAssumption DEF Init, TypeInv, TypeOK, SendHasIntent, At, Points, Answers, Statuses

\* Every action of the scans, the requests and the process keeps the types.
LEMMA TypeNext == TypeInv /\ [Next]_vars => TypeOK'
<1> SUFFICES ASSUME TypeOK, SendHasIntent, [Next]_vars PROVE TypeOK'
  BY DEF TypeInv
<1> USE DEF tables, batch, mail, past, others, At, Goto
<1>1. ASSUME NEW p \in Scanners, Busy(p) PROVE TypeOK'
  BY <1>1 DEF Busy, TypeOK, Answers
<1>2. ASSUME NEW p \in Scanners, Acquire(p) PROVE TypeOK'
  BY <1>2 DEF Acquire, TypeOK, Answers, Points, Live
<1>3. ASSUME NEW p \in Scanners, Release(p) PROVE TypeOK'
  BY <1>3 DEF Release, TypeOK, Answers, Points
<1>4. ASSUME NEW p \in Scanners, BeginScan(p) PROVE TypeOK'
  BY <1>4 DEF BeginScan, TypeOK, Points
<1>5. ASSUME NEW p \in Scanners, FetchClients(p) PROVE TypeOK'
  <2>1. PICK n \in 0..MaxClients : \E cs \in [1..n -> Macs] : clients' = [clients EXCEPT ![p] = cs]
    BY <1>5 DEF FetchClients
  <2>2. PICK cs \in [1..n -> Macs] : clients' = [clients EXCEPT ![p] = cs]
    BY <2>1
  <2>3. cs \in Seq(Macs)
    BY NumbersAssumption
  <2> QED
    BY <1>5, <2>2, <2>3 DEF FetchClients, TypeOK, Points
<1>6. ASSUME NEW p \in Scanners, FetchFails(p) PROVE TypeOK'
  BY <1>6 DEF FetchFails, TypeOK, Points
<1>7. ASSUME NEW p \in Scanners, RecordFailure(p) PROVE TypeOK'
  BY <1>7, LeaveType DEF RecordFailure, TypeOK, Answers
<1>8. ASSUME NEW p \in Scanners, LoadDevices(p) PROVE TypeOK'
  BY <1>8 DEF LoadDevices, TypeOK, Points, RowOf
<1>9. ASSUME NEW p \in Scanners, UpdateDevice(p) PROVE TypeOK'
  <2> DEFINE m == Head(clients[p])
  <2>1. m \in Macs /\ Tail(clients[p]) \in Seq(Macs)
    BY <1>9 DEF UpdateDevice, TypeOK
  <2>2. loaded[p][m] \in Ids
    BY <1>9, <2>1 DEF UpdateDevice, TypeOK
  <2>3. Append(candidates[p], loaded[p][m]) \in Seq(Ids)
    BY <2>2 DEF TypeOK
  <2>4. candidates' \in [Scanners -> Seq(Ids)]
    BY <1>9, <2>3 DEF UpdateDevice, TypeOK
  <2>5. touched' \in [Scanners -> SUBSET Ids]
    BY <1>9, <2>2 DEF UpdateDevice, TypeOK
  <2> QED
    BY <1>9, <2>1, <2>4, <2>5 DEF UpdateDevice, TypeOK
<1>10. ASSUME NEW p \in Scanners, InsertDevice(p) PROVE TypeOK'
  <2> DEFINE m == Head(clients[p])
  <2>1. m \in Macs /\ Tail(clients[p]) \in Seq(Macs)
    BY <1>10 DEF InsertDevice, TypeOK
  <2>2. PICK d \in Ids : /\ loaded' = [loaded EXCEPT ![p][m] = d]
                         /\ candidates' = [candidates EXCEPT ![p] = Append(@, d)]
    BY <1>10 DEF InsertDevice
  <2>3. loaded' \in [Scanners -> [Macs -> Ids \cup {NoId}]] /\ candidates' \in [Scanners -> Seq(Ids)]
    BY <2>1, <2>2 DEF TypeOK
  <2>4. /\ clients' = [clients EXCEPT ![p] = Tail(@)] /\ writer' = p
        /\ inserted' = [inserted EXCEPT ![p] = @ \cup {m}]
        /\ unknown' = [unknown EXCEPT ![p] = @ \cup {m}]
    BY <1>10 DEF InsertDevice
  <2>5. UNCHANGED <<tables, scanLock, clock, pc, answer, now, touched, cooling, mail, past>>
    BY <1>10 DEF InsertDevice
  <2> HIDE DEF m
  <2> QED
    BY <2>1, <2>3, <2>4, <2>5 DEF TypeOK
<1>11. ASSUME NEW p \in Scanners, InsertFails(p) PROVE TypeOK'
  BY <1>11, LeaveType DEF InsertFails, TypeOK, Answers
<1>12. ASSUME NEW p \in Scanners, ReadCooldown(p) PROVE TypeOK'
  BY <1>12 DEF ReadCooldown, TypeOK, Points, InCooldown
<1>13. ASSUME NEW p \in Scanners, ChooseIntent(p) PROVE TypeOK'
  <2> DEFINE d == Head(candidates[p])
  <2>1. d \in Ids /\ Tail(candidates[p]) \in Seq(Ids)
    BY <1>13 DEF ChooseIntent, TypeOK
  <2>2. Append(intents[p], d) \in Seq(Ids)
    BY <2>1 DEF TypeOK
  <2>3. intents' \in [Scanners -> Seq(Ids)]
    BY <1>13, <2>2 DEF ChooseIntent, TypeOK
  <2>4. cooling' \in [Scanners -> SUBSET Ids]
    BY <1>13, <2>1 DEF ChooseIntent, TypeOK
  <2> QED
    BY <1>13, <2>1, <2>3, <2>4 DEF ChooseIntent, TypeOK
<1>14. ASSUME NEW p \in Scanners, CommitScan(p) PROVE TypeOK'
  BY <1>14, OwnersAssumption DEF CommitScan, CommitReady, TypeOK, Points
<1>15. ASSUME NEW p \in Scanners, CommitFails(p) PROVE TypeOK'
  BY <1>15, LeaveType DEF CommitFails, TypeOK, Answers
<1>16. ASSUME NEW p \in Scanners, NothingToDeliver(p) PROVE TypeOK'
  BY <1>16, LeaveType DEF NothingToDeliver, TypeOK, Answers
<1>17. ASSUME NEW p \in Scanners, OpenDelivery(p) PROVE TypeOK'
  BY <1>17 DEF OpenDelivery, TypeOK, Points
<1>18. ASSUME NEW p \in Scanners, QueueAlert(p) PROVE TypeOK'
  BY <1>18 DEF QueueAlert, TypeOK, Points, Stamp, EventRows, PendingRows, AlertTypes, Live
<1>19. ASSUME NEW p \in Scanners, QueueFails(p) PROVE TypeOK'
  BY <1>19, LeaveType DEF QueueFails, TypeOK, Answers
<1>20. ASSUME NEW p \in Scanners, SendAlert(p) PROVE TypeOK'
  <2>1. Head(intents[p]) \in Ids
    BY <1>20 DEF SendAlert, Accept, TypeOK, SendHasIntent
  <2>2. todo' \in [Scanners -> SUBSET ChannelIds]
    BY <1>20 DEF SendAlert, Accept, TypeOK
  <2>3. reached' \in [Scanners -> SUBSET Ids]
    BY <1>20, <2>1 DEF SendAlert, Accept, TypeOK
  <2>4. notified' \in [Ids -> Nat \cup {Never}]
    BY <1>20, <2>1 DEF SendAlert, Accept, TypeOK
  <2>5. confirmed' \subseteq Ids
    BY <1>20, <2>1 DEF SendAlert, Accept, TypeOK
  <2> QED
    BY <1>20, <2>2, <2>3, <2>4, <2>5 DEF SendAlert, Accept, TypeOK
<1>21. ASSUME NEW p \in Scanners, SendFails(p) PROVE TypeOK'
  <2>1. todo' \in [Scanners -> SUBSET ChannelIds]
    BY <1>21 DEF SendFails, TypeOK
  <2> QED
    BY <1>21, <2>1 DEF SendFails, TypeOK
<1>36. ASSUME NEW p \in Scanners, LoseAnswer(p) PROVE TypeOK'
  <2>1. Head(intents[p]) \in Ids
    BY <1>36 DEF LoseAnswer, Accept, TypeOK, SendHasIntent
  <2>2. todo' \in [Scanners -> SUBSET ChannelIds]
    BY <1>36 DEF LoseAnswer, Accept, TypeOK
  <2>3. reached' \in [Scanners -> SUBSET Ids]
    BY <1>36, <2>1 DEF LoseAnswer, Accept, TypeOK
  <2>4. notified' \in [Ids -> Nat \cup {Never}]
    BY <1>36, <2>1 DEF LoseAnswer, Accept, TypeOK
  <2>5. confirmed' \subseteq Ids
    BY <1>36 DEF LoseAnswer, Accept, TypeOK
  <2> QED
    BY <1>36, <2>2, <2>3, <2>4, <2>5 DEF LoseAnswer, Accept, TypeOK
<1>22. ASSUME NEW p \in Scanners, AddOutcome(p) PROVE TypeOK'
  <2>1. Head(intents[p]) \in Ids /\ Tail(intents[p]) \in Seq(Ids)
    BY <1>22 DEF AddOutcome, TypeOK, SendHasIntent
  <2>2. added' \in [Scanners -> SUBSET PendingRows]
    BY <1>22, <2>1 DEF AddOutcome, TypeOK, PendingRows, AlertTypes
  <2> QED
    BY <1>22, <2>1, <2>2 DEF AddOutcome, TypeOK, Points
<1>23. ASSUME NEW p \in Scanners, RecordDelivery(p) PROVE TypeOK'
  <2>1. NewEvents(p) \subseteq EventRows
    BY DEF NewEvents, Stamp, TypeOK, EventRows, PendingRows
  <2>2. ASSUME NEW d \in Ids, NewSent(p, d) # {}
        PROVE (CHOOSE e \in NewSent(p, d) : TRUE) \in EventRows
    BY <2>1, <2>2 DEF NewSent
  <2>3. recorded' \in [Ids -> Nat \cup {Never}]
    BY <1>23, <2>2 DEF RecordDelivery, EventRows, TypeOK
  <2>4. events' \subseteq EventRows
    BY <1>23, <2>1 DEF RecordDelivery, TypeOK
  <2>5. Leave(p, "ok") /\ UNCHANGED <<macOf, status, channels, scanLock, clock, notified, reached, confirmed, settled>>
    BY <1>23 DEF RecordDelivery
  <2> QED
    BY <2>3, <2>4, <2>5, LeaveType DEF TypeOK, Answers
<1>24. ASSUME NEW p \in Scanners, RecordFails(p) PROVE TypeOK'
  BY <1>24, LeaveType DEF RecordFails, TypeOK, Answers
<1>25. ASSUME NEW p \in Scanners, WriteFails(p) PROVE TypeOK'
  BY <1>25, LeaveType DEF WriteFails, TypeOK, Answers
<1>26. ASSUME NEW ds \in SUBSET Live, NEW s \in Statuses, SetStatus(ds, s) PROVE TypeOK'
  BY <1>26 DEF SetStatus, TypeOK
<1>27. ASSUME NEW d \in Ids, DeleteDevice(d) PROVE TypeOK'
  BY <1>27 DEF DeleteDevice, TypeOK, Statuses
<1>28. ASSUME NEW ms \in SUBSET Macs, ImportTrusted(ms) PROVE TypeOK'
  BY <1>28, StatusAssumption DEF ImportTrusted, TypeOK, Statuses
<1>29. ASSUME CreateChannel PROVE TypeOK'
  BY <1>29 DEF CreateChannel, TypeOK
<1>30. ASSUME NEW c \in ChannelIds, DeleteChannel(c) PROVE TypeOK'
  BY <1>30 DEF DeleteChannel, TypeOK
<1>31. CASE Retain
  BY <1>31 DEF Retain, TypeOK
<1>32. CASE OuiBegin \/ OuiEnd
  BY <1>32 DEF OuiBegin, OuiEnd, TypeOK
<1>33. CASE Tick
  BY <1>33 DEF Tick, TypeOK
<1>34. CASE Crash
  BY <1>34 DEF Crash, TypeOK, Points, Answers
<1>35. CASE UNCHANGED vars
  BY <1>35 DEF vars, TypeOK
<1> QED
  BY <1>1, <1>2, <1>3, <1>4, <1>5, <1>6, <1>7, <1>8, <1>9, <1>10, <1>11, <1>12, <1>13, <1>14,
     <1>15, <1>16, <1>17, <1>18, <1>19, <1>20, <1>21, <1>22, <1>23, <1>24, <1>25, <1>26, <1>27,
     <1>28, <1>29, <1>30, <1>31, <1>32, <1>33, <1>34, <1>35, <1>36 DEF Next, ScanStep

\* A provider is called only on behalf of an intent: Head(intents[p]) is defined.
LEMMA SendNext == TypeInv /\ [Next]_vars => SendHasIntent'
<1> SUFFICES ASSUME TypeOK, SendHasIntent, [Next]_vars PROVE SendHasIntent'
  BY DEF TypeInv
<1> USE DEF tables, batch, mail, past, others, At, Goto, SendHasIntent
<1>1. ASSUME NEW p \in Scanners, ScanStep(p) PROVE SendHasIntent'
  <2>1. CASE BeginScan(p) \/ FetchClients(p) \/ FetchFails(p) \/ RecordFailure(p)
    <3>1. CASE BeginScan(p)
      BY <3>1 DEF TypeOK, Leave, BeginScan
    <3>2. CASE FetchClients(p)
      BY <3>2 DEF TypeOK, Leave, FetchClients
    <3>3. CASE FetchFails(p)
      BY <3>3 DEF TypeOK, Leave, FetchFails
    <3>4. CASE RecordFailure(p)
      BY <3>4 DEF TypeOK, Leave, RecordFailure
    <3> QED
      BY <2>1, <3>1, <3>2, <3>3, <3>4
  <2>2. CASE LoadDevices(p) \/ UpdateDevice(p) \/ InsertDevice(p) \/ InsertFails(p)
    <3>1. CASE LoadDevices(p)
      BY <3>1 DEF TypeOK, Leave, LoadDevices
    <3>2. CASE UpdateDevice(p)
      BY <3>2 DEF TypeOK, Leave, UpdateDevice
    <3>3. CASE InsertDevice(p)
      BY <3>3 DEF TypeOK, Leave, InsertDevice
    <3>4. CASE InsertFails(p)
      BY <3>4 DEF TypeOK, Leave, InsertFails
    <3> QED
      BY <2>2, <3>1, <3>2, <3>3, <3>4
  <2>3. CASE ReadCooldown(p) \/ ChooseIntent(p) \/ CommitScan(p) \/ CommitFails(p)
    <3>1. CASE ReadCooldown(p)
      BY <3>1 DEF TypeOK, Leave, ReadCooldown
    <3>2. CASE ChooseIntent(p)
      BY <3>2 DEF TypeOK, Leave, ChooseIntent
    <3>3. CASE CommitScan(p)
      BY <3>3 DEF TypeOK, Leave, CommitScan, CommitReady
    <3>4. CASE CommitFails(p)
      BY <3>4 DEF TypeOK, Leave, CommitFails, CommitReady
    <3> QED
      BY <2>3, <3>1, <3>2, <3>3, <3>4
  <2>4. CASE NothingToDeliver(p) \/ OpenDelivery(p) \/ QueueAlert(p) \/ QueueFails(p)
    <3>1. CASE NothingToDeliver(p)
      BY <3>1 DEF TypeOK, Leave, NothingToDeliver
    <3>2. CASE OpenDelivery(p)
      BY <3>2 DEF TypeOK, Leave, OpenDelivery
    <3>3. CASE QueueAlert(p)
      BY <3>3 DEF TypeOK, Leave, QueueAlert
    <3>4. CASE QueueFails(p)
      BY <3>4 DEF TypeOK, Leave, QueueFails
    <3> QED
      BY <2>4, <3>1, <3>2, <3>3, <3>4
  <2>5. CASE SendAlert(p) \/ LoseAnswer(p) \/ SendFails(p) \/ AddOutcome(p) \/ RecordDelivery(p)
    <3>1. CASE SendAlert(p)
      BY <3>1 DEF TypeOK, SendAlert, Accept
    <3>2. CASE SendFails(p)
      BY <3>2 DEF TypeOK, Leave, SendFails
    <3>3. CASE AddOutcome(p)
      BY <3>3 DEF TypeOK, Leave, AddOutcome
    <3>4. CASE RecordDelivery(p)
      BY <3>4 DEF TypeOK, Leave, RecordDelivery
    <3>5. CASE LoseAnswer(p)
      BY <3>5 DEF TypeOK, LoseAnswer, Accept
    <3> QED
      BY <2>5, <3>1, <3>2, <3>3, <3>4, <3>5
  <2>6. CASE RecordFails(p) \/ WriteFails(p) \/ Release(p)
    <3>1. CASE RecordFails(p)
      BY <3>1 DEF TypeOK, Leave, RecordFails
    <3>2. CASE WriteFails(p)
      BY <3>2 DEF TypeOK, Leave, WriteFails
    <3>3. CASE Release(p)
      BY <3>3 DEF TypeOK, Leave, Release
    <3> QED
      BY <2>6, <3>1, <3>2, <3>3
  <2> QED
    BY <1>1, <2>1, <2>2, <2>3, <2>4, <2>5, <2>6 DEF ScanStep
<1>2. ASSUME NEW p \in Scanners, Busy(p) \/ Acquire(p) PROVE SendHasIntent'
  <2>1. CASE Busy(p)
    BY <2>1 DEF TypeOK, Busy
  <2>2. CASE Acquire(p)
    BY <2>2 DEF TypeOK, Acquire
  <2> QED
    BY <1>2, <2>1, <2>2
<1>3. ASSUME NEW ds, NEW s, SetStatus(ds, s) PROVE SendHasIntent'
  BY <1>3 DEF SetStatus
<1>4. ASSUME NEW d, DeleteDevice(d) PROVE SendHasIntent'
  BY <1>4 DEF DeleteDevice
<1>5. ASSUME NEW ms, ImportTrusted(ms) PROVE SendHasIntent'
  BY <1>5 DEF ImportTrusted
<1>6. ASSUME NEW c, CreateChannel \/ DeleteChannel(c) PROVE SendHasIntent'
  BY <1>6 DEF CreateChannel, DeleteChannel
<1>7. CASE Retain \/ OuiBegin \/ OuiEnd \/ Tick
  BY <1>7 DEF Retain, OuiBegin, OuiEnd, Tick
<1>8. CASE Crash
  BY <1>8 DEF Crash
<1>9. CASE UNCHANGED vars
  BY <1>9 DEF vars
<1> QED
  BY <1>1, <1>2, <1>3, <1>4, <1>5, <1>6, <1>7, <1>8, <1>9 DEF Next

\* No step of the system, in whatever order, leaves the types of the variables.
THEOREM TypeCorrect == Spec => []TypeOK
<1>1. TypeInv /\ [Next]_vars => TypeInv'
  BY TypeNext, SendNext DEF TypeInv
<1>2. TypeInv => TypeOK
  BY DEF TypeInv
<1> QED
  BY TypeInit, <1>1, <1>2, PTL DEF Spec
-----------------------------------------------------------------------------
\* Both locks are free when the program starts.
LEMMA LockInit == Init => LockDiscipline
  BY OwnersAssumption DEF Init, LockDiscipline

\* Whatever way a scan ends, the step that ends it gives the write lock back, and
\* Release gives _scan_lock back; no step of another thread takes either from it.
LEMMA LockNext == TypeOK /\ LockDiscipline /\ [Next]_vars => LockDiscipline'
<1> SUFFICES ASSUME TypeOK, LockDiscipline, [Next]_vars PROVE LockDiscipline'
  OBVIOUS
<1> USE OwnersAssumption DEF tables, batch, mail, past, others, At, Goto, LockDiscipline, CanWrite
<1>1. ASSUME NEW p \in Scanners, NEW how, pc[p] # "idle", UNCHANGED scanLock, Leave(p, how)
      PROVE LockDiscipline'
  BY <1>1 DEF TypeOK, Leave
<1>2. ASSUME NEW p \in Scanners, Busy(p) \/ Acquire(p) \/ Release(p) PROVE LockDiscipline'
  <2>1. CASE Busy(p)
    BY <2>1 DEF TypeOK, Busy
  <2>2. CASE Acquire(p)
    BY <2>2 DEF TypeOK, Acquire
  <2>3. CASE Release(p)
    BY <2>3 DEF TypeOK, Release
  <2> QED
    BY <1>2, <2>1, <2>2, <2>3
<1>3. ASSUME NEW p \in Scanners,
             BeginScan(p) \/ FetchClients(p) \/ FetchFails(p) \/ LoadDevices(p)
      PROVE LockDiscipline'
  <2>1. CASE BeginScan(p)
    BY <2>1 DEF TypeOK, BeginScan
  <2>2. CASE FetchClients(p)
    BY <2>2 DEF TypeOK, FetchClients
  <2>3. CASE FetchFails(p)
    BY <2>3 DEF TypeOK, FetchFails
  <2>4. CASE LoadDevices(p)
    BY <2>4 DEF TypeOK, LoadDevices
  <2> QED
    BY <1>3, <2>1, <2>2, <2>3, <2>4
<1>4. ASSUME NEW p \in Scanners,
             UpdateDevice(p) \/ InsertDevice(p) \/ ReadCooldown(p) \/ ChooseIntent(p)
      PROVE LockDiscipline'
  <2>1. CASE UpdateDevice(p)
    BY <2>1 DEF TypeOK, UpdateDevice
  <2>2. CASE InsertDevice(p)
    BY <2>2 DEF TypeOK, InsertDevice
  <2>3. CASE ReadCooldown(p)
    BY <2>3 DEF TypeOK, ReadCooldown
  <2>4. CASE ChooseIntent(p)
    BY <2>4 DEF TypeOK, ChooseIntent
  <2> QED
    BY <1>4, <2>1, <2>2, <2>3, <2>4
<1>5. ASSUME NEW p \in Scanners, CommitScan(p) \/ OpenDelivery(p) \/ QueueAlert(p)
      PROVE LockDiscipline'
  <2>1. CASE CommitScan(p)
    BY <2>1 DEF TypeOK, CommitReady, CommitScan
  <2>2. CASE OpenDelivery(p)
    BY <2>2 DEF TypeOK, OpenDelivery
  <2>3. CASE QueueAlert(p)
    BY <2>3 DEF TypeOK, QueueAlert
  <2> QED
    BY <1>5, <2>1, <2>2, <2>3
<1>6. ASSUME NEW p \in Scanners,
             SendAlert(p) \/ LoseAnswer(p) \/ SendFails(p) \/ AddOutcome(p)
      PROVE LockDiscipline'
  <2>1. CASE SendAlert(p)
    BY <2>1 DEF TypeOK, SendAlert, Accept
  <2>2. CASE SendFails(p)
    BY <2>2 DEF TypeOK, SendFails
  <2>3. CASE AddOutcome(p)
    BY <2>3 DEF TypeOK, AddOutcome
  <2>4. CASE LoseAnswer(p)
    BY <2>4 DEF TypeOK, LoseAnswer, Accept
  <2> QED
    BY <1>6, <2>1, <2>2, <2>3, <2>4
<1>7. ASSUME NEW p \in Scanners,
             \/ RecordFailure(p) \/ InsertFails(p) \/ CommitFails(p) \/ NothingToDeliver(p)
             \/ QueueFails(p) \/ RecordDelivery(p) \/ RecordFails(p) \/ WriteFails(p)
      PROVE LockDiscipline'
  <2>1. pc[p] # "idle" /\ UNCHANGED scanLock /\ \E how : Leave(p, how)
    BY <1>7 DEF RecordFailure, InsertFails, CommitFails, CommitReady, NothingToDeliver, QueueFails,
       RecordDelivery, RecordFails, WriteFails, WaitsToWrite
  <2> QED
    BY <1>1, <2>1
<1>8. CASE \E ds, s : SetStatus(ds, s)
  BY <1>8 DEF SetStatus
<1>9. CASE \E d : DeleteDevice(d)
  BY <1>9 DEF DeleteDevice
<1>10. CASE \E ms : ImportTrusted(ms)
  BY <1>10 DEF ImportTrusted
<1>11. CASE CreateChannel \/ \E c : DeleteChannel(c)
  BY <1>11 DEF CreateChannel, DeleteChannel
<1>12. CASE Retain \/ OuiBegin \/ OuiEnd \/ Tick
  BY <1>12 DEF Retain, OuiBegin, OuiEnd, Tick
<1>13. CASE Crash
  BY <1>13 DEF Crash
<1>14. CASE UNCHANGED vars
  BY <1>14 DEF vars
<1> QED
  BY <1>2, <1>3, <1>4, <1>5, <1>6, <1>7, <1>8, <1>9, <1>10, <1>11, <1>12, <1>13, <1>14
     DEF Next, ScanStep

\* At most one thread is inside run_scan, and a scan that has ended by whatever
\* way holds neither _scan_lock nor the write lock of the database.
THEOREM LocksAreGivenBack == Spec => []LockDiscipline
  BY TypeCorrect, LockInit, LockNext, PTL DEF Spec

-----------------------------------------------------------------------------
(* The way of a scan *)

LEMMA TailIsShorter ==
  ASSUME NEW S, NEW s \in Seq(S), s # <<>> PROVE Len(Tail(s)) < Len(s)
OBVIOUS

LEMMA Stages ==
  /\ Stage["start"] = 1 /\ Stage["fetch"] = 2 /\ Stage["load"] = 3 /\ Stage["fail"] = 3
  /\ Stage["upsert"] = 4 /\ Stage["choose"] = 5 /\ Stage["deliver"] = 6 /\ Stage["queue"] = 7
  /\ Stage["send"] = 7 /\ Stage["release"] = 8 /\ Stage["idle"] = 9
BY DEF Stage

\* The way out, from wherever the scan is.
LEMMA LeaveAdvances ==
  ASSUME TypeOK, NEW p \in Scanners, pc[p] \notin {"idle", "release"}, NEW how, Leave(p, how)
  PROVE  Advance(p)
<1>1. pc'[p] = "release" /\ pc[p] \in Points \ {"idle", "release"}
  BY DEF Leave, Goto, TypeOK
<1> QED
  BY <1>1, Stages DEF Advance, Points

\* Every step of a scan leads to a later stage, or shortens what its stage has left.
LEMMA StepAdvances ==
  ASSUME TypeInv, NEW p \in Scanners, ScanStep(p)
  PROVE  Advance(p)
<1>1. TypeOK /\ (At(p, "send") => intents[p] # <<>>)
  BY DEF TypeInv, SendHasIntent
<1> USE <1>1 DEF Goto, At
<1>2. CASE BeginScan(p) \/ FetchClients(p) \/ FetchFails(p) \/ LoadDevices(p) \/ ReadCooldown(p)
           \/ CommitScan(p) \/ OpenDelivery(p) \/ Release(p)
  <2>1. \/ pc[p] = "start" /\ pc'[p] = "fetch"
        \/ pc[p] = "fetch" /\ pc'[p] \in {"load", "fail"}
        \/ pc[p] = "load" /\ pc'[p] = "upsert"
        \/ pc[p] = "upsert" /\ pc'[p] = "choose"
        \/ pc[p] = "choose" /\ pc'[p] = "deliver"
        \/ pc[p] = "deliver" /\ pc'[p] = "queue"
        \/ pc[p] = "release" /\ pc'[p] = "idle"
    BY <1>2 DEF BeginScan, FetchClients, FetchFails, LoadDevices, ReadCooldown, CommitScan,
       CommitReady, OpenDelivery, Release, TypeOK
  <2> QED
    BY <2>1, Stages DEF Advance
<1>3. CASE \/ RecordFailure(p) \/ InsertFails(p) \/ CommitFails(p) \/ NothingToDeliver(p)
           \/ QueueFails(p) \/ RecordDelivery(p) \/ RecordFails(p) \/ WriteFails(p)
  <2>1. pc[p] \notin {"idle", "release"} /\ \E how : Leave(p, how)
    BY <1>3 DEF RecordFailure, InsertFails, CommitFails, CommitReady, NothingToDeliver, QueueFails,
       RecordDelivery, RecordFails, WriteFails, WaitsToWrite
  <2> QED
    BY <2>1, LeaveAdvances
<1>4. CASE UpdateDevice(p) \/ InsertDevice(p)
  <2>1. pc[p] = "upsert" /\ pc' = pc /\ clients[p] # <<>> /\ clients[p] \in Seq(Macs)
        /\ clients'[p] = Tail(clients[p])
    BY <1>4 DEF UpdateDevice, InsertDevice, TypeOK
  <2> QED
    BY <2>1, TailIsShorter DEF Advance
<1>5. CASE ChooseIntent(p)
  <2>1. pc[p] = "choose" /\ pc' = pc /\ candidates[p] # <<>> /\ candidates[p] \in Seq(Ids)
        /\ candidates'[p] = Tail(candidates[p])
    BY <1>5 DEF ChooseIntent, TypeOK
  <2> QED
    BY <2>1, TailIsShorter DEF Advance
<1>6. CASE QueueAlert(p)
  BY <1>6 DEF QueueAlert, Advance, TypeOK
<1>7. CASE SendAlert(p) \/ LoseAnswer(p) \/ SendFails(p)
  <2>1. PICK c \in todo[p] : todo' = [todo EXCEPT ![p] = @ \ {c}]
    BY <1>7 DEF SendAlert, LoseAnswer, Accept, SendFails
  <2>2. pc[p] = "send" /\ pc' = pc /\ intents' = intents
    BY <1>7 DEF SendAlert, LoseAnswer, Accept, SendFails, mail
  <2>3. todo'[p] = todo[p] \ {c}
    BY <2>1 DEF TypeOK
  <2> QED
    BY <2>2, <2>3 DEF Advance
<1>8. CASE AddOutcome(p)
  <2>1. pc[p] = "send" /\ pc'[p] = "queue" /\ intents[p] \in Seq(Ids)
        /\ intents'[p] = Tail(intents[p])
    BY <1>8 DEF AddOutcome, TypeOK
  <2> QED
    BY <2>1, TailIsShorter DEF Advance
<1> QED
  BY <1>2, <1>3, <1>4, <1>5, <1>6, <1>7, <1>8 DEF ScanStep

\* What others do meanwhile leaves a running scan where it is; a restart ends it.
LEMMA OthersKeepPlace ==
  ASSUME TypeOK, LockDiscipline, NEW p \in Scanners, pc[p] # "idle", ~ScanStep(p), [Next]_vars
  PROVE  Advance(p) \/ Place(p)' = Place(p)
<1> USE DEF Place, tables, batch, mail, past, others
<1>1. ASSUME NEW q \in Scanners, Busy(q) PROVE Place(p)' = Place(p)
  BY <1>1 DEF Busy
<1>2. ASSUME NEW q \in Scanners, Acquire(q) \/ ScanStep(q) PROVE FALSE
  <2>1. scanLock = p /\ p # NoOne
    BY OwnersAssumption DEF LockDiscipline
  <2>2. pc[q] = "idle"
    <3>1. CASE Acquire(q)
      BY <3>1 DEF Acquire, At
    <3>2. CASE ScanStep(q)
      BY <1>2, <2>1, <3>2 DEF LockDiscipline
    <3> QED
      BY <1>2, <3>1, <3>2
  <2>3. ~Acquire(q)
    BY <2>1 DEF Acquire
  <2>4. ~ScanStep(q)
    BY <2>2 DEF ScanStep, BeginScan, FetchClients, FetchFails, RecordFailure, LoadDevices,
       UpdateDevice, InsertDevice, InsertFails, ReadCooldown, ChooseIntent, CommitScan, CommitFails,
       CommitReady, NothingToDeliver, OpenDelivery, QueueAlert, QueueFails, SendAlert, SendFails,
       LoseAnswer, Accept, AddOutcome, RecordDelivery, RecordFails, WriteFails, WaitsToWrite, Release, At
  <2> QED
    BY <1>2, <2>3, <2>4
<1>3. CASE Crash
  <2>1. pc[p] \in Points \ {"idle"} /\ pc'[p] = "idle"
    BY <1>3 DEF Crash, TypeOK
  <2> QED
    BY <2>1, Stages DEF Advance, Points
<1>4. ASSUME \/ (\E ds, s : SetStatus(ds, s)) \/ (\E d : DeleteDevice(d))
             \/ (\E ms : ImportTrusted(ms)) \/ CreateChannel \/ (\E c : DeleteChannel(c))
             \/ Retain \/ OuiBegin \/ OuiEnd \/ Tick \/ UNCHANGED vars
      PROVE  Place(p)' = Place(p)
  <2>1. UNCHANGED <<pc, clients, candidates, intents, todo>>
    BY <1>4 DEF SetStatus, DeleteDevice, ImportTrusted, CreateChannel, DeleteChannel, Retain,
       OuiBegin, OuiEnd, Tick, vars
  <2> QED
    BY <2>1
<1> QED
  BY <1>1, <1>2, <1>3, <1>4 DEF Next

\* run_scan: whatever a scan meets and whatever runs beside it, each of its steps is
\* one of a bounded number that lead to its end.
THEOREM NoScanGoesBack == Spec => ScansAdvance
<1>1. TypeInv /\ LockDiscipline /\ [Next]_vars =>
        \A p \in Scanners : pc[p] # "idle" =>
          Advance(p) \/ (~ScanStep(p) /\ Place(p)' = Place(p))
  BY StepAdvances, OthersKeepPlace DEF TypeInv
<1>2. TypeInv /\ LockDiscipline /\ [Next]_vars => (TypeInv /\ LockDiscipline)'
  BY TypeNext, SendNext, LockNext DEF TypeInv
<1> QED
  BY TypeInit, LockInit, <1>1, <1>2, PTL DEF Spec, ScansAdvance
=============================================================================
