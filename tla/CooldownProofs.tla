--------------------------- MODULE CooldownProofs ---------------------------
(***************************************************************************)
(* The alerts recorded for a device are more than the cooldown apart, and  *)
(* Scanner implements AlertPolicy.                                         *)
(*                                                                         *)
(* The cooldown query reads the events table, the promise is about every   *)
(* alert ever recorded, and several steps lie between the query and the    *)
(* commit that records the next alert.  The inductive invariant bridges    *)
(* these gaps: what is recorded is still in the table, or so old that      *)
(* retention took it (LedgerInv); `now' is recent when the query runs      *)
(* (TimeInv); and what the query established holds for every intent and    *)
(* every row on its way to the commit (DueInv), because nobody else can    *)
(* record an alert meanwhile (LockDiscipline, QuietInv).                   *)
(*                                                                         *)
(* After that, what a delivery and a scan as a whole promise: the session  *)
(* of a delivery holds the write lock and only outcomes that are true      *)
(* (MailInv), a scan that fails has not reached a provider (SilentInv),    *)
(* and every device a provider was told about is in the session that will  *)
(* record it (AccountInv): only what is rolled back is ever sent twice.    *)
(* Where every delivery ends with its commit, what was told is recorded or *)
(* under way (OwedInv), and the messages keep the cooldown.                *)
(***************************************************************************)
EXTENDS ScannerProofs

Spaced(d, t) == recorded[d] = Never \/ recorded[d] + Cooldown < t

TimeInv == \A p \in Scanners : /\ now[p] <= clock
                               /\ pc[p] \in {"load", "upsert"} => clock <= now[p] + MaxStall

InLog(d) == \E e \in events : e.type = "alert_sent" /\ e.dev = d /\ e.at = recorded[d]
LedgerInv == \A d \in Ids : \/ recorded[d] = Never
                            \/ /\ recorded[d] <= clock
                               /\ InLog(d) \/ (Retention > 0 /\ recorded[d] < clock - Retention)

QuietInv == \A p \in Scanners :
  /\ pc[p] \notin {"choose", "deliver", "queue", "send"} => intents[p] = <<>>
  /\ pc[p] \notin {"queue", "send"} => tx[p] = {} /\ added[p] = {}

Due(p) ==
  /\ pc[p] = "choose" => \A d \in Ids : d \in cooling[p] \/ Spaced(d, now[p])
  /\ \A i \in 1..Len(intents[p]) : Spaced(intents[p][i], now[p])
  /\ \A r \in added[p] : Spaced(r.dev, now[p])
  /\ \A e \in tx[p] : e.type = "alert_sent" =>
       Spaced(e.dev, now[p]) /\ now[p] <= e.at /\ e.at <= clock
DueInv == \A p \in Scanners : Due(p)

AlertInv == TypeInv /\ LockDiscipline /\ TimeInv /\ LedgerInv /\ QuietInv /\ DueInv

-----------------------------------------------------------------------------
\* The settings of the alert policy are natural numbers.
LEMMA Numbers == Cooldown \in Nat /\ Retention \in Nat /\ MaxStall \in Nat
  BY NumbersAssumption

\* No event is dated in the future, and a scan is never ahead of the clock.
LEMMA TimeNext == TypeOK /\ TimeInv /\ [Next]_vars => TimeInv'
<1> SUFFICES ASSUME TypeOK, TimeInv, [Next]_vars PROVE TimeInv'
  OBVIOUS
<1> USE Numbers
    DEF tables, batch, mail, past, others, At, Goto, TimeInv
<1>1. ASSUME NEW p \in Scanners, NEW how, UNCHANGED clock, Leave(p, how) PROVE TimeInv'
  BY <1>1 DEF TypeOK, Leave
<1>2. ASSUME NEW p \in Scanners, Busy(p) \/ Acquire(p) \/ Release(p) PROVE TimeInv'
  <2>1. CASE Busy(p)
    BY <2>1 DEF TypeOK, Busy
  <2>2. CASE Acquire(p)
    BY <2>2 DEF TypeOK, Acquire
  <2>3. CASE Release(p)
    BY <2>3 DEF TypeOK, Release
  <2> QED
    BY <1>2, <2>1, <2>2, <2>3
<1>3. ASSUME NEW p \in Scanners,
             BeginScan(p) \/ FetchClients(p) \/ FetchFails(p) \/ LoadDevices(p)
      PROVE TimeInv'
  <2>1. CASE BeginScan(p)
    BY <2>1 DEF TypeOK, BeginScan
  <2>2. CASE FetchClients(p)
    BY <2>2 DEF TypeOK, FetchClients
  <2>3. CASE FetchFails(p)
    BY <2>3 DEF TypeOK, FetchFails
  <2>4. CASE LoadDevices(p)
    BY <2>4 DEF TypeOK, LoadDevices
  <2> QED
    BY <1>3, <2>1, <2>2, <2>3, <2>4
<1>4. ASSUME NEW p \in Scanners,
             UpdateDevice(p) \/ InsertDevice(p) \/ ReadCooldown(p) \/ ChooseIntent(p)
      PROVE TimeInv'
  <2>1. CASE UpdateDevice(p)
    BY <2>1 DEF TypeOK, UpdateDevice
  <2>2. CASE InsertDevice(p)
    BY <2>2 DEF TypeOK, InsertDevice
  <2>3. CASE ReadCooldown(p)
    BY <2>3 DEF TypeOK, ReadCooldown
  <2>4. CASE ChooseIntent(p)
    BY <2>4 DEF TypeOK, ChooseIntent
  <2> QED
    BY <1>4, <2>1, <2>2, <2>3, <2>4
<1>5. ASSUME NEW p \in Scanners, CommitScan(p) \/ OpenDelivery(p) \/ QueueAlert(p)
      PROVE TimeInv'
  <2>1. CASE CommitScan(p)
    BY <2>1 DEF TypeOK, CommitReady, CommitScan
  <2>2. CASE OpenDelivery(p)
    BY <2>2 DEF TypeOK, OpenDelivery
  <2>3. CASE QueueAlert(p)
    BY <2>3 DEF TypeOK, QueueAlert
  <2> QED
    BY <1>5, <2>1, <2>2, <2>3
<1>6. ASSUME NEW p \in Scanners, SendAlert(p) \/ LoseAnswer(p) \/ SendFails(p) \/ AddOutcome(p)
      PROVE TimeInv'
  <2>1. CASE SendAlert(p) \/ LoseAnswer(p)
    BY <2>1 DEF TypeOK, SendAlert, LoseAnswer, Accept
  <2>2. CASE SendFails(p)
    BY <2>2 DEF TypeOK, SendFails
  <2>3. CASE AddOutcome(p)
    BY <2>3 DEF TypeOK, AddOutcome
  <2> QED
    BY <1>6, <2>1, <2>2, <2>3
<1>7. ASSUME NEW p \in Scanners,
             \/ RecordFailure(p) \/ InsertFails(p) \/ CommitFails(p) \/ NothingToDeliver(p)
             \/ QueueFails(p) \/ RecordDelivery(p) \/ RecordFails(p) \/ WriteFails(p)
      PROVE TimeInv'
  <2>1. UNCHANGED clock /\ \E how : Leave(p, how)
    BY <1>7 DEF RecordFailure, InsertFails, CommitFails, CommitReady, NothingToDeliver, QueueFails,
       RecordDelivery, RecordFails, WriteFails, WaitsToWrite
  <2> QED
    BY <1>1, <2>1
<1>8. CASE \E ds, s : SetStatus(ds, s)
  BY <1>8 DEF SetStatus
<1>9. CASE \E d : DeleteDevice(d)
  BY <1>9 DEF DeleteDevice
<1>10. CASE \E ms : ImportTrusted(ms)
  BY <1>10 DEF ImportTrusted
<1>11. CASE CreateChannel \/ \E c : DeleteChannel(c)
  BY <1>11 DEF CreateChannel, DeleteChannel
<1>12. CASE Retain \/ OuiBegin \/ OuiEnd
  BY <1>12 DEF Retain, OuiBegin, OuiEnd
<1>13. CASE Tick
  BY <1>13 DEF Tick, TypeOK
<1>14. CASE Crash
  BY <1>14 DEF Crash, TypeOK
<1>15. CASE UNCHANGED vars
  BY <1>15 DEF vars
<1> QED
  BY <1>2, <1>3, <1>4, <1>5, <1>6, <1>7, <1>8, <1>9, <1>10, <1>11, <1>12, <1>13, <1>14, <1>15
     DEF Next, ScanStep

\* A scan that has not yet reached the delivery has no alert in its session.
LEMMA QuietNext == TypeOK /\ QuietInv /\ [Next]_vars => QuietInv'
<1> SUFFICES ASSUME TypeOK, QuietInv, [Next]_vars PROVE QuietInv'
  OBVIOUS
<1> USE DEF tables, batch, mail, past, others, At, Goto, QuietInv
<1>1. ASSUME NEW p \in Scanners, NEW how, Leave(p, how) PROVE QuietInv'
  BY <1>1 DEF TypeOK, Leave
<1>2. ASSUME NEW p \in Scanners, Busy(p) \/ Acquire(p) \/ Release(p) PROVE QuietInv'
  <2>1. CASE Busy(p)
    BY <2>1 DEF TypeOK, Busy
  <2>2. CASE Acquire(p)
    BY <2>2 DEF TypeOK, Acquire
  <2>3. CASE Release(p)
    BY <2>3 DEF TypeOK, Release
  <2> QED
    BY <1>2, <2>1, <2>2, <2>3
<1>3. ASSUME NEW p \in Scanners,
             BeginScan(p) \/ FetchClients(p) \/ FetchFails(p) \/ LoadDevices(p)
      PROVE QuietInv'
  <2>1. CASE BeginScan(p)
    BY <2>1 DEF TypeOK, BeginScan
  <2>2. CASE FetchClients(p)
    BY <2>2 DEF TypeOK, FetchClients
  <2>3. CASE FetchFails(p)
    BY <2>3 DEF TypeOK, FetchFails
  <2>4. CASE LoadDevices(p)
    BY <2>4 DEF TypeOK, LoadDevices
  <2> QED
    BY <1>3, <2>1, <2>2, <2>3, <2>4
<1>4. ASSUME NEW p \in Scanners,
             UpdateDevice(p) \/ InsertDevice(p) \/ ReadCooldown(p) \/ ChooseIntent(p)
      PROVE QuietInv'
  <2>1. CASE UpdateDevice(p)
    BY <2>1 DEF TypeOK, UpdateDevice
  <2>2. CASE InsertDevice(p)
    BY <2>2 DEF TypeOK, InsertDevice
  <2>3. CASE ReadCooldown(p)
    BY <2>3 DEF TypeOK, ReadCooldown
  <2>4. CASE ChooseIntent(p)
    BY <2>4 DEF TypeOK, ChooseIntent
  <2> QED
    BY <1>4, <2>1, <2>2, <2>3, <2>4
<1>5. ASSUME NEW p \in Scanners, CommitScan(p) \/ OpenDelivery(p) \/ QueueAlert(p)
      PROVE QuietInv'
  <2>1. CASE CommitScan(p)
    BY <2>1 DEF TypeOK, CommitReady, CommitScan
  <2>2. CASE OpenDelivery(p)
    BY <2>2 DEF TypeOK, OpenDelivery
  <2>3. CASE QueueAlert(p)
    BY <2>3 DEF TypeOK, QueueAlert
  <2> QED
    BY <1>5, <2>1, <2>2, <2>3
<1>6. ASSUME NEW p \in Scanners, SendAlert(p) \/ LoseAnswer(p) \/ SendFails(p) \/ AddOutcome(p)
      PROVE QuietInv'
  <2>1. CASE SendAlert(p) \/ LoseAnswer(p)
    BY <2>1 DEF TypeOK, SendAlert, LoseAnswer, Accept
  <2>2. CASE SendFails(p)
    BY <2>2 DEF TypeOK, SendFails
  <2>3. CASE AddOutcome(p)
    BY <2>3 DEF TypeOK, AddOutcome
  <2> QED
    BY <1>6, <2>1, <2>2, <2>3
<1>7. ASSUME NEW p \in Scanners,
             \/ RecordFailure(p) \/ InsertFails(p) \/ CommitFails(p) \/ NothingToDeliver(p)
             \/ QueueFails(p) \/ RecordDelivery(p) \/ RecordFails(p) \/ WriteFails(p)
      PROVE QuietInv'
  <2>1. \E how : Leave(p, how)
    BY <1>7 DEF RecordFailure, InsertFails, CommitFails, CommitReady, NothingToDeliver, QueueFails,
       RecordDelivery, RecordFails, WriteFails, WaitsToWrite
  <2> QED
    BY <1>1, <2>1
<1>8. CASE \E ds, s : SetStatus(ds, s)
  BY <1>8 DEF SetStatus
<1>9. CASE \E d : DeleteDevice(d)
  BY <1>9 DEF DeleteDevice
<1>10. CASE \E ms : ImportTrusted(ms)
  BY <1>10 DEF ImportTrusted
<1>11. CASE CreateChannel \/ \E c : DeleteChannel(c)
  BY <1>11 DEF CreateChannel, DeleteChannel
<1>12. CASE Retain \/ OuiBegin \/ OuiEnd \/ Tick
  BY <1>12 DEF Retain, OuiBegin, OuiEnd, Tick
<1>13. CASE Crash
  BY <1>13 DEF Crash
<1>14. CASE UNCHANGED vars
  BY <1>14 DEF vars
<1> QED
  BY <1>2, <1>3, <1>4, <1>5, <1>6, <1>7, <1>8, <1>9, <1>10, <1>11, <1>12, <1>13, <1>14
     DEF Next, ScanStep

-----------------------------------------------------------------------------
\* The latest recorded alert of a device is still a row of events, unless
\* retention took it for its age.
LEMMA LedgerNext ==
  TypeOK /\ DueInv /\ TimeInv /\ LedgerInv /\ [Next]_vars => LedgerInv'
<1> SUFFICES ASSUME TypeOK, DueInv, TimeInv, LedgerInv, [Next]_vars PROVE LedgerInv'
  OBVIOUS
<1> USE Numbers DEF tables, batch, mail, past, others, LedgerInv, InLog
<1>1. CASE UNCHANGED <<clock, recorded, events>>
  BY <1>1
<1>2. ASSUME NEW p \in Scanners, RecordDelivery(p) PROVE LedgerInv'
  <2>1. clock' = clock /\ events \subseteq events'
    BY <1>2 DEF RecordDelivery
  <2> SUFFICES ASSUME NEW d \in Ids
               PROVE \/ recorded'[d] = Never
                     \/ /\ recorded'[d] <= clock
                        /\ InLog(d)' \/ (Retention > 0 /\ recorded'[d] < clock - Retention)
    BY <2>1
  <2>2. CASE NewSent(p, d) = {}
    <3>1. recorded'[d] = recorded[d]
      BY <1>2, <2>2 DEF RecordDelivery
    <3> QED
      BY <2>1, <3>1
  <2>3. CASE NewSent(p, d) # {}
    <3>1. PICK e \in NewSent(p, d) : recorded'[d] = e.at
      BY <1>2, <2>3 DEF RecordDelivery
    <3>2. e \in events' /\ e.type = "alert_sent" /\ e.dev = d
      BY <1>2, <3>1 DEF RecordDelivery, NewSent
    <3>3. e.at <= clock
      BY <3>1 DEF NewSent, NewEvents, Stamp, DueInv, Due, TypeOK
    <3>4. InLog(d)'
      BY <3>1, <3>2
    <3> QED
      BY <3>1, <3>3, <3>4
  <2> QED
    BY <2>2, <2>3
<1>3. ASSUME NEW d \in Ids, DeleteDevice(d) PROVE LedgerInv'
  BY <1>3 DEF DeleteDevice, TypeOK
<1>4. CASE Retain
  BY <1>4 DEF Retain, TypeOK, EventRows
<1>5. CASE Tick
  <2>1. clock' = clock + 1 /\ UNCHANGED <<recorded, events>> /\ clock \in Nat
    BY <1>5 DEF Tick, TypeOK
  <2>2. ASSUME NEW d \in Ids PROVE InLog(d)' <=> InLog(d)
    BY <2>1
  <2>3. ASSUME NEW d \in Ids PROVE recorded[d] \in Int
    BY DEF TypeOK, Never
  <2> QED
    BY <2>1, <2>2, <2>3
<1>6. ASSUME NEW p \in Scanners, Busy(p) \/ Acquire(p) \/ (ScanStep(p) /\ ~RecordDelivery(p))
      PROVE UNCHANGED <<clock, recorded, events>>
  BY <1>6 DEF Busy, Acquire, ScanStep, BeginScan, FetchClients, FetchFails, RecordFailure,
     LoadDevices, UpdateDevice, InsertDevice, InsertFails, ReadCooldown, ChooseIntent, CommitScan,
     CommitFails, NothingToDeliver, OpenDelivery, QueueAlert, QueueFails, SendAlert, LoseAnswer,
     Accept, SendFails, AddOutcome, RecordFails, WriteFails, Release
<1>7. ASSUME \/ \E ds, s : SetStatus(ds, s)
             \/ \E ms : ImportTrusted(ms)
             \/ CreateChannel \/ \E c : DeleteChannel(c)
             \/ OuiBegin \/ OuiEnd \/ Crash \/ UNCHANGED vars
      PROVE UNCHANGED <<clock, recorded, events>>
  BY <1>7 DEF SetStatus, ImportTrusted, CreateChannel, DeleteChannel, OuiBegin, OuiEnd, Crash, vars
<1> QED
  BY <1>1, <1>2, <1>3, <1>4, <1>5, <1>6, <1>7 DEF Next, ScanStep
-----------------------------------------------------------------------------
\* Everything a scan has in flight is about devices whose recorded alert the
\* step leaves alone or forgets.
Forgets == \A d \in Ids : recorded'[d] = recorded[d] \/ recorded'[d] = Never

\* The query finds every device whose latest recorded alert is too recent.
LEMMA CooldownQuery ==
  ASSUME RetentionCoversCooldown, TypeOK, TimeInv, LedgerInv,
         NEW p \in Scanners, pc[p] = "upsert", NEW d \in Ids, d \notin InCooldown(p)
  PROVE  Spaced(d, now[p])
<1> USE Numbers
<1>1. clock <= now[p] + MaxStall /\ clock \in Nat /\ now[p] \in Nat
  BY DEF TimeInv, TypeOK
<1>2. CASE recorded[d] = Never
  BY <1>2 DEF Spaced
<1>3. CASE InLog(d)
  <2>1. PICK e \in events : e.type = "alert_sent" /\ e.dev = d /\ e.at = recorded[d]
    BY <1>3 DEF InLog
  <2>2. ~(e.at >= now[p] - Cooldown) /\ e.at \in Nat
    BY <2>1 DEF InCooldown, TypeOK, EventRows
  <2> QED
    BY <1>1, <2>1, <2>2 DEF Spaced
<1>4. CASE Retention > 0 /\ recorded[d] < clock - Retention /\ recorded[d] # Never
  <2>1. recorded[d] \in Nat
    BY <1>4 DEF TypeOK
  <2>2. Retention >= Cooldown + MaxStall
    BY <1>4 DEF RetentionCoversCooldown
  <2> QED
    BY <1>1, <1>4, <2>1, <2>2 DEF Spaced
<1> QED
  BY <1>2, <1>3, <1>4 DEF LedgerInv

\* A step that records nothing new keeps the claims of a scan whose work it
\* does not change.
LEMMA DueKept ==
  ASSUME TypeOK, DueInv, Forgets, clock <= clock', clock' \in Nat, NEW q \in Scanners,
         UNCHANGED <<now[q], intents[q], added[q], tx[q]>>,
         pc'[q] = "choose" => pc[q] = "choose" /\ cooling'[q] = cooling[q]
  PROVE  Due(q)'
<1>1. ASSUME NEW d \in Ids, Spaced(d, now[q]) PROVE Spaced(d, now[q])'
  BY <1>1 DEF Forgets, Spaced
<1>2. \A i \in 1..Len(intents[q]) : intents[q][i] \in Ids
  BY DEF TypeOK
<1>3. \A r \in added[q] : r.dev \in Ids
  BY DEF TypeOK, PendingRows
<1>4. \A e \in tx[q] : e.dev \in Ids /\ e.at \in Nat
  BY DEF TypeOK, EventRows
<1>5. \A e \in tx[q] : e.at <= clock => e.at <= clock'
  BY <1>4 DEF TypeOK
<1> QED
  BY <1>1, <1>2, <1>3, <1>4, <1>5 DEF DueInv, Due, Spaced

\* A scan without intents and without rows in its session claims nothing.
LEMMA DueEmpty ==
  ASSUME NEW q \in Scanners, pc'[q] # "choose",
         intents'[q] = <<>>, added'[q] = {}, tx'[q] = {}
  PROVE  Due(q)'
  BY DEF Due

\* The end of a scan drops its intents and rows, so it claims nothing any more.
LEMMA DueLeave ==
  ASSUME TypeOK, DueInv, Forgets, UNCHANGED clock, NEW p \in Scanners, NEW how, Leave(p, how)
  PROVE  DueInv'
<1> SUFFICES ASSUME NEW q \in Scanners PROVE Due(q)'
  BY DEF DueInv
<1>1. CASE q = p
  BY <1>1, DueEmpty DEF Leave, Goto, TypeOK
<1>2. CASE q # p
  <2>1. UNCHANGED <<pc[q], now[q], intents[q], added[q], tx[q], cooling[q]>>
    BY <1>2 DEF Leave, Goto, TypeOK
  <2>2. clock <= clock' /\ clock' \in Nat
    BY DEF TypeOK
  <2> QED
    BY <2>1, <2>2, DueKept
<1> QED
  BY <1>1, <1>2

\* A step of p that touches none of what Due speaks of.
LEMMA DueFrame ==
  ASSUME TypeOK, DueInv, Forgets, clock <= clock', clock' \in Nat,
         UNCHANGED <<now, cooling, intents, added, tx>>,
         \A q \in Scanners : pc'[q] = "choose" => pc[q] = "choose"
  PROVE  DueInv'
  BY DueKept DEF DueInv

\* A step of p: nothing is to be shown of the other scans.
LEMMA DueOfOne ==
  ASSUME TypeOK, DueInv, Forgets, UNCHANGED clock, NEW p \in Scanners, Due(p)',
         \A q \in Scanners \ {p} :
           UNCHANGED <<pc[q], now[q], cooling[q], intents[q], added[q], tx[q]>>
  PROVE  DueInv'
<1> SUFFICES ASSUME NEW q \in Scanners \ {p} PROVE Due(q)'
  BY DEF DueInv
<1>1. q \in Scanners /\ UNCHANGED <<pc[q], now[q], cooling[q], intents[q], added[q], tx[q]>>
  OBVIOUS
<1>2. clock <= clock' /\ clock' \in Nat
  BY DEF TypeOK
<1> QED
  BY <1>1, <1>2, DueKept

\* Every step keeps the claim of each scan: the devices it is about to alert on
\* have no recorded alert within the cooldown.
LEMMA DueNext ==
  RetentionCoversCooldown /\ AlertInv /\ [Next]_vars => DueInv'
<1> SUFFICES ASSUME RetentionCoversCooldown, TypeOK, SendHasIntent, LockDiscipline, TimeInv,
                    LedgerInv, QuietInv, DueInv, [Next]_vars
             PROVE DueInv'
  BY DEF AlertInv, TypeInv
<1> USE Numbers DEF tables, batch, mail, past, others, At, Goto
<1>1. ASSUME NEW p \in Scanners, UNCHANGED <<clock, recorded>>, NEW how, Leave(p, how) PROVE DueInv'
  BY <1>1, DueLeave DEF Forgets
<1>2. ASSUME UNCHANGED <<now, cooling, intents, added, tx, recorded, clock>>,
             \A q \in Scanners : pc'[q] = "choose" => pc[q] = "choose"
      PROVE DueInv'
  BY <1>2, DueFrame DEF Forgets, TypeOK
<1>3. ASSUME NEW p \in Scanners,
             \/ Busy(p) \/ Acquire(p) \/ Release(p) \/ BeginScan(p) \/ FetchFails(p)
             \/ LoadDevices(p) \/ UpdateDevice(p) \/ InsertDevice(p) \/ CommitScan(p)
             \/ OpenDelivery(p) \/ SendAlert(p) \/ LoseAnswer(p) \/ SendFails(p)
      PROVE DueInv'
  <2>1. UNCHANGED <<now, cooling, intents, added, tx, recorded, clock>>
    BY <1>3 DEF Busy, Acquire, Release, BeginScan, FetchFails, LoadDevices, UpdateDevice,
       InsertDevice, CommitScan, OpenDelivery, SendAlert, LoseAnswer, Accept, SendFails
  <2>2. \A q \in Scanners : pc'[q] = "choose" => pc[q] = "choose"
    BY <1>3 DEF Busy, Acquire, Release, BeginScan, FetchFails, LoadDevices, UpdateDevice,
       InsertDevice, CommitScan, OpenDelivery, SendAlert, LoseAnswer, Accept, SendFails, TypeOK
  <2> QED
    BY <1>2, <2>1, <2>2
<1>4. ASSUME NEW p \in Scanners, FetchClients(p) PROVE DueInv'
  <2>1. pc[p] = "fetch" /\ UNCHANGED <<clock, cooling, intents, added, tx, recorded>>
    BY <1>4 DEF FetchClients
  <2>2. Due(p)'
    BY <1>4, <2>1, DueEmpty DEF FetchClients, TypeOK, QuietInv
  <2>3. \A q \in Scanners \ {p} : UNCHANGED <<pc[q], now[q]>>
    BY <1>4 DEF FetchClients, TypeOK
  <2> QED
    BY <2>1, <2>2, <2>3, DueOfOne DEF Forgets
<1>5. ASSUME NEW p \in Scanners, ReadCooldown(p) PROVE DueInv'
  <2>1. pc[p] = "upsert" /\ UNCHANGED <<clock, now, intents, added, tx, recorded>>
    BY <1>5 DEF ReadCooldown
  <2>2. intents'[p] = <<>> /\ added'[p] = {} /\ tx'[p] = {}
    BY <2>1 DEF QuietInv
  <2>3. cooling'[p] = InCooldown(p)
    BY <1>5 DEF ReadCooldown, TypeOK
  <2>4. \A d \in Ids : d \in cooling'[p] \/ Spaced(d, now[p])'
    BY <2>1, <2>3, CooldownQuery DEF Spaced
  <2>5. Due(p)'
    BY <2>2, <2>4 DEF Due, Spaced
  <2>6. \A q \in Scanners \ {p} : UNCHANGED <<pc[q], cooling[q]>>
    BY <1>5 DEF ReadCooldown, TypeOK
  <2> QED
    BY <2>1, <2>5, <2>6, DueOfOne DEF Forgets
<1>6. ASSUME NEW p \in Scanners, ChooseIntent(p) PROVE DueInv'
  <2> DEFINE d == Head(candidates[p])
  <2>1. pc[p] = "choose" /\ UNCHANGED <<clock, now, added, tx, recorded, pc>>
    BY <1>6 DEF ChooseIntent
  <2>2. d \in Ids
    BY <1>6 DEF ChooseIntent, TypeOK
  <2>3. cooling'[p] = cooling[p] \cup {d}
    BY <1>6 DEF ChooseIntent, TypeOK
  <2>4. Due(p)'
    <3>1. \A e \in Ids : e \in cooling'[p] \/ Spaced(e, now[p])
      BY <2>1, <2>3 DEF DueInv, Due
    <3>2. \A i \in 1..Len(intents'[p]) : Spaced(intents'[p][i], now[p])
      <4>1. CASE d \in cooling[p]
        BY <1>6, <4>1 DEF ChooseIntent, DueInv, Due, TypeOK
      <4>2. CASE d \notin cooling[p]
        <5>1. intents'[p] = Append(intents[p], d) /\ Spaced(d, now[p])
          BY <1>6, <2>1, <2>2, <4>2 DEF ChooseIntent, DueInv, Due, TypeOK
        <5>2. intents[p] \in Seq(Ids)
          BY DEF TypeOK
        <5>3. \A i \in 1..Len(intents[p]) : Spaced(intents[p][i], now[p])
          BY DEF DueInv, Due
        <5> QED
          BY <2>2, <5>1, <5>2, <5>3
      <4> QED
        BY <4>1, <4>2
    <3> QED
      BY <2>1, <3>1, <3>2 DEF DueInv, Due, Spaced
  <2>5. \A q \in Scanners \ {p} : UNCHANGED <<cooling[q], intents[q]>>
    BY <1>6 DEF ChooseIntent, TypeOK
  <2> QED
    BY <2>1, <2>4, <2>5, DueOfOne DEF Forgets
<1>7. ASSUME NEW p \in Scanners, QueueAlert(p) PROVE DueInv'
  <2>1. UNCHANGED <<clock, now, intents, recorded, cooling>>
    BY <1>7 DEF QueueAlert
  <2>2. added'[p] = {} /\ pc'[p] = "send"
    BY <1>7 DEF QueueAlert, TypeOK
  <2>3. tx'[p] = tx[p] \cup Stamp(added[p])
                  \cup {[type |-> "alert_queued", dev |-> Head(intents[p]), at |-> clock]}
    BY <1>7 DEF QueueAlert, TypeOK
  <2>4. now[p] <= clock /\ clock \in Nat
    BY DEF TimeInv, TypeOK
  <2>5. ASSUME NEW e \in tx'[p], e.type = "alert_sent"
        PROVE Spaced(e.dev, now[p]) /\ now[p] <= e.at /\ e.at <= clock
    BY <2>3, <2>4, <2>5 DEF DueInv, Due, Stamp
  <2>6. Due(p)'
    BY <2>1, <2>2, <2>5 DEF DueInv, Due, Spaced
  <2>7. \A q \in Scanners \ {p} : UNCHANGED <<pc[q], added[q], tx[q]>>
    BY <1>7 DEF QueueAlert, TypeOK
  <2> QED
    BY <2>1, <2>6, <2>7, DueOfOne DEF Forgets
<1>8. ASSUME NEW p \in Scanners, AddOutcome(p) PROVE DueInv'
  <2>1. UNCHANGED <<clock, now, recorded, cooling, tx>> /\ pc'[p] = "queue"
    BY <1>8 DEF AddOutcome, TypeOK
  <2>2. intents[p] # <<>> /\ intents[p] \in Seq(Ids)
    BY <1>8 DEF AddOutcome, SendHasIntent, TypeOK
  <2>3. intents'[p] = Tail(intents[p])
    BY <1>8 DEF AddOutcome, TypeOK
  <2>4. Spaced(Head(intents[p]), now[p])
    BY <2>2 DEF DueInv, Due
  <2>5. \A r \in added'[p] : r.dev = Head(intents[p])
    BY <1>8 DEF AddOutcome, TypeOK
  <2>6. \A i \in 1..Len(intents'[p]) : Spaced(intents'[p][i], now[p])
    BY <2>2, <2>3 DEF DueInv, Due
  <2>7. Due(p)'
    BY <2>1, <2>4, <2>5, <2>6 DEF DueInv, Due, Spaced
  <2>8. \A q \in Scanners \ {p} : UNCHANGED <<pc[q], added[q], intents[q]>>
    BY <1>8 DEF AddOutcome, TypeOK
  <2> QED
    BY <2>1, <2>7, <2>8, DueOfOne DEF Forgets
<1>9. ASSUME NEW p \in Scanners, RecordDelivery(p) PROVE DueInv'
  <2> SUFFICES ASSUME NEW q \in Scanners PROVE Due(q)'
    BY DEF DueInv
  <2>1. Leave(p, "ok") /\ pc[p] = "queue"
    BY <1>9 DEF RecordDelivery
  <2>2. CASE q = p
    BY <2>1, <2>2, DueEmpty DEF Leave, TypeOK
  <2>3. CASE q # p
    <3>1. pc[q] = "idle"
      BY <2>1, <2>3 DEF LockDiscipline
    <3>2. UNCHANGED <<pc[q], intents[q], added[q], tx[q]>>
      BY <2>1, <2>3 DEF Leave, TypeOK
    <3> QED
      BY <3>1, <3>2, DueEmpty DEF QuietInv
  <2> QED
    BY <2>2, <2>3
<1>10. ASSUME NEW p \in Scanners,
              \/ RecordFailure(p) \/ InsertFails(p) \/ CommitFails(p) \/ NothingToDeliver(p)
              \/ QueueFails(p) \/ RecordFails(p) \/ WriteFails(p)
       PROVE DueInv'
  <2>1. UNCHANGED <<clock, recorded>> /\ \E how : Leave(p, how)
    BY <1>10 DEF RecordFailure, InsertFails, CommitFails, NothingToDeliver, QueueFails,
       RecordFails, WriteFails
  <2> QED
    BY <1>1, <2>1
<1>11. CASE \E d \in Ids : DeleteDevice(d)
  <2>1. UNCHANGED <<now, cooling, intents, added, tx, clock, pc>> /\ Forgets
    BY <1>11 DEF DeleteDevice, TypeOK, Forgets
  <2> QED
    BY <2>1, DueFrame DEF TypeOK
<1>12. CASE Tick
  <2>1. UNCHANGED <<now, cooling, intents, added, tx, recorded, pc>> /\ clock' = clock + 1
    BY <1>12 DEF Tick
  <2> QED
    BY <2>1, DueFrame DEF TypeOK, Forgets
<1>13. CASE Crash
  BY <1>13, DueEmpty DEF Crash, DueInv
<1>14. ASSUME \/ \E ds, s : SetStatus(ds, s)
              \/ \E ms : ImportTrusted(ms)
              \/ CreateChannel \/ \E c : DeleteChannel(c)
              \/ Retain \/ OuiBegin \/ OuiEnd \/ UNCHANGED vars
       PROVE DueInv'
  <2>1. UNCHANGED <<now, cooling, intents, added, tx, recorded, clock, pc>>
    BY <1>14 DEF SetStatus, ImportTrusted, CreateChannel, DeleteChannel, Retain, OuiBegin, OuiEnd,
       vars
  <2> QED
    BY <1>2, <2>1
<1> QED
  BY <1>3, <1>4, <1>5, <1>6, <1>7, <1>8, <1>9, <1>10, <1>11, <1>12, <1>13, <1>14
     DEF Next, ScanStep

-----------------------------------------------------------------------------
\* The inductive invariant of the cooldown holds when the program starts.
LEMMA AlertInit == Init => AlertInv
  BY TypeInit, LockInit, Numbers
     DEF Init, AlertInv, TimeInv, LedgerInv, QuietInv, DueInv, Due, Never

\* The inductive invariant of the cooldown is kept by every step.
LEMMA AlertNext ==
  ASSUME RetentionCoversCooldown PROVE AlertInv /\ [Next]_vars => AlertInv'
  BY TypeNext, SendNext, LockNext, TimeNext, QuietNext, LedgerNext, DueNext DEF AlertInv, TypeInv

\* What a step does to the recorded alerts: a delivery records new ones that are
\* due and not in the future, a deletion forgets them.
LEMMA RecordStep ==
  ASSUME AlertInv, NEW p \in Scanners, RecordDelivery(p), NEW d \in Ids
  PROVE  \/ recorded'[d] = recorded[d]
         \/ /\ recorded'[d] \in 0..clock
            /\ recorded[d] = Never \/ recorded[d] + Cooldown < recorded'[d]
<1> USE Numbers DEF AlertInv, TypeInv
<1>1. CASE NewSent(p, d) = {}
  BY <1>1 DEF RecordDelivery
<1>2. CASE NewSent(p, d) # {}
  <2>1. PICK e \in NewSent(p, d) : recorded'[d] = e.at
    BY <1>2 DEF RecordDelivery
  <2>2. now[p] \in Nat /\ clock \in Nat /\ now[p] <= clock
    BY DEF TypeOK, TimeInv
  <2>3. e.at \in Nat /\ now[p] <= e.at /\ e.at <= clock /\ Spaced(d, now[p])
    <3>1. CASE e \in tx[p]
      BY <2>1, <3>1 DEF NewSent, DueInv, Due, TypeOK, EventRows
    <3>2. CASE e \in Stamp(added[p])
      BY <2>1, <2>2, <3>2 DEF NewSent, Stamp, DueInv, Due
    <3> QED
      BY <2>1, <3>1, <3>2 DEF NewSent, NewEvents
  <2>4. recorded[d] = Never \/ recorded[d] \in Nat
    BY DEF TypeOK
  <2> QED
    BY <2>1, <2>2, <2>3, <2>4 DEF Spaced
<1> QED
  BY <1>1, <1>2

\* Only four kinds of step touch the clock or the recorded alerts.
LEMMA RecordedOnlyBy ==
  ASSUME [Next]_vars
  PROVE  \/ \E p \in Scanners : RecordDelivery(p)
         \/ \E d \in Ids : DeleteDevice(d)
         \/ Tick
         \/ UNCHANGED <<clock, recorded>>
<1> DEFINE Kept == UNCHANGED <<clock, recorded>>
<1>1. ASSUME NEW p \in Scanners
      PROVE Busy(p) \/ Acquire(p) \/ Release(p) => Kept
  BY DEF Busy, Acquire, Release, past
<1>2. ASSUME NEW p \in Scanners
      PROVE BeginScan(p) \/ FetchClients(p) \/ FetchFails(p) \/ RecordFailure(p) \/ LoadDevices(p)
              => Kept
  BY DEF BeginScan, FetchClients, FetchFails, RecordFailure, LoadDevices, past
<1>3. ASSUME NEW p \in Scanners
      PROVE UpdateDevice(p) \/ InsertDevice(p) \/ InsertFails(p) \/ ReadCooldown(p) => Kept
  BY DEF UpdateDevice, InsertDevice, InsertFails, ReadCooldown, past
<1>4. ASSUME NEW p \in Scanners
      PROVE ChooseIntent(p) \/ CommitScan(p) \/ CommitFails(p) \/ NothingToDeliver(p) => Kept
  BY DEF ChooseIntent, CommitScan, CommitFails, NothingToDeliver, past
<1>5. ASSUME NEW p \in Scanners
      PROVE OpenDelivery(p) \/ QueueAlert(p) \/ QueueFails(p) \/ SendAlert(p) \/ LoseAnswer(p)
              => Kept
  BY DEF OpenDelivery, QueueAlert, QueueFails, SendAlert, LoseAnswer, Accept, past
<1>6. ASSUME NEW p \in Scanners
      PROVE SendFails(p) \/ AddOutcome(p) \/ RecordFails(p) \/ WriteFails(p) => Kept
  BY DEF SendFails, AddOutcome, RecordFails, WriteFails, past
<1>7. ASSUME NEW p \in Scanners
      PROVE ScanStep(p) => RecordDelivery(p) \/ Kept
  BY <1>1, <1>2, <1>3, <1>4, <1>5, <1>6 DEF ScanStep
<1>8. ASSUME NEW ds, NEW s, SetStatus(ds, s) PROVE Kept
  BY <1>8 DEF SetStatus, others
<1>9. ASSUME NEW ms, ImportTrusted(ms) PROVE Kept
  BY <1>9 DEF ImportTrusted, others, past
<1>10. ASSUME NEW c, DeleteChannel(c) PROVE Kept
  BY <1>10 DEF DeleteChannel, others, past
<1>11. CreateChannel \/ Retain => Kept
  BY DEF CreateChannel, Retain, others, past
<1>12. OuiBegin \/ OuiEnd \/ Crash => Kept
  BY DEF OuiBegin, OuiEnd, Crash, others, past
<1>13. UNCHANGED vars => Kept
  BY DEF vars, past
<1> HIDE DEF Kept
<1>14. \/ \E p \in Scanners : RecordDelivery(p)
       \/ \E d \in Ids : DeleteDevice(d)
       \/ Tick
       \/ Kept
  BY <1>1, <1>7, <1>8, <1>9, <1>10, <1>11, <1>12, <1>13 DEF Next
<1> QED
  BY <1>14 DEF Kept

\* Two alerts recorded for one device are always more than the cooldown apart,
\* whatever scans, administrators, retention and crashes do in between, provided
\* that events are kept longer than the cooldown.
THEOREM AlertsRespectCooldown ==
  ASSUME RetentionCoversCooldown PROVE Spec => CooldownKept
<1>1. AlertInv /\ [Next]_vars => AlertInv'
  BY AlertNext
<1>2. AlertInv /\ [Next]_vars => [SpacedAlerts]_vars
  <2> SUFFICES ASSUME AlertInv, [Next]_vars, NEW d \in Ids
               PROVE \/ recorded'[d] = recorded[d]
                     \/ recorded[d] = Never \/ recorded'[d] = Never
                     \/ recorded'[d] > recorded[d] + Cooldown
    BY DEF SpacedAlerts
  <2>1. ASSUME NEW p \in Scanners, RecordDelivery(p)
        PROVE \/ recorded'[d] = recorded[d]
              \/ recorded[d] = Never
              \/ recorded'[d] > recorded[d] + Cooldown
    <3>1. recorded[d] = Never \/ recorded[d] \in Nat
      BY DEF AlertInv, TypeInv, TypeOK
    <3>2. clock \in Nat
      BY DEF AlertInv, TypeInv, TypeOK
    <3> QED
      BY <2>1, <3>1, <3>2, RecordStep, Numbers
  <2>2. ASSUME NEW c \in Ids, DeleteDevice(c)
        PROVE recorded'[d] = recorded[d] \/ recorded'[d] = Never
    BY <2>2 DEF DeleteDevice, AlertInv, TypeInv, TypeOK
  <2>3. Tick => recorded' = recorded
    BY DEF Tick, past
  <2> QED
    BY <2>1, <2>2, <2>3, RecordedOnlyBy
<1> QED
  BY AlertInit, <1>1, <1>2, PTL DEF Spec, CooldownKept

\* Scanner implements AlertPolicy: whatever a step of the program does, the
\* recorded alerts change only as the policy on repeat alerts allows.
THEOREM ScannerImplementsPolicy ==
  ASSUME RetentionCoversCooldown PROVE Spec => PolicyKept
<1>1. AlertInv /\ [Next]_vars => AlertInv'
  BY AlertNext
<1>2. Init => Policy!Init
  BY DEF Init, Policy!Init, Policy!Never, Never
<1>3. AlertInv /\ [Next]_vars => [Policy!Next]_(Policy!vars)
  <2> SUFFICES ASSUME AlertInv, [Next]_vars PROVE Policy!Next \/ UNCHANGED Policy!vars
    OBVIOUS
  <2> USE DEF Never, Policy!Never
  <2>1. recorded \in [Ids -> Nat \cup {Never}]
    BY DEF AlertInv, TypeInv, TypeOK
  <2>2. ASSUME NEW p \in Scanners, RecordDelivery(p) PROVE Policy!Next
    <3> DEFINE B == {d \in Ids : recorded'[d] # recorded[d]}
               at == [d \in B |-> recorded'[d]]
    <3>1. at \in [B -> 0..clock]
      BY <2>2, RecordStep
    <3>2. \A d \in B : Policy!Due(d, at[d])
      BY <2>2, RecordStep DEF Policy!Due
    <3>3. recorded' = [d \in Ids |-> IF d \in B THEN at[d] ELSE recorded[d]]
      <4>1. recorded' = [d \in Ids |-> recorded'[d]]
        BY <2>2 DEF RecordDelivery
      <4> QED
        BY <4>1
    <3>4. UNCHANGED clock
      BY <2>2 DEF RecordDelivery
    <3>5. Policy!Record(B)
      BY <3>1, <3>2, <3>3, <3>4 DEF Policy!Record
    <3> QED
      BY <3>5 DEF Policy!Next
  <2>3. ASSUME NEW d \in Ids, DeleteDevice(d) PROVE Policy!Next
    BY <2>3 DEF DeleteDevice, others, Policy!Forget, Policy!Next
  <2>4. Tick => Policy!Next
    BY DEF Tick, past, Policy!Tick, Policy!Next
  <2>5. UNCHANGED <<clock, recorded>> => UNCHANGED Policy!vars
    BY DEF Policy!vars
  <2> QED
    BY <2>2, <2>3, <2>4, <2>5, RecordedOnlyBy
<1> QED
  BY AlertInit, <1>1, <1>2, <1>3, PTL DEF Spec, PolicyKept, Policy!Spec

-----------------------------------------------------------------------------
(* The delivery: what its transaction holds when it commits *)

Outcomes == {"alert_sent", "alert_failed"}

\* While the session of a delivery holds anything, it holds the write lock.
Holds(p) == pc[p] = "send" \/ tx[p] # {} \/ added[p] # {} => writer = p

\* The devices about which this scan told a provider that said so.
Heard(p) == reached[p] \cap confirmed

\* What says "sent" is about a device some provider confirmed a message about.
Told(p) ==
  /\ \A e \in tx[p] : e.type = "alert_sent" => e.dev \in Heard(p)
  /\ \A r \in added[p] : r.type = "alert_sent" => r.dev \in Heard(p)
  /\ pc[p] = "send" /\ okay[p] => Head(intents[p]) \in Heard(p)

\* The intents differ, and only the one being sent has rows in the session.
Single(p) ==
  /\ \A i, j \in 1..Len(intents[p]) : intents[p][i] = intents[p][j] => i = j
  /\ pc[p] = "choose" => \A i \in 1..Len(intents[p]) : intents[p][i] \in cooling[p]
  /\ \A i \in 1..Len(intents[p]) :
       /\ \A e \in tx[p] : e.dev = intents[p][i] => i = 1 /\ pc[p] = "send"
       /\ \A r \in added[p] : r.dev = intents[p][i] => i = 1 /\ pc[p] = "send"

\* A queued alert has its outcome in the session, or is the one being sent.
Answered(p) ==
  /\ \A r \in added[p] : r.type \in Outcomes
  /\ pc[p] = "send" => added[p] = {}
  /\ \A q \in tx[p] : q.type = "alert_queued" =>
       /\ q.at <= clock
       /\ \/ pc[p] = "send" /\ q.dev = Head(intents[p])
          \/ \E r \in added[p] : r.dev = q.dev
          \/ \E e \in tx[p] : e.type \in Outcomes /\ e.dev = q.dev /\ e.at >= q.at

Mail(p) == Holds(p) /\ Told(p) /\ Single(p) /\ Answered(p)
MailInv == \A p \in Scanners : Mail(p)

\* A scan that is not choosing or delivering has no mail to speak of.
LEMMA MailEmpty ==
  ASSUME NEW q \in Scanners, pc'[q] # "send",
         intents'[q] = <<>>, added'[q] = {}, tx'[q] = {}
  PROVE  Mail(q)'
  BY DEF Mail, Holds, Told, Single, Answered

\* Only the scan that holds _scan_lock has mail.
LEMMA MailOfHolder ==
  ASSUME LockDiscipline, QuietInv, NEW q \in Scanners, scanLock # q
  PROVE  pc[q] = "idle" /\ intents[q] = <<>> /\ added[q] = {} /\ tx[q] = {}
  BY DEF LockDiscipline, QuietInv

\* A step of somebody else: while the session holds rows, so does the lock, and a
\* deletion, which would forget that a provider was reached, has to wait.
LEMMA MailKept ==
  ASSUME TypeOK, NEW q \in Scanners, Mail(q),
         UNCHANGED <<pc[q], intents[q], added[q], tx[q], okay[q], cooling[q]>>,
         writer = q => writer' = q /\ Heard(q)' = Heard(q),
         clock <= clock', clock' \in Nat
  PROVE  Mail(q)'
<1>1. Holds(q)'
  BY DEF Mail, Holds
<1>2. Told(q)'
  BY DEF Mail, Holds, Told
<1>3. Single(q)'
  BY DEF Mail, Single
<1>4. \A e \in tx[q] : e.at \in Nat
  BY DEF TypeOK, EventRows
<1>5. clock \in Nat
  BY DEF TypeOK
<1>6. Answered(q)'
  BY <1>4, <1>5 DEF Mail, Answered
<1> QED
  BY <1>1, <1>2, <1>3, <1>6 DEF Mail

\* The candidates become intents, each device once.
LEMMA MailChoose ==
  ASSUME TypeOK, QuietInv, NEW p \in Scanners, Mail(p), ChooseIntent(p)
  PROVE  Mail(p)'
<1> DEFINE d == Head(candidates[p])
<1>1. pc[p] = "choose" /\ pc' = pc /\ d \in Ids /\ intents[p] \in Seq(Ids)
      /\ cooling'[p] = cooling[p] \cup {d}
      /\ intents'[p] = IF d \in cooling[p] THEN intents[p] ELSE Append(intents[p], d)
  BY DEF ChooseIntent, At, TypeOK
<1>2. tx[p] = {} /\ added[p] = {} /\ tx' = tx /\ added' = added
  BY <1>1 DEF QuietInv, ChooseIntent
<1>3. Single(p)
  BY DEF Mail
<1> HIDE DEF d
<1>4. Single(p)'
  <2>1. CASE d \in cooling[p]
    BY <1>1, <1>2, <1>3, <2>1 DEF Single
  <2>2. CASE d \notin cooling[p]
    <3>1. intents'[p] = Append(intents[p], d)
      BY <1>1, <2>2
    <3>2. \A i \in 1..Len(intents[p]) : intents[p][i] # d /\ intents[p][i] \in cooling[p]
      BY <1>1, <1>3, <2>2 DEF Single
    <3>3. Len(intents'[p]) = Len(intents[p]) + 1 /\ intents'[p][Len(intents[p]) + 1] = d
          /\ \A i \in 1..Len(intents[p]) : intents'[p][i] = intents[p][i]
      BY <1>1, <3>1
    <3>4. Len(intents[p]) \in Nat
      BY <1>1
    <3>5. \A i, j \in 1..Len(intents'[p]) : intents'[p][i] = intents'[p][j] => i = j
      <4> DEFINE n == Len(intents[p])
      <4>1. \A i, j \in 1..n : intents[p][i] = intents[p][j] => i = j
        BY <1>3 DEF Single
      <4>2. \A i \in 1..Len(intents'[p]) : i \in 1..n \/ i = n + 1
        BY <3>3, <3>4
      <4> QED
        BY <3>2, <3>3, <4>1, <4>2
    <3>6. \A i \in 1..Len(intents'[p]) : intents'[p][i] \in cooling'[p]
      BY <1>1, <3>2, <3>3, <3>4
    <3> QED
      BY <1>2, <3>5, <3>6 DEF Single
  <2> QED
    BY <2>1, <2>2
<1> QED
  BY <1>1, <1>2, <1>4 DEF Mail, Holds, Told, Answered

\* alert_queued joins the session; what waited there is flushed with it.
LEMMA MailQueue ==
  ASSUME TypeOK, NEW p \in Scanners, Mail(p), QueueAlert(p)
  PROVE  Mail(p)'
<1> DEFINE d == Head(intents[p])
           queued == [type |-> "alert_queued", dev |-> d, at |-> clock]
<1>1. pc[p] = "queue" /\ pc'[p] = "send" /\ intents' = intents /\ intents[p] # <<>>
      /\ intents[p] \in Seq(Ids) /\ Heard(p)' = Heard(p) /\ clock' = clock /\ writer' = p
      /\ added'[p] = {} /\ okay'[p] = FALSE
      /\ tx'[p] = tx[p] \cup Stamp(added[p]) \cup {queued}
  BY DEF QueueAlert, At, Goto, TypeOK, past, batch, Heard
<1>2. d \in Ids /\ d = intents[p][1] /\ Len(intents[p]) \in Nat /\ 1 \in 1..Len(intents[p])
  BY <1>1
<1>3. queued.type = "alert_queued" /\ queued.dev = d /\ queued.at = clock /\ clock \in Nat
  BY DEF TypeOK
<1>4. \A e \in Stamp(added[p]) : e.at = clock /\ \E r \in added[p] : e.type = r.type /\ e.dev = r.dev
  BY DEF Stamp
<1>5. \A r \in added[p] : \E e \in Stamp(added[p]) : e.at = clock /\ e.type = r.type /\ e.dev = r.dev
  <2> TAKE r \in added[p]
  <2>1. [type |-> r.type, dev |-> r.dev, at |-> clock] \in Stamp(added[p])
    BY DEF Stamp
  <2> QED
    BY <2>1
<1> HIDE DEF d, queued
<1>6. Told(p)'
  BY <1>1, <1>3, <1>4 DEF Mail, Told
<1>7. Single(p)'
  <2>1. \A i \in 1..Len(intents[p]) : \A e \in tx[p] : e.dev # intents[p][i]
    BY <1>1 DEF Mail, Single
  <2>2. \A i \in 1..Len(intents[p]) : \A e \in Stamp(added[p]) : e.dev # intents[p][i]
    BY <1>1, <1>4 DEF Mail, Single
  <2>3. \A i, j \in 1..Len(intents[p]) : intents[p][i] = intents[p][j] => i = j
    BY DEF Mail, Single
  <2>4. \A i \in 1..Len(intents[p]) : queued.dev = intents[p][i] => i = 1
    BY <1>2, <1>3, <2>3
  <2> QED
    BY <1>1, <2>1, <2>2, <2>3, <2>4 DEF Single
<1>8. Answered(p)'
  <2> SUFFICES ASSUME NEW q \in tx'[p], q.type = "alert_queued"
               PROVE /\ q.at <= clock
                     /\ \/ q.dev = d
                        \/ \E e \in tx'[p] : e.type \in Outcomes /\ e.dev = q.dev /\ e.at >= q.at
    BY <1>1 DEF Answered, d
  <2>1. CASE q \in tx[p]
    <3>1. q.at <= clock
          /\ \/ \E r \in added[p] : r.dev = q.dev
             \/ \E e \in tx[p] : e.type \in Outcomes /\ e.dev = q.dev /\ e.at >= q.at
      BY <1>1, <2>1 DEF Mail, Answered
    <3>2. CASE \E r \in added[p] : r.dev = q.dev
      <4>1. PICK r \in added[p] : r.dev = q.dev
        BY <3>2
      <4>2. r.type \in Outcomes
        BY DEF Mail, Answered
      <4>3. PICK e \in Stamp(added[p]) : e.at = clock /\ e.type = r.type /\ e.dev = r.dev
        BY <1>5
      <4> QED
        BY <1>1, <1>3, <2>1, <3>1, <4>1, <4>2, <4>3 DEF TypeOK, EventRows
    <3> QED
      BY <1>1, <3>1, <3>2
  <2>2. CASE q \in Stamp(added[p])
    <3>1. q.type \in Outcomes
      BY <1>4, <2>2 DEF Mail, Answered
    <3> QED
      BY <3>1 DEF Outcomes
  <2>3. CASE q = queued
    BY <1>3, <2>3
  <2> QED
    BY <1>1, <2>1, <2>2, <2>3
<1> QED
  BY <1>1, <1>6, <1>7, <1>8 DEF Mail, Holds

\* The outcome of the intent joins the session, and the intent is done with.
LEMMA MailOutcome ==
  ASSUME TypeOK, SendHasIntent, NEW p \in Scanners, Mail(p), AddOutcome(p)
  PROVE  Mail(p)'
<1> DEFINE d == Head(intents[p])
           row == [type |-> IF okay[p] THEN "alert_sent" ELSE "alert_failed", dev |-> d]
<1>1. pc[p] = "send" /\ pc'[p] = "queue" /\ intents'[p] = Tail(intents[p]) /\ intents[p] # <<>>
      /\ intents[p] \in Seq(Ids) /\ Heard(p)' = Heard(p) /\ clock' = clock /\ writer' = writer
      /\ added'[p] = {row} /\ tx' = tx
  BY DEF AddOutcome, At, Goto, TypeOK, SendHasIntent, past, batch, Heard
<1>2. d \in Ids /\ d = intents[p][1]
  BY <1>1
<1>3. row.dev = d /\ row.type \in Outcomes /\ (row.type = "alert_sent" => okay[p] = TRUE)
  BY DEF Outcomes, TypeOK
<1>4. /\ Len(intents'[p]) = Len(intents[p]) - 1 /\ Len(intents[p]) \in Nat \ {0}
      /\ \A i \in 1..Len(intents'[p]) : intents'[p][i] = intents[p][i + 1]
  BY <1>1
<1>5. okay[p] = TRUE => d \in Heard(p)
  BY <1>1 DEF Mail, Told
<1>6. \A q \in tx[p] : q.type = "alert_queued" =>
        /\ q.at <= clock
        /\ \/ q.dev = d
           \/ \E r \in added[p] : r.dev = q.dev
           \/ \E e \in tx[p] : e.type \in Outcomes /\ e.dev = q.dev /\ e.at >= q.at
  BY <1>1 DEF Mail, Answered
<1> HIDE DEF d, row
<1>7. Told(p)'
  BY <1>1, <1>3, <1>5 DEF Mail, Told
<1>8. Single(p)'
  <2>1. \A i \in 1..Len(intents[p]) : \A e \in tx[p] : e.dev = intents[p][i] => i = 1
    BY DEF Mail, Single
  <2>2. \A i, j \in 1..Len(intents[p]) : intents[p][i] = intents[p][j] => i = j
    BY DEF Mail, Single
  <2>3. \A i \in 1..Len(intents'[p]) : i + 1 \in 1..Len(intents[p]) /\ i + 1 # 1
    BY <1>4
  <2>4. 1 \in 1..Len(intents[p])
    BY <1>4
  <2>5. \A i \in 1..Len(intents'[p]) : intents'[p][i] # d
    BY <1>2, <1>4, <2>2, <2>3, <2>4
  <2>6. \A i \in 1..Len(intents'[p]) : \A e \in tx[p] : e.dev # intents'[p][i]
    BY <1>4, <2>1, <2>3
  <2>7. \A i, j \in 1..Len(intents'[p]) : intents'[p][i] = intents'[p][j] => i = j
    BY <1>4, <2>2, <2>3
  <2> QED
    BY <1>1, <1>3, <2>5, <2>6, <2>7 DEF Single
<1>9. Answered(p)'
  <2>1. added[p] = {}
    BY <1>1 DEF Mail, Answered
  <2>2. row \in added'[p] /\ pc'[p] # "send" /\ \A r \in added'[p] : r.type \in Outcomes
    BY <1>1, <1>3
  <2> QED
    BY <1>1, <1>3, <1>6, <2>1, <2>2 DEF Answered
<1> QED
  BY <1>1, <1>7, <1>8, <1>9 DEF Mail, Holds

\* Every step keeps what the delivery's session promises.
LEMMA MailNext ==
  TypeInv /\ LockDiscipline /\ QuietInv /\ MailInv /\ [Next]_vars => MailInv'
<1> SUFFICES ASSUME TypeOK, SendHasIntent, LockDiscipline, QuietInv, MailInv, [Next]_vars
             PROVE MailInv'
  BY DEF TypeInv
<1> USE Numbers DEF tables, batch, mail, past, others, At, Goto
<1>q. QuietInv' /\ LockDiscipline'
  BY QuietNext, LockNext
<1>e. ASSUME NEW q \in Scanners, pc'[q] \notin {"choose", "deliver", "queue", "send"} PROVE Mail(q)'
  BY <1>q, <1>e, MailEmpty DEF QuietInv
<1>o. ASSUME NEW p \in Scanners, ScanStep(p), Mail(p)' PROVE MailInv'
  <2>1. scanLock = p /\ scanLock' \in {p, NoOne}
    <3>1. pc[p] # "idle"
      BY <1>o DEF ScanStep, BeginScan, FetchClients, FetchFails, RecordFailure, LoadDevices,
         UpdateDevice, InsertDevice, InsertFails, ReadCooldown, ChooseIntent, CommitScan, CommitFails,
         CommitReady, NothingToDeliver, OpenDelivery, QueueAlert, QueueFails, SendAlert,
         LoseAnswer, Accept, SendFails, AddOutcome, RecordDelivery, RecordFails, WriteFails, WaitsToWrite, Release
    <3>2. scanLock' \in {scanLock, NoOne}
      BY <1>o DEF ScanStep, BeginScan, FetchClients, FetchFails, RecordFailure, LoadDevices,
         UpdateDevice, InsertDevice, InsertFails, ReadCooldown, ChooseIntent, CommitScan, CommitFails,
         NothingToDeliver, OpenDelivery, QueueAlert, QueueFails, SendAlert,
         LoseAnswer, Accept, SendFails, AddOutcome, RecordDelivery, RecordFails, WriteFails, Release
    <3> QED
      BY <3>1, <3>2 DEF LockDiscipline
  <2>2. ASSUME NEW q \in Scanners, q # p PROVE Mail(q)'
    <3>1. scanLock' # q
      BY <2>1, <2>2, OwnersAssumption
    <3> QED
      BY <1>e, <1>q, <3>1 DEF LockDiscipline
  <2> QED
    BY <1>o, <2>2 DEF MailInv
<1>1. ASSUME NEW p \in Scanners,
             \/ BeginScan(p) \/ FetchClients(p) \/ FetchFails(p) \/ RecordFailure(p)
             \/ LoadDevices(p) \/ UpdateDevice(p) \/ InsertDevice(p) \/ InsertFails(p)
             \/ CommitFails(p) \/ NothingToDeliver(p) \/ QueueFails(p) \/ RecordDelivery(p)
             \/ RecordFails(p) \/ WriteFails(p) \/ Release(p)
      PROVE MailInv'
  <2>1. pc'[p] \in {"fetch", "load", "fail", "upsert", "release", "idle"}
    BY <1>1 DEF BeginScan, FetchClients, FetchFails, RecordFailure, LoadDevices, UpdateDevice,
       InsertDevice, InsertFails, CommitFails, NothingToDeliver, QueueFails, RecordDelivery,
       RecordFails, WriteFails, Release, Leave, TypeOK
  <2> QED
    BY <1>1, <1>e, <1>o, <2>1 DEF ScanStep
<1>2. ASSUME NEW p \in Scanners, ReadCooldown(p) \/ CommitScan(p) \/ OpenDelivery(p) PROVE MailInv'
  <2>1. pc[p] \in {"upsert", "choose", "deliver"} /\ pc'[p] \in {"choose", "deliver", "queue"}
        /\ UNCHANGED <<intents, added, tx>>
    BY <1>2 DEF ReadCooldown, CommitScan, CommitReady, OpenDelivery, TypeOK
  <2>2. added'[p] = {} /\ tx'[p] = {}
    BY <2>1 DEF QuietInv
  <2>3. pc'[p] = "choose" => intents'[p] = <<>>
    BY <1>2, <2>1 DEF ReadCooldown, CommitScan, OpenDelivery, QuietInv, TypeOK
  <2>4. Single(p)'
    BY <2>1, <2>2, <2>3 DEF MailInv, Mail, Single
  <2>5. Mail(p)'
    BY <2>1, <2>2, <2>4 DEF Mail, Holds, Told, Answered
  <2> QED
    BY <1>2, <1>o, <2>5 DEF ScanStep
<1>3. ASSUME NEW p \in Scanners, ChooseIntent(p) PROVE MailInv'
  BY <1>3, <1>o, MailChoose DEF ScanStep, MailInv
<1>4. ASSUME NEW p \in Scanners, QueueAlert(p) PROVE MailInv'
  BY <1>4, <1>o, MailQueue DEF ScanStep, MailInv
<1>5. ASSUME NEW p \in Scanners, AddOutcome(p) PROVE MailInv'
  BY <1>5, <1>o, MailOutcome DEF ScanStep, MailInv
<1>6. ASSUME NEW p \in Scanners, SendAlert(p) \/ LoseAnswer(p) \/ SendFails(p) PROVE MailInv'
  <2>1. pc' = pc /\ pc[p] = "send" /\ UNCHANGED <<intents, added, tx, clock, writer>>
    BY <1>6 DEF SendAlert, LoseAnswer, Accept, SendFails
  <2>2. Heard(p) \subseteq Heard(p)' /\ (okay'[p] => okay[p] \/ Head(intents[p]) \in Heard(p)')
    BY <1>6 DEF SendAlert, LoseAnswer, Accept, SendFails, TypeOK, Heard
  <2>3. Told(p)'
    BY <2>1, <2>2 DEF MailInv, Mail, Told
  <2>4. Mail(p)'
    BY <2>1, <2>3 DEF MailInv, Mail, Holds, Single, Answered
  <2> QED
    BY <1>6, <1>o, <2>4 DEF ScanStep
<1>7. ASSUME NEW p \in Scanners, Busy(p) PROVE MailInv'
  <2>1. UNCHANGED <<pc, intents, added, tx, okay, cooling, clock, reached, confirmed, writer>>
    BY <1>7 DEF Busy
  <2>2. clock \in Nat
    BY DEF TypeOK
  <2> QED
    BY <2>1, <2>2, MailKept DEF MailInv, Heard
<1>8. ASSUME NEW p \in Scanners, Acquire(p) PROVE MailInv'
  <2>1. ASSUME NEW q \in Scanners PROVE pc'[q] \in {"idle", "start"}
    BY <1>8, OwnersAssumption DEF Acquire, LockDiscipline, TypeOK
  <2> QED
    BY <1>e, <2>1 DEF MailInv
<1>9. ASSUME NEW d \in Ids, DeleteDevice(d) PROVE MailInv'
  <2>1. UNCHANGED <<pc, intents, added, tx, okay, cooling, clock>> /\ writer = NoOne
    BY <1>9 DEF DeleteDevice
  <2>2. clock \in Nat /\ \A q \in Scanners : writer # q
    BY <2>1, OwnersAssumption DEF TypeOK
  <2> QED
    BY <2>1, <2>2, MailKept DEF MailInv
<1>10. CASE Tick
  BY <1>10, MailKept DEF Tick, MailInv, TypeOK, Heard
<1>11. CASE \/ \E ds, s : SetStatus(ds, s)
            \/ \E ms : ImportTrusted(ms)
            \/ CreateChannel \/ \E c : DeleteChannel(c)
            \/ Retain \/ OuiBegin \/ OuiEnd \/ UNCHANGED vars
  <2>1. UNCHANGED <<pc, intents, added, tx, okay, cooling, clock, reached, confirmed>>
    BY <1>11 DEF SetStatus, ImportTrusted, CreateChannel, DeleteChannel, Retain, OuiBegin, OuiEnd,
       vars
  <2>2. ASSUME NEW q \in Scanners, writer = q PROVE writer' = q
    BY <1>11, <2>2, OwnersAssumption DEF SetStatus, ImportTrusted, CreateChannel, DeleteChannel,
       Retain, OuiBegin, OuiEnd, vars
  <2> QED
    BY <2>1, <2>2, MailKept DEF MailInv, TypeOK, Heard
<1>12. CASE Crash
  BY <1>12, <1>e DEF Crash, MailInv
<1> QED
  BY <1>1, <1>2, <1>3, <1>4, <1>5, <1>6, <1>7, <1>8, <1>9, <1>10, <1>11, <1>12 DEF Next, ScanStep

DeliveryInv == TypeInv /\ LockDiscipline /\ QuietInv /\ MailInv

\* The session of a delivery keeps its promises in every reachable state.
LEMMA DeliveryInit == Init => DeliveryInv
<1> SUFFICES ASSUME Init PROVE DeliveryInv
  OBVIOUS
<1>1. QuietInv /\ MailInv
  BY DEF Init, QuietInv, MailInv, Mail, Holds, Told, Single, Answered
<1> QED
  BY <1>1, TypeInit, LockInit DEF DeliveryInv

\* Its invariants are kept together.
LEMMA DeliveryNext == DeliveryInv /\ [Next]_vars => DeliveryInv'
  BY TypeNext, SendNext, LockNext, QuietNext, MailNext DEF DeliveryInv, TypeInv

\* scanner.py:366-378: cooldown_ids makes a device an intent once, so one scan
\* never opens a second alert for it, even if the controller reports its MAC twice.
THEOREM OneAlertEach == Spec => []OneAlertPerScan
<1>1. DeliveryInv => OneAlertPerScan
  <2> SUFFICES ASSUME DeliveryInv, NEW p \in Scanners, pc[p] = "queue", intents[p] # <<>>,
                      NEW r \in tx[p] \cup added[p], r.dev = Head(intents[p])
               PROVE FALSE
    BY DEF OneAlertPerScan, At
  <2>1. intents[p] \in Seq(Ids)
    BY DEF DeliveryInv, TypeInv, TypeOK
  <2>2. 1 \in 1..Len(intents[p]) /\ r.dev = intents[p][1]
    BY <2>1
  <2> QED
    BY <2>2 DEF DeliveryInv, MailInv, Mail, Single
<1> QED
  BY <1>1, DeliveryInit, DeliveryNext, PTL DEF Spec

\* Only the commit of a delivery adds alert events; retention and the deletion of
\* a device remove the ones that are too old, or are about it.
LEMMA EventsOnlyBy ==
  ASSUME [Next]_vars
  PROVE  \/ \E p \in Scanners : RecordDelivery(p)
         \/ \E d \in Ids : DeleteDevice(d)
         \/ Retain
         \/ UNCHANGED events
<1> DEFINE Kept == UNCHANGED events
<1> USE DEF tables, others
<1>1. ASSUME NEW p \in Scanners, Busy(p) \/ Acquire(p) \/ (ScanStep(p) /\ ~RecordDelivery(p))
      PROVE Kept
  BY <1>1 DEF Busy, Acquire, ScanStep, BeginScan, FetchClients, FetchFails, RecordFailure,
     LoadDevices, UpdateDevice, InsertDevice, InsertFails, ReadCooldown, ChooseIntent, CommitScan,
     CommitFails, NothingToDeliver, OpenDelivery, QueueAlert, QueueFails, SendAlert, LoseAnswer,
     Accept, SendFails, AddOutcome, RecordFails, WriteFails, Release
<1>2. ASSUME \/ \E ds, s : SetStatus(ds, s)
             \/ \E ms : ImportTrusted(ms)
             \/ CreateChannel \/ \E c : DeleteChannel(c)
             \/ OuiBegin \/ OuiEnd \/ Tick \/ Crash \/ UNCHANGED vars
      PROVE Kept
  BY <1>2 DEF SetStatus, ImportTrusted, CreateChannel, DeleteChannel, OuiBegin, OuiEnd, Tick, Crash,
     vars
<1> HIDE DEF Kept
<1>3. \/ \E p \in Scanners : RecordDelivery(p)
      \/ \E d \in Ids : DeleteDevice(d)
      \/ Retain
      \/ Kept
  BY <1>1, <1>2 DEF Next
<1> QED
  BY <1>3 DEF Kept

\* What a delivery commits as sent is about devices some provider has answered for.
LEMMA SentWereTold ==
  ASSUME DeliveryInv, NEW p \in Scanners, RecordDelivery(p), NEW e \in events' \ events,
         e.type = "alert_sent"
  PROVE  scanLock = p /\ e.dev \in reached[p] \cap confirmed
<1>1. scanLock = p
  BY DEF RecordDelivery, At, DeliveryInv, LockDiscipline
<1>2. Told(p) /\ e \in NewEvents(p)
  BY DEF RecordDelivery, DeliveryInv, MailInv, Mail
<1>3. CASE e \in tx[p]
  BY <1>1, <1>2, <1>3 DEF Told, Heard
<1>4. CASE e \in Stamp(added[p])
  BY <1>1, <1>2, <1>4 DEF Told, Heard, Stamp
<1> QED
  BY <1>1, <1>2, <1>3, <1>4 DEF NewEvents

\* scanner.py:205-222: alert_sent, which starts the cooldown, is written only when a
\* provider confirmed a message about the device in the same scan; failed deliveries
\* and lost answers never silence the next scan.
THEOREM AlertsWereSent == Spec => RecordedAlertsWereSent
<1> DEFINE Step == \A e \in events' \ events : e.type = "alert_sent" =>
                     \E p \in Scanners : scanLock = p /\ e.dev \in reached[p] \cap confirmed
<1>1. DeliveryInv /\ [Next]_vars => [Step]_vars
  <2> SUFFICES ASSUME DeliveryInv, [Next]_vars, NEW e \in events' \ events, e.type = "alert_sent"
               PROVE \E p \in Scanners : scanLock = p /\ e.dev \in reached[p] \cap confirmed
    OBVIOUS
  <2>1. \/ \E p \in Scanners : RecordDelivery(p)
        \/ events' \subseteq events
    BY EventsOnlyBy DEF DeleteDevice, Retain
  <2> QED
    BY <2>1, SentWereTold
<1> QED
  BY <1>1, DeliveryInit, DeliveryNext, PTL DEF Spec, RecordedAlertsWereSent

\* Committed together: the outcome of each queued alert is in the same transaction.
LEMMA OutcomeNext ==
  DeliveryInv /\ QueuedAlertsHaveOutcome /\ [Next]_vars => QueuedAlertsHaveOutcome'
<1> SUFFICES ASSUME DeliveryInv, QueuedAlertsHaveOutcome, [Next]_vars,
                    NEW q \in events', q.type = "alert_queued"
             PROVE \E e \in events' : e.type \in Outcomes /\ e.dev = q.dev /\ e.at >= q.at
  BY DEF QueuedAlertsHaveOutcome, Outcomes
<1>1. ASSUME q \in events
      PROVE \E e \in events : e.type \in Outcomes /\ e.dev = q.dev /\ e.at >= q.at
  BY <1>1 DEF QueuedAlertsHaveOutcome, Outcomes
<1>2. CASE \E p \in Scanners : RecordDelivery(p)
  <2>1. PICK p \in Scanners : RecordDelivery(p)
    BY <1>2
  <2>2. events' = events \cup tx[p] \cup Stamp(added[p]) /\ pc[p] = "queue" /\ Answered(p)
    BY <2>1 DEF RecordDelivery, At, NewEvents, DeliveryInv, MailInv, Mail
  <2>3. CASE q \in tx[p]
    <3>1. q.at <= clock
          /\ \/ \E r \in added[p] : r.dev = q.dev
             \/ \E e \in tx[p] : e.type \in Outcomes /\ e.dev = q.dev /\ e.at >= q.at
      BY <2>2, <2>3 DEF Answered
    <3>2. CASE \E r \in added[p] : r.dev = q.dev
      <4>1. PICK r \in added[p] : r.dev = q.dev
        BY <3>2
      <4> DEFINE row == [type |-> r.type, dev |-> r.dev, at |-> clock]
      <4>2. row \in events'
        BY <2>2 DEF Stamp
      <4>3. row.type \in Outcomes /\ row.dev = q.dev /\ row.at = clock
        BY <2>2, <4>1 DEF Answered
      <4>4. row.at >= q.at
        BY <2>3, <3>1, <4>3 DEF DeliveryInv, TypeInv, TypeOK, EventRows
      <4> QED
        BY <4>2, <4>3, <4>4
    <3> QED
      BY <2>2, <3>1, <3>2
  <2>4. CASE q \in Stamp(added[p])
    BY <2>2, <2>4 DEF Stamp, Answered, Outcomes
  <2>5. CASE q \in events
    BY <1>1, <2>2, <2>5
  <2> QED
    BY <2>2, <2>3, <2>4, <2>5
<1>3. CASE \E d \in Ids : DeleteDevice(d)
  BY <1>1, <1>3 DEF DeleteDevice
<1>4. CASE Retain
  <2>1. events' = {e \in events : e.at >= clock - Retention} /\ clock - Retention \in Int
    BY <1>4, Numbers DEF Retain, DeliveryInv, TypeInv, TypeOK
  <2>2. PICK e \in events : e.type \in Outcomes /\ e.dev = q.dev /\ e.at >= q.at
    BY <1>1, <2>1
  <2>3. e.at \in Nat /\ q.at \in Nat /\ q.at >= clock - Retention
    BY <2>1 DEF DeliveryInv, TypeInv, TypeOK, EventRows
  <2>4. e.at >= clock - Retention
    BY <2>1, <2>2, <2>3
  <2> QED
    BY <2>1, <2>2, <2>4
<1>5. CASE UNCHANGED events
  BY <1>1, <1>5
<1> QED
  BY <1>2, <1>3, <1>4, <1>5, EventsOnlyBy

\* scanner.py:141-222: alert_queued and its outcome are committed by one transaction,
\* so whatever fails, crashes or is retained away, no alert stays queued for ever.
THEOREM AlertsHaveOutcome == Spec => []QueuedAlertsHaveOutcome
<1>1. Init => QueuedAlertsHaveOutcome
  BY DEF Init, QueuedAlertsHaveOutcome
<1> QED
  BY <1>1, OutcomeNext, DeliveryInit, DeliveryNext, PTL DEF Spec

-----------------------------------------------------------------------------
(* What run_scan answers *)

\* Inside a scan there is no answer yet, providers are reached in the delivery
\* only, and a scan that answers with a failure has not come that far.
Silent(p) ==
  /\ pc[p] \notin {"idle", "release"} => answer[p] = "none"
  /\ pc[p] \notin {"queue", "send", "release"} => reached[p] = {}
  /\ answer[p] \in {"failed", "error"} => reached[p] = {}
SilentInv == \A p \in Scanners : Silent(p)

\* A scan that ends before its delivery, or ends it, keeps the promise.
LEMMA SilentLeave ==
  ASSUME TypeOK, SilentInv, NEW p \in Scanners, NEW how, Leave(p, how), UNCHANGED reached,
         how \in {"failed", "error"} => pc[p] \notin {"idle", "queue", "send", "release"}
  PROVE  SilentInv'
<1> SUFFICES ASSUME NEW q \in Scanners PROVE Silent(q)'
  BY DEF SilentInv
<1>1. CASE q = p
  <2>1. pc'[p] = "release" /\ answer'[p] = how
    BY DEF Leave, Goto, TypeOK
  <2> QED
    BY <1>1, <2>1 DEF SilentInv, Silent
<1>2. CASE q # p
  <2>1. pc'[q] = pc[q] /\ answer'[q] = answer[q]
    BY <1>2 DEF Leave, Goto, TypeOK
  <2> QED
    BY <2>1 DEF SilentInv, Silent
<1> QED
  BY <1>1, <1>2

\* Every step keeps a failed scan silent.
LEMMA SilentNext == TypeOK /\ SilentInv /\ [Next]_vars => SilentInv'
<1> SUFFICES ASSUME TypeOK, SilentInv, [Next]_vars PROVE SilentInv'
  OBVIOUS
<1> USE DEF tables, batch, mail, past, others, At, Goto
<1>1. ASSUME UNCHANGED <<answer, reached>>,
             \A q \in Scanners : \/ pc'[q] = pc[q]
                                 \/ /\ pc[q] \notin {"idle", "release", "send"}
                                    /\ pc'[q] \notin {"idle", "release"}
                                    /\ pc[q] = "queue" => pc'[q] = "send"
                                 \/ pc[q] = "send" /\ pc'[q] = "queue"
      PROVE SilentInv'
  BY <1>1 DEF SilentInv, Silent
<1>2. ASSUME NEW p \in Scanners,
             \/ BeginScan(p) \/ FetchClients(p) \/ FetchFails(p) \/ LoadDevices(p)
             \/ UpdateDevice(p) \/ InsertDevice(p) \/ ReadCooldown(p) \/ ChooseIntent(p)
      PROVE SilentInv'
  <2>1. UNCHANGED <<answer, reached>>
    BY <1>2 DEF BeginScan, FetchClients, FetchFails, LoadDevices, UpdateDevice, InsertDevice,
       ReadCooldown, ChooseIntent
  <2>2. pc[p] \in {"start", "fetch", "load", "upsert", "choose"}
        /\ pc'[p] \in {"fetch", "load", "fail", "upsert", "choose"}
        /\ \A q \in Scanners : q # p => pc'[q] = pc[q]
    BY <1>2 DEF BeginScan, FetchClients, FetchFails, LoadDevices, UpdateDevice, InsertDevice,
       ReadCooldown, ChooseIntent, TypeOK
  <2> QED
    BY <1>1, <2>1, <2>2
<1>3. ASSUME NEW p \in Scanners,
             CommitScan(p) \/ OpenDelivery(p) \/ QueueAlert(p) \/ SendFails(p) \/ AddOutcome(p)
      PROVE SilentInv'
  <2>1. UNCHANGED <<answer, reached>>
    BY <1>3 DEF CommitScan, OpenDelivery, QueueAlert, SendFails, AddOutcome
  <2>2. /\ \/ pc'[p] = pc[p]
           \/ pc[p] \in {"choose", "deliver"} /\ pc'[p] \in {"deliver", "queue"}
           \/ pc[p] = "queue" /\ pc'[p] = "send"
           \/ pc[p] = "send" /\ pc'[p] = "queue"
        /\ \A q \in Scanners : q # p => pc'[q] = pc[q]
    BY <1>3 DEF CommitScan, CommitReady, OpenDelivery, QueueAlert, SendFails, AddOutcome, TypeOK
  <2> QED
    BY <1>1, <2>1, <2>2
<1>4. ASSUME NEW p \in Scanners, SendAlert(p) \/ LoseAnswer(p) PROVE SilentInv'
  <2>1. pc[p] = "send" /\ UNCHANGED <<pc, answer>>
        /\ \A q \in Scanners : q # p => reached'[q] = reached[q]
    BY <1>4 DEF SendAlert, LoseAnswer, Accept, TypeOK
  <2> QED
    BY <2>1 DEF SilentInv, Silent
<1>5. ASSUME NEW p \in Scanners,
             \/ RecordFailure(p) \/ InsertFails(p) \/ CommitFails(p) \/ NothingToDeliver(p)
             \/ QueueFails(p) \/ RecordDelivery(p) \/ RecordFails(p) \/ WriteFails(p)
      PROVE SilentInv'
  <2>1. UNCHANGED reached
    BY <1>5 DEF RecordFailure, InsertFails, CommitFails, NothingToDeliver, QueueFails, RecordDelivery,
       RecordFails, WriteFails
  <2>2. \E how : /\ Leave(p, how)
                 /\ how \in {"failed", "error"} => pc[p] \notin {"idle", "queue", "send", "release"}
    BY <1>5 DEF RecordFailure, InsertFails, CommitFails, CommitReady, NothingToDeliver, QueueFails,
       RecordDelivery, RecordFails, WriteFails, WaitsToWrite
  <2> QED
    BY <2>1, <2>2, SilentLeave
<1>6. ASSUME NEW p \in Scanners, Busy(p) \/ Acquire(p) \/ Release(p) PROVE SilentInv'
  <2>1. CASE Busy(p)
    BY <2>1 DEF Busy, SilentInv, Silent, TypeOK
  <2>2. CASE Acquire(p)
    BY <2>2 DEF Acquire, SilentInv, Silent, TypeOK
  <2>3. CASE Release(p)
    BY <2>3 DEF Release, SilentInv, Silent, TypeOK
  <2> QED
    BY <1>6, <2>1, <2>2, <2>3
<1>7. ASSUME NEW d \in Ids, DeleteDevice(d) PROVE SilentInv'
  BY <1>7 DEF DeleteDevice, SilentInv, Silent
<1>8. CASE \/ \E ds, s : SetStatus(ds, s)
           \/ \E ms : ImportTrusted(ms)
           \/ CreateChannel \/ \E c : DeleteChannel(c)
           \/ Retain \/ OuiBegin \/ OuiEnd \/ Tick \/ UNCHANGED vars
  <2>1. UNCHANGED <<pc, answer, reached>>
    BY <1>8 DEF SetStatus, ImportTrusted, CreateChannel, DeleteChannel, Retain, OuiBegin, OuiEnd,
       Tick, vars
  <2> QED
    BY <1>1, <2>1
<1>9. CASE Crash
  BY <1>9 DEF Crash, SilentInv, Silent
<1> QED
  BY <1>2, <1>3, <1>4, <1>5, <1>6, <1>7, <1>8, <1>9 DEF Next, ScanStep

\* scanner.py:259-263, 382-387: a scan that answers with a failure, or raises, has told
\* no provider anything: the delivery comes after the commit, and its own failures
\* do not fail the scan.
THEOREM FailuresAreSilent == Spec => []FailedScanIsSilent
<1>1. Init => SilentInv
  BY DEF Init, SilentInv, Silent
<1>2. SilentInv => FailedScanIsSilent
  BY DEF SilentInv, Silent, FailedScanIsSilent
<1> QED
  BY <1>1, <1>2, SilentNext, TypeCorrect, PTL DEF Spec

-----------------------------------------------------------------------------
(* Messages and the rows that record them *)

\* Each device a provider confirmed a message about has its alert_sent in the
\* session, or is the one being sent.
Kept(p) ==
  pc[p] \in {"queue", "send"} => \A d \in Heard(p) :
    \/ pc[p] = "send" /\ okay[p] = TRUE /\ d = Head(intents[p])
    \/ \E r \in added[p] : r.type = "alert_sent" /\ r.dev = d
    \/ \E e \in tx[p] : e.type = "alert_sent" /\ e.dev = d

\* No alert_sent is older than the message it records.
Dated(p) == \A e \in tx[p] : e.type = "alert_sent" => e.at >= notified[e.dev]

AccountInv == /\ \A d \in Ids : notified[d] <= clock
              /\ \A p \in Scanners : Kept(p) /\ Dated(p)

\* A step that leaves the session alone and tells nobody anything.
LEMMA AccountFrame ==
  ASSUME TypeOK, AccountInv, UNCHANGED <<pc, intents, added, tx, okay>>,
         clock <= clock', clock' \in Nat,
         \A q \in Scanners : Heard(q)' \subseteq Heard(q),
         \A d \in Ids : notified'[d] = notified[d] \/ notified'[d] = Never
  PROVE  AccountInv'
<1> USE DEF Never
<1>0. clock \in Nat /\ \A d \in Ids : notified[d] \in Nat \cup {Never}
  BY DEF TypeOK
<1>1. ASSUME NEW d \in Ids PROVE notified'[d] <= notified[d] /\ notified'[d] \in Int
  BY <1>0
<1>2. ASSUME NEW d \in Ids PROVE notified'[d] <= clock'
  BY <1>0 DEF AccountInv
<1>3. ASSUME NEW q \in Scanners PROVE Kept(q)'
  BY <1>3 DEF AccountInv, Kept
<1>4. ASSUME NEW q \in Scanners PROVE Dated(q)'
  <2> SUFFICES ASSUME NEW e \in tx[q], e.type = "alert_sent" PROVE e.at >= notified'[e.dev]
    BY DEF Dated
  <2>1. e.dev \in Ids /\ e.at \in Nat /\ e.at >= notified[e.dev]
    BY DEF TypeOK, EventRows, AccountInv, Dated
  <2> QED
    BY <1>0, <2>1
<1> QED
  BY <1>2, <1>3, <1>4 DEF AccountInv

\* A step of p: nobody else has anything in a session.
LEMMA AccountOfOne ==
  ASSUME TypeInv, LockDiscipline, QuietInv, SilentInv, AccountInv, NEW p \in Scanners, pc[p] # "idle",
         Kept(p)', Dated(p)', \A d \in Ids : notified'[d] <= clock',
         \A q \in Scanners : q # p => pc'[q] = pc[q] /\ tx'[q] = tx[q]
  PROVE  AccountInv'
<1> SUFFICES ASSUME NEW q \in Scanners, q # p PROVE Kept(q)' /\ Dated(q)'
  BY DEF AccountInv
<1>1. pc[q] = "idle"
  BY DEF LockDiscipline
<1>2. tx[q] = {}
  BY <1>1 DEF QuietInv
<1> QED
  BY <1>1, <1>2 DEF Kept, Dated

\* The flush moves the outcomes into the transaction and dates them.
LEMMA AccountQueue ==
  ASSUME TypeInv, LockDiscipline, QuietInv, SilentInv, AccountInv, NEW p \in Scanners, QueueAlert(p)
  PROVE  AccountInv'
<1> USE DEF At, Goto, batch, past, tables
<1>0. TypeOK
  BY DEF TypeInv
<1>1. pc[p] = "queue" /\ UNCHANGED <<Heard(p), notified, clock>>
      /\ \A q \in Scanners : q # p => pc'[q] = pc[q] /\ tx'[q] = tx[q]
  BY <1>0 DEF QueueAlert, TypeOK, Heard
<1>2. Stamp(added[p]) \subseteq tx'[p] /\ tx[p] \subseteq tx'[p]
  BY <1>0 DEF QueueAlert, TypeOK
<1>3. \A e \in tx'[p] : e.type = "alert_sent" => e \in tx[p] \/ e \in Stamp(added[p])
  BY <1>0 DEF QueueAlert, TypeOK
<1>4. \A r \in added[p] : \E e \in Stamp(added[p]) : e.type = r.type /\ e.dev = r.dev
  <2> TAKE r \in added[p]
  <2>1. [type |-> r.type, dev |-> r.dev, at |-> clock] \in Stamp(added[p])
    BY DEF Stamp
  <2> QED
    BY <2>1
<1>5. Kept(p)'
  <2> SUFFICES ASSUME NEW d \in Heard(p)
               PROVE  \E e \in tx'[p] : e.type = "alert_sent" /\ e.dev = d
    BY <1>1 DEF Kept
  <2>1. \/ \E r \in added[p] : r.type = "alert_sent" /\ r.dev = d
        \/ \E e \in tx[p] : e.type = "alert_sent" /\ e.dev = d
    BY <1>1 DEF AccountInv, Kept
  <2> QED
    BY <1>2, <1>4, <2>1
<1>6. Dated(p)'
  <2>1. \A e \in Stamp(added[p]) : e.at = clock /\ e.dev \in Ids
    BY <1>0 DEF Stamp, TypeOK, PendingRows
  <2>2. \A d \in Ids : notified[d] <= clock
    BY DEF AccountInv
  <2>3. clock \in Nat /\ notified \in [Ids -> Nat \cup {Never}]
    BY <1>0 DEF TypeOK
  <2>4. \A e \in Stamp(added[p]) : e.at >= notified[e.dev]
    BY <2>1, <2>2, <2>3
  <2> QED
    BY <1>1, <1>3, <2>4 DEF AccountInv, Dated
<1> QED
  BY <1>0, <1>1, <1>5, <1>6, AccountOfOne DEF AccountInv

\* A provider takes the message of an intent that no row of the session is about,
\* and says so or not.
LEMMA AccountSend ==
  ASSUME DeliveryInv, SilentInv, AccountInv, NEW p \in Scanners, SendAlert(p) \/ LoseAnswer(p)
  PROVE  AccountInv'
<1> USE DEF At, Goto, batch, past, tables, DeliveryInv
<1> DEFINE d == Head(intents[p])
<1>0. TypeOK
  BY DEF TypeInv
<1>1. /\ pc[p] = "send" /\ intents[p] # <<>> /\ intents[p] \in Seq(Ids)
      /\ UNCHANGED <<pc, intents, added, tx, clock>>
      /\ reached'[p] = reached[p] \cup {d}
      /\ notified' = IF d \in reached[p] THEN notified ELSE [notified EXCEPT ![d] = clock]
  BY <1>0 DEF SendAlert, LoseAnswer, Accept, TypeOK, TypeInv, SendHasIntent
<1>2. d \in Ids
  BY <1>1
<1>3. Kept(p)'
  <2>1. CASE SendAlert(p)
    <3>1. okay'[p] = TRUE /\ Heard(p)' = Heard(p) \cup {d}
      BY <1>0, <1>1, <2>1 DEF SendAlert, Heard, TypeOK
    <3> QED
      BY <1>1, <3>1 DEF AccountInv, Kept
  <2>2. CASE LoseAnswer(p)
    <3>1. okay' = okay /\ Heard(p)' = Heard(p)
      BY <1>1, <2>2 DEF LoseAnswer, Heard
    <3> QED
      BY <1>1, <3>1 DEF AccountInv, Kept
  <2> QED
    BY <2>1, <2>2
<1>4. clock \in Nat /\ notified \in [Ids -> Nat \cup {Never}]
  BY <1>0 DEF TypeOK
<1> HIDE DEF d
<1>5. Dated(p)'
  <2> SUFFICES ASSUME NEW e \in tx[p], e.type = "alert_sent" PROVE e.at >= notified'[e.dev]
    BY <1>1 DEF Dated
  <2>1. e.dev \in reached[p] /\ e.at >= notified[e.dev]
    BY DEF MailInv, Mail, Told, Heard, AccountInv, Dated
  <2> QED
    BY <1>1, <2>1, <1>4
<1>6. \A c \in Ids : notified'[c] <= clock'
  BY <1>1, <1>2, <1>4 DEF AccountInv
<1> QED
  BY <1>1, <1>3, <1>5, <1>6, AccountOfOne

\* The outcome of an intent that some channel accepted says so.
LEMMA AccountOutcome ==
  ASSUME DeliveryInv, SilentInv, AccountInv, NEW p \in Scanners, AddOutcome(p)
  PROVE  AccountInv'
<1> USE DEF At, Goto, batch, past, tables, DeliveryInv
<1>0. TypeOK
  BY DEF TypeInv
<1>1. /\ pc[p] = "send" /\ pc'[p] = "queue" /\ UNCHANGED <<tx, clock, Heard(p), notified>>
      /\ added'[p] = {[type |-> IF okay[p] THEN "alert_sent" ELSE "alert_failed",
                       dev |-> Head(intents[p])]}
      /\ \A q \in Scanners : q # p => pc'[q] = pc[q] /\ tx'[q] = tx[q]
  BY <1>0 DEF AddOutcome, TypeOK, Heard
<1>2. added[p] = {}
  BY <1>1 DEF MailInv, Mail, Answered
<1>3. ASSUME NEW d \in Heard(p), ~\E e \in tx[p] : e.type = "alert_sent" /\ e.dev = d
      PROVE  \E r \in added'[p] : r.type = "alert_sent" /\ r.dev = d
  <2>1. okay[p] = TRUE /\ d = Head(intents[p])
    BY <1>1, <1>2, <1>3 DEF AccountInv, Kept
  <2>2. [type |-> "alert_sent", dev |-> d] \in added'[p]
    BY <1>1, <2>1
  <2> QED
    BY <2>2
<1>4. Kept(p)'
  BY <1>1, <1>3 DEF Kept
<1> QED
  BY <1>1, <1>4, AccountOfOne DEF AccountInv, Dated

LEMMA AccountNext == DeliveryInv /\ SilentInv /\ AccountInv /\ [Next]_vars => AccountInv'
<1> SUFFICES ASSUME DeliveryInv, SilentInv, AccountInv, [Next]_vars PROVE AccountInv'
  OBVIOUS
<1> USE Numbers DEF tables, batch, mail, past, others, At, Goto
<1>t. TypeOK /\ TypeInv /\ LockDiscipline /\ QuietInv /\ clock \in Nat
      /\ notified \in [Ids -> Nat \cup {Never}]
  BY DEF DeliveryInv, TypeInv, TypeOK
<1>1. ASSUME NEW p \in Scanners,
             \/ BeginScan(p) \/ FetchClients(p) \/ FetchFails(p) \/ RecordFailure(p)
             \/ LoadDevices(p) \/ UpdateDevice(p) \/ InsertDevice(p) \/ InsertFails(p)
             \/ ReadCooldown(p) \/ ChooseIntent(p) \/ CommitScan(p) \/ CommitFails(p)
             \/ NothingToDeliver(p) \/ QueueFails(p) \/ RecordDelivery(p) \/ RecordFails(p)
             \/ WriteFails(p) \/ Release(p)
      PROVE  AccountInv'
  <2>1. /\ pc[p] # "idle" /\ pc'[p] \notin {"queue", "send"} /\ UNCHANGED <<clock, notified>>
        /\ tx'[p] = tx[p] \/ tx'[p] = {}
        /\ \A q \in Scanners : q # p => pc'[q] = pc[q] /\ tx'[q] = tx[q]
    <3>1. CASE \/ RecordFailure(p) \/ InsertFails(p) \/ CommitFails(p) \/ NothingToDeliver(p)
               \/ QueueFails(p) \/ RecordDelivery(p) \/ RecordFails(p) \/ WriteFails(p)
      <4>1. pc[p] # "idle" /\ UNCHANGED <<clock, notified>> /\ \E how : Leave(p, how)
        BY <3>1 DEF RecordFailure, InsertFails, CommitFails, CommitReady, NothingToDeliver,
           QueueFails, RecordDelivery, RecordFails, WriteFails, WaitsToWrite
      <4> QED
        BY <1>t, <4>1 DEF Leave, TypeOK
    <3>2. CASE \/ BeginScan(p) \/ FetchClients(p) \/ FetchFails(p) \/ LoadDevices(p)
               \/ UpdateDevice(p) \/ InsertDevice(p)
      BY <1>t, <3>2 DEF BeginScan, FetchClients, FetchFails, LoadDevices, UpdateDevice,
         InsertDevice, TypeOK
    <3>3. CASE ReadCooldown(p) \/ ChooseIntent(p) \/ CommitScan(p) \/ Release(p)
      BY <1>t, <3>3 DEF ReadCooldown, ChooseIntent, CommitScan, CommitReady, Release, TypeOK
    <3> QED
      BY <1>1, <3>1, <3>2, <3>3
  <2>2. Kept(p)' /\ Dated(p)'
    BY <2>1 DEF Kept, Dated, AccountInv
  <2>3. \A d \in Ids : notified'[d] <= clock'
    BY <2>1 DEF AccountInv
  <2> QED
    BY <1>t, <2>1, <2>2, <2>3, AccountOfOne
<1>2. ASSUME NEW p \in Scanners, OpenDelivery(p) PROVE AccountInv'
  <2>1. pc[p] = "deliver" /\ UNCHANGED <<clock, notified, reached, tx>>
        /\ \A q \in Scanners : q # p => pc'[q] = pc[q]
    BY <1>2, <1>t DEF OpenDelivery, TypeOK
  <2>2. reached[p] = {}
    BY <2>1 DEF SilentInv, Silent
  <2> QED
    BY <1>t, <2>1, <2>2, AccountOfOne DEF AccountInv, Kept, Heard, Dated
<1>3. ASSUME NEW p \in Scanners, SendFails(p) PROVE AccountInv'
  <2>1. UNCHANGED <<pc, intents, added, tx, okay, clock, notified, reached, confirmed>>
    BY <1>3 DEF SendFails
  <2> QED
    BY <1>t, <2>1, AccountFrame DEF Heard
<1>4. ASSUME NEW p \in Scanners, Busy(p) \/ Acquire(p) PROVE AccountInv'
  <2>1. UNCHANGED <<intents, added, tx, okay, clock, notified, reached, confirmed>>
        /\ \A q \in Scanners : pc'[q] = pc[q] \/ pc'[q] = "start"
    BY <1>4, <1>t DEF Busy, Acquire, TypeOK
  <2> QED
    BY <2>1 DEF AccountInv, Kept, Heard, Dated
<1>5. ASSUME NEW d \in Ids, DeleteDevice(d) PROVE AccountInv'
  <2>1. UNCHANGED <<pc, intents, added, tx, okay, clock>>
        /\ notified' = [notified EXCEPT ![d] = Never]
        /\ \A q \in Scanners : Heard(q)' \subseteq Heard(q)
    BY <1>5 DEF DeleteDevice, Heard
  <2>2. \A c \in Ids : notified'[c] = notified[c] \/ notified'[c] = Never
    BY <1>t, <2>1
  <2> QED
    BY <1>t, <2>1, <2>2, AccountFrame
<1>6. CASE Tick
  <2>1. UNCHANGED <<pc, intents, added, tx, okay, notified, reached, confirmed>> /\ clock' = clock + 1
    BY <1>6 DEF Tick
  <2> QED
    BY <1>t, <2>1, AccountFrame DEF Heard
<1>7. CASE \/ \E ds, s : SetStatus(ds, s)
           \/ \E ms : ImportTrusted(ms)
           \/ CreateChannel \/ \E c : DeleteChannel(c)
           \/ Retain \/ OuiBegin \/ OuiEnd \/ UNCHANGED vars
  <2>1. UNCHANGED <<pc, intents, added, tx, okay, clock, notified, reached, confirmed>>
    BY <1>7 DEF SetStatus, ImportTrusted, CreateChannel, DeleteChannel, Retain, OuiBegin, OuiEnd,
       vars
  <2> QED
    BY <1>t, <2>1, AccountFrame DEF Heard
<1>8. CASE Crash
  BY <1>8 DEF Crash, AccountInv, Kept, Dated
<1> QED
  BY <1>1, <1>2, <1>3, <1>4, <1>5, <1>6, <1>7, <1>8, <1>t, AccountQueue, AccountSend, AccountOutcome
     DEF Next, ScanStep

\* Only an accepted message and a deletion touch what was told about a device.
LEMMA NotifiedOnlyBy ==
  ASSUME [Next]_vars, TypeOK
  PROVE  \/ \E p \in Scanners : Accept(p)
         \/ \A c \in Ids : notified'[c] = notified[c] \/ notified'[c] = Never
<1> USE DEF others, past
<1>1. ASSUME NEW p \in Scanners, Busy(p) \/ Acquire(p) \/ (ScanStep(p) /\ ~Accept(p))
      PROVE  notified' = notified
  BY <1>1 DEF Busy, Acquire, ScanStep, BeginScan, FetchClients, FetchFails, RecordFailure,
     LoadDevices, UpdateDevice, InsertDevice, InsertFails, ReadCooldown, ChooseIntent, CommitScan,
     CommitFails, NothingToDeliver, OpenDelivery, QueueAlert, QueueFails, SendAlert,
     LoseAnswer, SendFails, AddOutcome, RecordDelivery, RecordFails, WriteFails, Release
<1>2. ASSUME \/ \E ds, s : SetStatus(ds, s)
             \/ \E ms : ImportTrusted(ms)
             \/ CreateChannel \/ \E c : DeleteChannel(c)
             \/ Retain \/ OuiBegin \/ OuiEnd \/ Tick \/ Crash \/ UNCHANGED vars
      PROVE  notified' = notified
  BY <1>2 DEF SetStatus, ImportTrusted, CreateChannel, DeleteChannel, Retain, OuiBegin, OuiEnd, Tick,
     Crash, vars
<1>3. ASSUME NEW d \in Ids, DeleteDevice(d)
      PROVE  \A c \in Ids : notified'[c] = notified[c] \/ notified'[c] = Never
  BY <1>3 DEF DeleteDevice, TypeOK
<1> QED
  BY <1>1, <1>2, <1>3 DEF Next

\* A message goes to a device about which a message was accepted before: that one
\* is not recorded, or was before the cooldown.
LEMMA FirstReach ==
  ASSUME AlertInv, NEW d \in Ids, [Next]_vars,
         notified'[d] # notified[d], notified[d] # Never, notified'[d] # Never
  PROVE  recorded[d] < notified[d] \/ notified'[d] > notified[d] + Cooldown
<1> USE Numbers DEF AlertInv, TypeInv, Never
<1>1. PICK p \in Scanners : Accept(p)
  <2>1. \/ \E p \in Scanners : Accept(p)
        \/ \A c \in Ids : notified'[c] = notified[c] \/ notified'[c] = Never
    BY NotifiedOnlyBy
  <2> QED
    BY <2>1
<1>2. /\ pc[p] = "send" /\ intents[p] # <<>> /\ intents[p] \in Seq(Ids)
      /\ notified' = IF Head(intents[p]) \in reached[p] THEN notified
                     ELSE [notified EXCEPT ![Head(intents[p])] = clock]
  BY <1>1 DEF Accept, At, TypeOK, SendHasIntent
<1>3. d = Head(intents[p]) /\ notified'[d] = clock /\ 1 \in 1..Len(intents[p])
  BY <1>2 DEF TypeOK
<1>4. Spaced(d, now[p]) /\ now[p] <= clock
  BY <1>2, <1>3 DEF DueInv, Due, TimeInv
<1>5. /\ recorded[d] \in Nat \cup {Never} /\ notified[d] \in Nat
      /\ clock \in Nat /\ now[p] \in Nat
  BY DEF TypeOK
<1> QED
  BY <1>3, <1>4, <1>5 DEF Spaced

\* A delivery that is committed records every message its scan had confirmed.
LEMMA AllRecorded ==
  ASSUME DeliveryInv, AccountInv, NEW p \in Scanners, RecordDelivery(p), NEW d \in Heard(p)
  PROVE  recorded'[d] >= notified[d]
<1> USE DEF DeliveryInv, TypeInv, Never
<1>1. d \in Ids /\ clock \in Nat /\ notified[d] \in Nat \cup {Never} /\ pc[p] = "queue"
  BY DEF TypeOK, RecordDelivery, At, Heard
<1>2. NewSent(p, d) # {}
  <2>1. CASE \E e \in tx[p] : e.type = "alert_sent" /\ e.dev = d
    BY <2>1 DEF NewSent, NewEvents
  <2>2. CASE \E r \in added[p] : r.type = "alert_sent" /\ r.dev = d
    <3>1. PICK r \in added[p] : r.type = "alert_sent" /\ r.dev = d
      BY <2>2
    <3>2. [type |-> r.type, dev |-> r.dev, at |-> clock] \in Stamp(added[p])
      BY DEF Stamp
    <3> QED
      BY <3>1, <3>2 DEF NewSent, NewEvents
  <2> QED
    BY <1>1, <2>1, <2>2 DEF AccountInv, Kept
<1>3. PICK e \in NewSent(p, d) : recorded'[d] = e.at
  BY <1>1, <1>2 DEF RecordDelivery
<1>4. CASE e \in tx[p]
  BY <1>3, <1>4 DEF NewSent, AccountInv, Dated
<1>5. CASE e \in Stamp(added[p])
  BY <1>1, <1>3, <1>5 DEF Stamp, AccountInv
<1> QED
  BY <1>3, <1>4, <1>5 DEF NewSent, NewEvents

\* README.md:22 promises no repeated message.  scanner.py:222 commits after the sends,
\* so the promise fails; this is what is left of it: a device is told about again
\* within the cooldown only if the message has no alert_sent row, because its delivery
\* was not committed or because no provider that took the message said so.
THEOREM OnlyUnrecordedRepeats ==
  ASSUME RetentionCoversCooldown PROVE Spec => RepeatedOnlyIfUnrecorded
<1> DEFINE Inv == AlertInv /\ DeliveryInv /\ SilentInv /\ AccountInv
<1>1. Init => Inv
  <2>1. Init => SilentInv
    BY DEF Init, SilentInv, Silent
  <2>2. Init => AccountInv
    BY DEF Init, AccountInv, Kept, Dated, Never
  <2> QED
    BY <2>1, <2>2, AlertInit, DeliveryInit
<1>2. Inv /\ [Next]_vars => Inv'
  BY AlertNext, DeliveryNext, SilentNext, AccountNext DEF DeliveryInv, TypeInv
<1>3. Inv /\ [Next]_vars =>
        /\ \A d \in Ids : \/ notified'[d] = notified[d]
                          \/ notified[d] = Never \/ notified'[d] = Never
                          \/ recorded[d] < notified[d]
                          \/ notified'[d] > notified[d] + Cooldown
        /\ \A p \in Scanners : RecordDelivery(p) =>
             \A d \in reached[p] \cap confirmed : recorded'[d] >= notified[d]
  BY FirstReach, AllRecorded DEF Heard
<1> HIDE DEF Inv
<1> QED
  BY <1>1, <1>2, <1>3, PTL DEF Spec, RepeatedOnlyIfUnrecorded

-----------------------------------------------------------------------------
(* What the cooldown promises while every delivery is committed *)

Delivering(p) == pc[p] \in {"queue", "send"}

\* A delivery in which a provider confirmed a message ends with its commit: no
\* rollback, no busy timeout and no crash comes between.
DeliveriesCommit ==
  \A p \in Scanners :
    Delivering(p) /\ Heard(p) # {} /\ ~Delivering(p)' => RecordDelivery(p)

\* What a provider confirmed is recorded, but for the delivery under way.
OwedInv ==
  \A d \in Ids :
    \/ notified[d] = Never \/ d \notin confirmed \/ recorded[d] >= notified[d]
    \/ \E p \in Scanners : Delivering(p) /\ d \in reached[p]

\* A step that neither tells nor records anything, nor ends a delivery that has.
LEMMA OwedFrame ==
  ASSUME OwedInv, \A d \in Ids : notified'[d] = Never \/ (notified'[d] = notified[d]
                                                       /\ recorded'[d] = recorded[d]),
         confirmed' \subseteq confirmed,
         \A d \in confirmed : notified'[d] # Never =>
           \A p \in Scanners : Delivering(p) /\ d \in reached[p] =>
             Delivering(p)' /\ d \in reached'[p]
  PROVE  OwedInv'
BY DEF OwedInv

\* Of the steps of a scan only Accept tells and only RecordDelivery records.
LEMMA OwedScan ==
  ASSUME TypeOK, LockDiscipline, OwedInv, DeliveriesCommit, NEW p \in Scanners,
         ScanStep(p), ~Accept(p), ~RecordDelivery(p)
  PROVE  OwedInv'
<1> USE DEF past, tables, At, Goto
<1>0. CASE Release(p)
  <2>1. /\ UNCHANGED <<recorded, notified, confirmed>> /\ pc[p] = "release"
        /\ \A q \in Scanners : q # p => pc'[q] = pc[q] /\ reached'[q] = reached[q]
    BY <1>0 DEF Release, TypeOK
  <2> QED
    BY <2>1, OwedFrame DEF Delivering
<1>1. CASE ~Release(p)
  <2>1. UNCHANGED <<recorded, notified, reached, confirmed>>
    BY <1>1 DEF ScanStep, BeginScan, FetchClients, FetchFails, RecordFailure, LoadDevices,
           UpdateDevice, InsertDevice, InsertFails, ReadCooldown, ChooseIntent, CommitScan,
           CommitFails, NothingToDeliver, OpenDelivery, QueueAlert, QueueFails, SendAlert,
           LoseAnswer, SendFails, AddOutcome, RecordFails, WriteFails
  <2>2. ASSUME NEW q \in Scanners, Delivering(q), Heard(q) # {} PROVE Delivering(q)'
    <3>1. CASE q = p
      BY <2>2, <3>1 DEF DeliveriesCommit
    <3>2. CASE q # p
      <4>1. pc[p] # "idle" /\ pc[q] # "idle"
        BY <2>2 DEF Delivering, ScanStep, BeginScan, FetchClients, FetchFails, RecordFailure,
               LoadDevices, UpdateDevice, InsertDevice, InsertFails, ReadCooldown, ChooseIntent,
               CommitScan, CommitReady, CommitFails, NothingToDeliver, OpenDelivery, QueueAlert,
               QueueFails, SendAlert, LoseAnswer, SendFails, AddOutcome, RecordFails, WriteFails,
               WaitsToWrite, Release
      <4> QED
        BY <3>2, <4>1 DEF LockDiscipline
    <3> QED
      BY <3>1, <3>2
  <2> QED
    BY <2>1, <2>2, OwedFrame DEF Heard
<1> QED
  BY <1>0, <1>1

LEMMA OwedNext ==
  ASSUME DeliveryInv, AccountInv, OwedInv, DeliveriesCommit, [Next]_vars
  PROVE  OwedInv'
<1> USE DEF others, past, tables, At, Goto, Never
<1>t. TypeOK /\ LockDiscipline
  BY DEF DeliveryInv, TypeInv
<1>1. ASSUME NEW p \in Scanners, Accept(p), confirmed' \subseteq confirmed \cup {Head(intents[p])}
      PROVE OwedInv'
  <2> DEFINE d == Head(intents[p])
  <2>1. /\ UNCHANGED <<pc, recorded>> /\ Delivering(p)
        /\ reached' = [reached EXCEPT ![p] = @ \cup {d}]
        /\ \A c \in Ids : c # d => notified'[c] = notified[c]
        /\ confirmed' \subseteq confirmed \cup {d}
    BY <1>1, <1>t DEF Accept, Delivering, TypeOK
  <2> HIDE DEF d
  <2>2. /\ Delivering(p)' /\ d \in reached'[p]
        /\ \A q \in Scanners : Delivering(q)' = Delivering(q) /\ reached[q] \subseteq reached'[q]
    BY <1>t, <2>1 DEF Delivering, TypeOK
  <2> QED
    BY <2>1, <2>2 DEF OwedInv
<1>2. ASSUME NEW p \in Scanners, RecordDelivery(p) PROVE OwedInv'
  <2>1. UNCHANGED <<notified, reached, confirmed>> /\ pc[p] = "queue"
    BY <1>2 DEF RecordDelivery
  <2>2. \A q \in Scanners : Delivering(q) => q = p
    BY <1>t, <2>1 DEF Delivering, LockDiscipline
  <2>3. ASSUME NEW d \in Ids, notified[d] # Never, d \in confirmed
        PROVE  recorded'[d] >= notified[d]
    <3>1. CASE d \in reached[p]
      BY <1>2, <2>3, <3>1, AllRecorded DEF Heard
    <3>2. CASE d \notin reached[p]
      <4>1. recorded[d] >= notified[d]
        BY <2>2, <2>3, <3>2 DEF OwedInv
      <4>2. NewSent(p, d) = {}
        <5>1. \A e \in tx[p] : e.type = "alert_sent" => e.dev # d
          BY <3>2 DEF DeliveryInv, MailInv, Mail, Told, Heard
        <5>2. \A r \in added[p] : r.type = "alert_sent" => r.dev # d
          BY <2>1, <3>2 DEF DeliveryInv, MailInv, Mail, Told, Heard
        <5> QED
          BY <5>1, <5>2 DEF NewSent, NewEvents, Stamp
      <4> QED
        BY <1>2, <4>1, <4>2 DEF RecordDelivery
    <3> QED
      BY <3>1, <3>2
  <2> QED
    BY <2>1, <2>3 DEF OwedInv
<1>3. ASSUME NEW p \in Scanners, ScanStep(p) PROVE OwedInv'
  <2>1. Accept(p) => confirmed' \subseteq confirmed \cup {Head(intents[p])}
    BY <1>3 DEF ScanStep, Accept, BeginScan, FetchClients, FetchFails, RecordFailure, LoadDevices,
       UpdateDevice, InsertDevice, InsertFails, ReadCooldown, ChooseIntent, CommitScan, CommitFails,
       NothingToDeliver, OpenDelivery, QueueAlert, QueueFails, SendAlert, LoseAnswer, SendFails,
       AddOutcome, RecordDelivery, RecordFails, WriteFails, Release
  <2> QED
    BY <1>t, <1>1, <1>2, <1>3, <2>1, OwedScan
<1>4. ASSUME NEW p \in Scanners, Busy(p) \/ Acquire(p) PROVE OwedInv'
  <2>1. /\ UNCHANGED <<notified, recorded, reached, confirmed>>
        /\ \A q \in Scanners : pc'[q] = pc[q] \/ pc[q] = "idle"
    BY <1>4, <1>t DEF Busy, Acquire, TypeOK
  <2> QED
    BY <2>1, OwedFrame DEF Delivering
<1>5. ASSUME NEW d \in Ids, DeleteDevice(d) PROVE OwedInv'
  <2>1. /\ UNCHANGED pc /\ notified' = [notified EXCEPT ![d] = Never]
        /\ recorded' = [recorded EXCEPT ![d] = Never]
        /\ reached' = [p \in Scanners |-> reached[p] \ {d}]
        /\ confirmed' = confirmed \ {d} /\ confirmed \subseteq Ids
    BY <1>5, <1>t DEF DeleteDevice, TypeOK
  <2>2. notified \in [Ids -> Nat \cup {Never}] /\ recorded \in [Ids -> Nat \cup {Never}]
    BY <1>t DEF TypeOK
  <2>3. notified'[d] = Never
        /\ \A c \in Ids : c # d => notified'[c] = notified[c] /\ recorded'[c] = recorded[c]
    BY <2>1, <2>2
  <2>4. \A c \in Ids : c # d => \A p \in Scanners : c \in reached[p] => c \in reached'[p]
    BY <2>1
  <2> QED
    BY <2>1, <2>3, <2>4, OwedFrame DEF Delivering
<1>6. CASE \/ \E ds, s : SetStatus(ds, s)
           \/ \E ms : ImportTrusted(ms)
           \/ CreateChannel \/ \E c : DeleteChannel(c)
           \/ Retain \/ OuiBegin \/ OuiEnd \/ Tick \/ UNCHANGED vars
  <2>1. UNCHANGED <<pc, notified, recorded, reached, confirmed>>
    BY <1>6 DEF SetStatus, ImportTrusted, CreateChannel, DeleteChannel, Retain, OuiBegin, OuiEnd,
       Tick, vars
  <2> QED
    BY <2>1, OwedFrame DEF Delivering
<1>7. CASE Crash
  <2>1. UNCHANGED <<notified, recorded, confirmed>> /\ \A p \in Scanners : pc'[p] = "idle"
    BY <1>7 DEF Crash
  <2>2. \A p \in Scanners : ~RecordDelivery(p)
    BY <1>7, <1>t DEF Crash, RecordDelivery, Leave, TypeOK
  <2>3. \A p \in Scanners : Delivering(p) => Heard(p) = {}
    BY <2>1, <2>2 DEF DeliveriesCommit, Delivering
  <2> QED
    BY <2>1, <2>3, OwedFrame DEF Heard
<1> QED
  BY <1>3, <1>4, <1>5, <1>6, <1>7 DEF Next

\* README.md:22 for a behaviour in which the deliveries with a confirmed message are
\* committed: once a provider has confirmed a message about a device, none is told
\* about it again within the cooldown.
THEOREM CommittedDeliveriesKeepCooldown ==
  ASSUME RetentionCoversCooldown
  PROVE  Spec /\ [][DeliveriesCommit]_vars => MessagesRespectCooldown
<1> DEFINE Inv == AlertInv /\ DeliveryInv /\ SilentInv /\ AccountInv
           Apart(d) == \/ notified'[d] = notified[d] \/ d \notin confirmed
                       \/ notified[d] = Never \/ notified'[d] = Never
                       \/ notified'[d] > notified[d] + Cooldown
<1>1. Init => Inv
  <2>1. Init => SilentInv
    BY DEF Init, SilentInv, Silent
  <2>2. Init => AccountInv
    BY DEF Init, AccountInv, Kept, Dated, Never
  <2> QED
    BY <2>1, <2>2, AlertInit, DeliveryInit
<1>2. Inv /\ [Next]_vars => Inv'
  BY AlertNext, DeliveryNext, SilentNext, AccountNext DEF DeliveryInv, TypeInv
<1>3. Init => OwedInv
  BY DEF Init, OwedInv
<1>4. Inv /\ OwedInv /\ [Next]_vars /\ [DeliveriesCommit]_vars => OwedInv'
  <2>1. UNCHANGED vars => DeliveriesCommit
    BY DEF vars, mail, batch, DeliveriesCommit, Delivering
  <2> QED
    BY <2>1, OwedNext
<1>5. Inv /\ OwedInv /\ [Next]_vars => \A d \in Ids : Apart(d)
  <2> SUFFICES ASSUME Inv, OwedInv, [Next]_vars, NEW d \in Ids, ~Apart(d) PROVE FALSE
    OBVIOUS
  <2>1. recorded[d] < notified[d]
    BY FirstReach
  <2>2. PICK p \in Scanners : Delivering(p) /\ d \in reached[p]
    <3>1. recorded[d] \in Nat \cup {Never} /\ notified[d] \in Nat
      BY DEF AlertInv, TypeInv, TypeOK
    <3> QED
      BY <2>1, <3>1 DEF OwedInv, Never
  <2>3. TypeOK /\ LockDiscipline
    BY DEF DeliveryInv, TypeInv
  <2>4. PICK q \in Scanners : Accept(q)
    BY <2>3, NotifiedOnlyBy
  <2>5. q = p
    BY <2>2, <2>3, <2>4 DEF Accept, At, Delivering, LockDiscipline
  <2>6. notified' = IF Head(intents[p]) \in reached[p] THEN notified
                    ELSE [notified EXCEPT ![Head(intents[p])] = clock]
    BY <2>4, <2>5 DEF Accept
  <2> QED
    BY <2>2, <2>3, <2>6 DEF TypeOK
<1> HIDE DEF Inv
<1> QED
  BY <1>1, <1>2, <1>3, <1>4, <1>5, PTL DEF Spec, MessagesRespectCooldown
=============================================================================
