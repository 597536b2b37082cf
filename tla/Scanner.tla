------------------------------ MODULE Scanner ------------------------------
(***************************************************************************)
(* app/scanner.py with everything that runs beside it on the same SQLite   *)
(* database: the scheduled and the manual scan threads, the administrator's *)
(* requests (each one short transaction), the retention job, and the OUI   *)
(* refresh, which keeps the write lock for long.                           *)
(*                                                                         *)
(* A SELECT reads what is committed and keeps no lock.  The first flushed  *)
(* INSERT or UPDATE of a session takes the one write lock of the database  *)
(* (`writer'), COMMIT and ROLLBACK give it back; a session that meets      *)
(* another writer fails after the busy timeout.  Sessions do not           *)
(* autoflush, so rows wait in the session until flush() or commit().       *)
(*                                                                         *)
(* Kept: devices (id, MAC, status), enabled channels, the alert_* events,  *)
(* the locks, and every local of a running scan that a later step reads.   *)
(* Left out: telemetry, observations, delivery rows, audit rows and the    *)
(* other event types, which no step reads back; their foreign keys are     *)
(* kept as conditions of the flush that writes them.                       *)
(***************************************************************************)
EXTENDS Integers, Sequences, FiniteSets

CONSTANTS
  Scanners,     \* threads that call run_scan: the scheduler's and one per request
  Macs,         \* normalised MAC addresses
  NoMac,        \* no row has this id
  Oui,          \* the OUI refresh, as an owner of the write lock
  NoOne,        \* nobody holds the lock
  Decided,      \* statuses other than "unknown"
  Cooldown,     \* ALERT_COOLDOWN_SECONDS
  Retention,    \* EVENT_RETENTION_DAYS, 0 to disable
  MaxStall,     \* bound: ticks between reading `now' and the cooldown query
  MaxTime,      \* bound: the clock stops here
  MaxId,        \* bound: largest device id
  MaxChannel,   \* bound: largest channel id
  MaxClients,   \* bound: clients in one answer of the controller
  AllowFaults   \* whether the process may be killed, and a write fail for want of disk

ASSUME OwnersAssumption == /\ NoOne \notin Scanners
                           /\ Oui \notin Scanners
                           /\ Oui # NoOne
ASSUME MacsAssumption == NoMac \notin Macs
ASSUME StatusAssumption == "unknown" \notin Decided /\ "trusted" \in Decided
ASSUME NumbersAssumption ==
  {Cooldown, Retention, MaxStall, MaxTime, MaxId, MaxChannel, MaxClients} \subseteq Nat
ASSUME FaultsAssumption == AllowFaults \in BOOLEAN

Ids == 1..MaxId
NoId == 0
ChannelIds == 1..MaxChannel
Never == -1
Statuses == Decided \cup {"unknown"}
AlertTypes == {"alert_queued", "alert_sent", "alert_failed"}
PendingRows == [type : AlertTypes, dev : Ids]
EventRows == [type : AlertTypes, dev : Ids, at : Nat]
Points == {"idle", "start", "fetch", "fail", "load", "upsert", "choose",
           "deliver", "queue", "send", "release"}
Answers == {"none", "busy", "ok", "failed", "error"}

VARIABLES
  \* committed tables
  macOf,       \* devices.mac by id, NoMac when there is no such row
  status,      \* devices.status by id
  channels,    \* ids of the enabled notification channels
  events,      \* rows of events that are alerts
  \* locks and time
  writer,      \* holder of SQLite's write lock
  scanLock,    \* holder of _scan_lock
  clock,
  \* a running scan
  pc,          \* where the thread is in run_scan
  answer,      \* what run_scan is about to return, or "busy" of the latest call
  now,         \* `now' of the scan
  clients,     \* `prepared': MACs still to be upserted
  loaded,      \* devices_by_mac: row id by MAC, NoId when absent
  unknown,     \* MACs whose row was "unknown" when it was loaded
  inserted,    \* MACs whose row this transaction inserted
  touched,     \* ids this transaction updates
  candidates,  \* unknown_candidates, as ids
  cooling,     \* cooldown_ids
  intents,     \* alert_intents still to be delivered, as ids
  targets,     \* the channels read at the start of the delivery
  todo,        \* channels the current intent has still to try
  okay,        \* sent_count > 0
  added,       \* alert events added to the session, not yet flushed
  tx,          \* alert events flushed, not yet committed
  \* history, read by properties only
  recorded,    \* time of the latest committed alert_sent of each device
  notified,    \* time the latest scan first reached a provider about a device
  reached,     \* devices the thread's current scan told a provider about
  confirmed,   \* devices some provider has answered for since the latest `notified'
  settled      \* devices decided since before the running scan began

tables == <<macOf, status, channels, events>>
batch  == <<now, clients, loaded, unknown, inserted, touched, candidates, cooling>>
mail   == <<intents, targets, todo, okay, added, tx>>
past   == <<recorded, notified, reached, confirmed, settled>>
vars   == <<tables, writer, scanLock, clock, pc, answer, batch, mail, past>>

-----------------------------------------------------------------------------
Live == {d \in Ids : macOf[d] # NoMac}

\* SQLite's rowid without AUTOINCREMENT: one above the largest id in use.
IsNextId(d, used) == /\ \A e \in used : e < d
                     /\ d = 1 \/ d - 1 \in used

RowOf(m) == IF \E d \in Ids : macOf[d] = m THEN CHOOSE d \in Ids : macOf[d] = m ELSE NoId

\* The session writes: it already holds the write lock, or takes a free one.
CanWrite(p) == writer \in {NoOne, p}

Stamp(rows) == {[type |-> r.type, dev |-> r.dev, at |-> clock] : r \in rows}

Init ==
  /\ macOf = [d \in Ids |-> NoMac]
  /\ status = [d \in Ids |-> "unknown"]
  /\ channels = {} /\ events = {}
  /\ clock = 0
  /\ recorded = [d \in Ids |-> Never]
  /\ notified = [d \in Ids |-> Never]
  /\ writer = NoOne /\ scanLock = NoOne
  /\ pc = [p \in Scanners |-> "idle"]
  /\ answer = [p \in Scanners |-> "none"]
  /\ now = [p \in Scanners |-> 0]
  /\ clients = [p \in Scanners |-> <<>>]
  /\ loaded = [p \in Scanners |-> [m \in Macs |-> NoId]]
  /\ unknown = [p \in Scanners |-> {}]
  /\ inserted = [p \in Scanners |-> {}]
  /\ touched = [p \in Scanners |-> {}]
  /\ candidates = [p \in Scanners |-> <<>>]
  /\ cooling = [p \in Scanners |-> {}]
  /\ intents = [p \in Scanners |-> <<>>]
  /\ targets = [p \in Scanners |-> {}]
  /\ todo = [p \in Scanners |-> {}]
  /\ okay = [p \in Scanners |-> FALSE]
  /\ added = [p \in Scanners |-> {}]
  /\ tx = [p \in Scanners |-> {}]
  /\ reached = [p \in Scanners |-> {}]
  /\ confirmed = {} /\ settled = {}

At(p, point) == pc[p] = point
Goto(p, point) == pc' = [pc EXCEPT ![p] = point]

\* _run_scan_locked returns or raises: its locals and the open transaction go.
Leave(p, how) ==
  /\ Goto(p, "release")
  /\ answer' = [answer EXCEPT ![p] = how]
  /\ writer' = IF writer = p THEN NoOne ELSE writer
  /\ now' = [now EXCEPT ![p] = 0]
  /\ clients' = [clients EXCEPT ![p] = <<>>]
  /\ loaded' = [loaded EXCEPT ![p] = [m \in Macs |-> NoId]]
  /\ unknown' = [unknown EXCEPT ![p] = {}]
  /\ inserted' = [inserted EXCEPT ![p] = {}]
  /\ touched' = [touched EXCEPT ![p] = {}]
  /\ candidates' = [candidates EXCEPT ![p] = <<>>]
  /\ cooling' = [cooling EXCEPT ![p] = {}]
  /\ intents' = [intents EXCEPT ![p] = <<>>]
  /\ targets' = [targets EXCEPT ![p] = {}]
  /\ todo' = [todo EXCEPT ![p] = {}]
  /\ okay' = [okay EXCEPT ![p] = FALSE]
  /\ added' = [added EXCEPT ![p] = {}]
  /\ tx' = [tx EXCEPT ![p] = {}]

-----------------------------------------------------------------------------
(* run_scan: the process-level lock *)

Busy(p) ==
  /\ At(p, "idle") /\ scanLock # NoOne
  /\ answer' = [answer EXCEPT ![p] = "busy"]
  /\ UNCHANGED <<tables, writer, scanLock, clock, pc, batch, mail, past>>

Acquire(p) ==
  /\ At(p, "idle") /\ scanLock = NoOne
  /\ scanLock' = p
  /\ Goto(p, "start")
  /\ answer' = [answer EXCEPT ![p] = "none"]
  /\ settled' = {d \in Live : status[d] # "unknown"}
  /\ UNCHANGED <<tables, writer, clock, batch, mail, recorded, notified, reached, confirmed>>

\* Mutant: the lock is released at the end of the body, not in a `finally'.
ReleaseWithoutFinally(p) ==
  /\ At(p, "release")
  /\ scanLock' = IF answer[p] = "error" THEN scanLock ELSE NoOne
  /\ Goto(p, "idle")
  /\ answer' = [answer EXCEPT ![p] = "none"]
  /\ reached' = [reached EXCEPT ![p] = {}]
  /\ settled' = {}
  /\ UNCHANGED <<tables, writer, clock, batch, mail, recorded, notified, confirmed>>

Release(p) ==
  /\ At(p, "release")
  /\ scanLock' = NoOne
  /\ Goto(p, "idle")
  /\ answer' = [answer EXCEPT ![p] = "none"]
  /\ reached' = [reached EXCEPT ![p] = {}]
  /\ settled' = {}
  /\ UNCHANGED <<tables, writer, clock, batch, mail, recorded, notified, confirmed>>

-----------------------------------------------------------------------------
(* _run_scan_locked: fetch, upsert, choose the alerts, commit *)

\* The scan_started event is committed at once, in a transaction of its own.
BeginScan(p) ==
  /\ At(p, "start") /\ CanWrite(p)
  /\ Goto(p, "fetch")
  /\ UNCHANGED <<tables, writer, scanLock, clock, answer, batch, mail, past>>

\* The controller answers; clients without a MAC have been dropped, and two
\* clients may have the same MAC.
FetchClients(p) ==
  /\ At(p, "fetch")
  /\ \E n \in 0..MaxClients : \E cs \in [1..n -> Macs] :
       clients' = [clients EXCEPT ![p] = cs]
  /\ now' = [now EXCEPT ![p] = clock]
  /\ Goto(p, "load")
  /\ UNCHANGED <<tables, writer, scanLock, clock, answer, loaded, unknown, inserted,
                 touched, candidates, cooling, mail, past>>

\* get_clients returned an empty list, which is how it reports any failure.
FetchFails(p) ==
  /\ At(p, "fetch")
  /\ Goto(p, "fail")
  /\ UNCHANGED <<tables, writer, scanLock, clock, answer, batch, mail, past>>

\* The scan_failed event is committed and the scan ends.
RecordFailure(p) ==
  /\ At(p, "fail") /\ CanWrite(p)
  /\ Leave(p, "failed")
  /\ UNCHANGED <<tables, scanLock, clock, past>>

LoadDevices(p) ==
  /\ At(p, "load")
  /\ loaded' = [loaded EXCEPT ![p] = [m \in Macs |-> RowOf(m)]]
  /\ unknown' = [unknown EXCEPT ![p] =
                   {m \in Macs : \E d \in Ids : macOf[d] = m /\ status[d] = "unknown"}]
  /\ Goto(p, "upsert")
  /\ UNCHANGED <<tables, writer, scanLock, clock, answer, now, clients, inserted, touched,
                 candidates, cooling, mail, past>>

\* Mutant: the status is not tested before a candidate is appended.
UpdateDeviceAnyStatus(p) ==
  /\ At(p, "upsert") /\ clients[p] # <<>>
  /\ LET m == Head(clients[p]) IN
       /\ loaded[p][m] # NoId
       /\ touched' = [touched EXCEPT ![p] =
                        IF m \in inserted[p] THEN @ ELSE @ \cup {loaded[p][m]}]
       /\ candidates' = [candidates EXCEPT ![p] = Append(@, loaded[p][m])]
  /\ clients' = [clients EXCEPT ![p] = Tail(@)]
  /\ UNCHANGED <<tables, writer, scanLock, clock, pc, answer, now, loaded, unknown, inserted,
                 cooling, mail, past>>

\* A client whose row is in devices_by_mac: its columns change in the session.
UpdateDevice(p) ==
  /\ At(p, "upsert") /\ clients[p] # <<>>
  /\ LET m == Head(clients[p]) IN
       /\ loaded[p][m] # NoId
       /\ touched' = [touched EXCEPT ![p] =
                        IF m \in inserted[p] THEN @ ELSE @ \cup {loaded[p][m]}]
       /\ candidates' = [candidates EXCEPT ![p] =
                           IF m \in unknown[p] THEN Append(@, loaded[p][m]) ELSE @]
  /\ clients' = [clients EXCEPT ![p] = Tail(@)]
  /\ UNCHANGED <<tables, writer, scanLock, clock, pc, answer, now, loaded, unknown, inserted,
                 cooling, mail, past>>

\* Rows of the table this transaction sees: the committed ones and its own.
Visible(p) == Live \cup {loaded[p][m] : m \in inserted[p]}

\* Mutant: devices.mac without its UNIQUE constraint.
FlushWorksWithoutUnique(p, m) == touched[p] \subseteq Live

\* A flush writes every changed row: a row deleted meanwhile is a
\* StaleDataError, a MAC inserted meanwhile an IntegrityError.
FlushWorks(p, m) == touched[p] \subseteq Live /\ RowOf(m) = NoId

\* A client without a row: INSERT and flush, which takes the write lock.
InsertDevice(p) ==
  /\ At(p, "upsert") /\ clients[p] # <<>>
  /\ LET m == Head(clients[p]) IN
       /\ loaded[p][m] = NoId
       /\ CanWrite(p) /\ FlushWorks(p, m)
       /\ \E d \in Ids :
            /\ IsNextId(d, Visible(p))
            /\ loaded' = [loaded EXCEPT ![p][m] = d]
            /\ candidates' = [candidates EXCEPT ![p] = Append(@, d)]
       /\ inserted' = [inserted EXCEPT ![p] = @ \cup {m}]
       /\ unknown' = [unknown EXCEPT ![p] = @ \cup {m}]
  /\ writer' = p
  /\ clients' = [clients EXCEPT ![p] = Tail(@)]
  /\ UNCHANGED <<tables, scanLock, clock, pc, answer, now, touched, cooling, mail, past>>

InsertFails(p) ==
  /\ At(p, "upsert") /\ clients[p] # <<>>
  /\ loaded[p][Head(clients[p])] = NoId
  /\ CanWrite(p) /\ ~FlushWorks(p, Head(clients[p]))
  /\ Leave(p, "error")
  /\ UNCHANGED <<tables, scanLock, clock, past>>

\* Mutant: `>' for `>=' in the cutoff.
InCooldownOffByOne(p) == {d \in Ids : \E e \in events : /\ e.type = "alert_sent" /\ e.dev = d
                                                       /\ e.at > now[p] - Cooldown}

\* _devices_in_alert_cooldown: candidates with an alert_sent since now - cooldown.
InCooldown(p) == {d \in Ids : \E e \in events : /\ e.type = "alert_sent" /\ e.dev = d
                                               /\ e.at >= now[p] - Cooldown}

ReadCooldown(p) ==
  /\ At(p, "upsert") /\ clients[p] = <<>>
  /\ cooling' = [cooling EXCEPT ![p] = InCooldown(p)]
  /\ Goto(p, "choose")
  /\ UNCHANGED <<tables, writer, scanLock, clock, answer, now, clients, loaded, unknown,
                 inserted, touched, candidates, mail, past>>

\* Mutant: without cooldown_ids.add.
ChooseIntentTwice(p) ==
  /\ At(p, "choose") /\ candidates[p] # <<>>
  /\ LET d == Head(candidates[p]) IN
       intents' = [intents EXCEPT ![p] = IF d \in cooling[p] THEN @ ELSE Append(@, d)]
  /\ candidates' = [candidates EXCEPT ![p] = Tail(@)]
  /\ UNCHANGED <<tables, writer, scanLock, clock, pc, answer, now, clients, loaded, unknown,
                 inserted, touched, cooling, targets, todo, okay, added, tx, past>>

\* One candidate: skipped in its cooldown, otherwise an intent and cooling itself.
ChooseIntent(p) ==
  /\ At(p, "choose") /\ candidates[p] # <<>>
  /\ LET d == Head(candidates[p]) IN
       /\ intents' = [intents EXCEPT ![p] = IF d \in cooling[p] THEN @ ELSE Append(@, d)]
       /\ cooling' = [cooling EXCEPT ![p] = @ \cup {d}]
  /\ candidates' = [candidates EXCEPT ![p] = Tail(@)]
  /\ UNCHANGED <<tables, writer, scanLock, clock, pc, answer, now, clients, loaded, unknown,
                 inserted, touched, targets, todo, okay, added, tx, past>>

CommitReady(p) == At(p, "choose") /\ candidates[p] = <<>> /\ CanWrite(p)

\* Mutant: the UPDATE of a touched row carries the status the scan has loaded.
CommitScanWithStatus(p) ==
  /\ CommitReady(p) /\ touched[p] \subseteq Live
  /\ macOf' = [d \in Ids |-> IF \E m \in inserted[p] : loaded[p][m] = d
                             THEN CHOOSE m \in inserted[p] : loaded[p][m] = d
                             ELSE macOf[d]]
  /\ status' = [d \in Ids |-> IF d \in touched[p] /\ \E m \in unknown[p] : loaded[p][m] = d
                              THEN "unknown" ELSE status[d]]
  /\ writer' = NoOne
  /\ Goto(p, "deliver")
  /\ UNCHANGED <<channels, events, scanLock, clock, answer, batch, mail, past>>

\* scan_finished and everything the transaction holds become visible.
CommitScan(p) ==
  /\ CommitReady(p) /\ touched[p] \subseteq Live
  /\ macOf' = [d \in Ids |-> IF \E m \in inserted[p] : loaded[p][m] = d
                             THEN CHOOSE m \in inserted[p] : loaded[p][m] = d
                             ELSE macOf[d]]
  /\ writer' = NoOne
  /\ Goto(p, "deliver")
  /\ UNCHANGED <<status, channels, events, scanLock, clock, answer, batch, mail, past>>

CommitFails(p) ==
  /\ CommitReady(p) /\ ~(touched[p] \subseteq Live)
  /\ Leave(p, "error")
  /\ UNCHANGED <<tables, scanLock, clock, past>>
-----------------------------------------------------------------------------
(* _deliver_queued_alerts: what it raises is logged, the scan still succeeds *)

NothingToDeliver(p) ==
  /\ At(p, "deliver")
  /\ intents[p] = <<>> \/ channels = {}
  /\ Leave(p, "ok")
  /\ UNCHANGED <<tables, scanLock, clock, past>>

OpenDelivery(p) ==
  /\ At(p, "deliver")
  /\ intents[p] # <<>> /\ channels # {}
  /\ targets' = [targets EXCEPT ![p] = channels]
  /\ Goto(p, "queue")
  /\ UNCHANGED <<tables, writer, scanLock, clock, answer, batch, intents, todo, okay, added,
                 tx, past>>

\* Every pending outcome has a delivery row for each of the targets.
DeliveriesValid(p) == added[p] = {} \/ targets[p] \subseteq channels

\* alert_queued is added and flushed with all that waits in the session.
QueueAlert(p) ==
  /\ At(p, "queue") /\ intents[p] # <<>> /\ CanWrite(p)
  /\ DeliveriesValid(p) /\ Head(intents[p]) \in Live
  /\ tx' = [tx EXCEPT ![p] = @ \cup Stamp(added[p])
                \cup {[type |-> "alert_queued", dev |-> Head(intents[p]), at |-> clock]}]
  /\ added' = [added EXCEPT ![p] = {}]
  /\ todo' = [todo EXCEPT ![p] = targets[p]]
  /\ okay' = [okay EXCEPT ![p] = FALSE]
  /\ writer' = p
  /\ Goto(p, "send")
  /\ UNCHANGED <<tables, scanLock, clock, answer, batch, intents, targets, past>>

\* A foreign key fails in the flush: the whole delivery is rolled back.
QueueFails(p) ==
  /\ At(p, "queue") /\ intents[p] # <<>> /\ CanWrite(p)
  /\ ~(DeliveriesValid(p) /\ Head(intents[p]) \in Live)
  /\ Leave(p, "ok")
  /\ UNCHANGED <<tables, scanLock, clock, past>>

\* The provider takes the message of the current intent.
Accept(p) ==
  /\ At(p, "send")
  /\ \E c \in todo[p] : todo' = [todo EXCEPT ![p] = @ \ {c}]
  /\ LET d == Head(intents[p]) IN
       /\ reached' = [reached EXCEPT ![p] = @ \cup {d}]
       /\ notified' = IF d \in reached[p] THEN notified ELSE [notified EXCEPT ![d] = clock]
  /\ UNCHANGED <<tables, writer, scanLock, clock, pc, answer, batch, intents, targets, added,
                 tx, recorded, settled>>

SendAlert(p) ==
  /\ Accept(p)
  /\ okay' = [okay EXCEPT ![p] = TRUE]
  /\ confirmed' = confirmed \cup {Head(intents[p])}

\* The message was taken, but the call fails after that: the answer comes too
\* late, breaks off, or is longer than the reader allows.  A failed delivery.
LoseAnswer(p) ==
  /\ Accept(p)
  /\ confirmed' = confirmed \ ({Head(intents[p])} \ reached[p])
  /\ UNCHANGED okay

\* Mutant: attempts are counted, not successes.
SendFailsButCounts(p) ==
  /\ At(p, "send")
  /\ \E c \in todo[p] : todo' = [todo EXCEPT ![p] = @ \ {c}]
  /\ okay' = [okay EXCEPT ![p] = TRUE]
  /\ UNCHANGED <<tables, writer, scanLock, clock, pc, answer, batch, intents, targets, added,
                 tx, past>>

\* Mutant: sent_count is reset by a failure, the last channel decides.
SendFailsAndResets(p) ==
  /\ At(p, "send")
  /\ \E c \in todo[p] : todo' = [todo EXCEPT ![p] = @ \ {c}]
  /\ okay' = [okay EXCEPT ![p] = FALSE]
  /\ UNCHANGED <<tables, writer, scanLock, clock, pc, answer, batch, intents, targets, added,
                 tx, past>>

\* Unknown provider, bad configuration, no connection, refused: a failed delivery
\* of a message nobody got.
SendFails(p) ==
  /\ At(p, "send")
  /\ \E c \in todo[p] : todo' = [todo EXCEPT ![p] = @ \ {c}]
  /\ UNCHANGED <<tables, writer, scanLock, clock, pc, answer, batch, intents, targets, okay,
                 added, tx, past>>

\* Mutant: the branch that adds alert_failed is missing.
AddOutcomeOnlySent(p) ==
  /\ At(p, "send") /\ todo[p] = {}
  /\ added' = [added EXCEPT ![p] = IF okay[p] THEN {[type |-> "alert_sent",
                                                    dev |-> Head(intents[p])]} ELSE {}]
  /\ intents' = [intents EXCEPT ![p] = Tail(@)]
  /\ Goto(p, "queue")
  /\ UNCHANGED <<tables, writer, scanLock, clock, answer, batch, targets, todo, okay, tx, past>>

\* Mutant: an alert that no channel accepted is put back for another attempt.
AddOutcomeOrRetry(p) ==
  /\ At(p, "send") /\ todo[p] = {}
  /\ added' = [added EXCEPT ![p] = IF okay[p] THEN {[type |-> "alert_sent",
                                                    dev |-> Head(intents[p])]} ELSE {}]
  /\ intents' = [intents EXCEPT ![p] = IF okay[p] THEN Tail(@) ELSE @]
  /\ Goto(p, "queue")
  /\ UNCHANGED <<tables, writer, scanLock, clock, answer, batch, targets, todo, okay, tx, past>>

\* alert_sent or alert_failed is added to the session.
AddOutcome(p) ==
  /\ At(p, "send") /\ todo[p] = {}
  /\ added' = [added EXCEPT ![p] = {[type |-> IF okay[p] THEN "alert_sent" ELSE "alert_failed",
                                     dev |-> Head(intents[p])]}]
  /\ intents' = [intents EXCEPT ![p] = Tail(@)]
  /\ Goto(p, "queue")
  /\ UNCHANGED <<tables, writer, scanLock, clock, answer, batch, targets, todo, okay, tx, past>>

NewEvents(p) == tx[p] \cup Stamp(added[p])
NewSent(p, d) == {e \in NewEvents(p) : e.type = "alert_sent" /\ e.dev = d}

RecordDelivery(p) ==
  /\ At(p, "queue") /\ intents[p] = <<>> /\ DeliveriesValid(p)
  /\ events' = events \cup NewEvents(p)
  /\ recorded' = [d \in Ids |-> IF NewSent(p, d) = {} THEN recorded[d]
                                ELSE (CHOOSE e \in NewSent(p, d) : TRUE).at]
  /\ Leave(p, "ok")
  /\ UNCHANGED <<macOf, status, channels, scanLock, clock, notified, reached, confirmed, settled>>

\* Mutant: without the try around the delivery.
RecordFailsAloud(p) ==
  /\ At(p, "queue") /\ intents[p] = <<>> /\ ~DeliveriesValid(p)
  /\ Leave(p, "error")
  /\ UNCHANGED <<tables, scanLock, clock, past>>

RecordFails(p) ==
  /\ At(p, "queue") /\ intents[p] = <<>> /\ ~DeliveriesValid(p)
  /\ Leave(p, "ok")
  /\ UNCHANGED <<tables, scanLock, clock, past>>

\* The steps that write: the thread is before a flush or a commit.
WaitsToWrite(p) ==
  \/ pc[p] \in {"start", "fail"}
  \/ At(p, "upsert") /\ clients[p] # <<>> /\ loaded[p][Head(clients[p])] = NoId
  \/ At(p, "choose") /\ candidates[p] = <<>>
  \/ At(p, "queue")

\* Mutant: the delivery waits for the write lock without a timeout.
WriteFailsBeforeDelivery(p) ==
  /\ WaitsToWrite(p) /\ (AllowFaults \/ ~CanWrite(p)) /\ ~At(p, "queue")
  /\ Leave(p, "error")
  /\ UNCHANGED <<tables, scanLock, clock, past>>

\* Another session keeps the write lock past the busy timeout, or the holder of
\* the lock cannot write.
WriteFails(p) ==
  /\ WaitsToWrite(p) /\ (AllowFaults \/ ~CanWrite(p))
  /\ Leave(p, IF At(p, "queue") THEN "ok" ELSE "error")
  /\ UNCHANGED <<tables, scanLock, clock, past>>

\* Every step of a scan that holds the lock.
ScanStep(p) ==
  \/ BeginScan(p) \/ FetchClients(p) \/ FetchFails(p) \/ RecordFailure(p) \/ LoadDevices(p)
  \/ UpdateDevice(p) \/ InsertDevice(p) \/ InsertFails(p) \/ ReadCooldown(p)
  \/ ChooseIntent(p) \/ CommitScan(p) \/ CommitFails(p)
  \/ NothingToDeliver(p) \/ OpenDelivery(p) \/ QueueAlert(p) \/ QueueFails(p)
  \/ SendAlert(p) \/ LoseAnswer(p) \/ SendFails(p) \/ AddOutcome(p)
  \/ RecordDelivery(p) \/ RecordFails(p) \/ WriteFails(p) \/ Release(p)

-----------------------------------------------------------------------------
(* The administrator's requests: each commits one transaction, or none *)

others == <<scanLock, clock, pc, answer, batch, mail>>

\* trust, ignore, reset, block and unblock (after the controller's answer) and
\* the bulk actions: the existing ones among the ids get the status.
SetStatus(ds, s) ==
  /\ writer = NoOne
  /\ status' = [d \in Ids |-> IF d \in ds THEN s ELSE status[d]]
  /\ settled' = IF s = "unknown" THEN settled \ ds ELSE settled
  /\ UNCHANGED <<macOf, channels, events, writer, others, recorded, notified, reached, confirmed>>

\* Mutant: a soft delete, with a status nothing else knows.
DeleteDeviceSoftly(d) ==
  /\ writer = NoOne /\ d \in Live
  /\ status' = [status EXCEPT ![d] = "deleted"]
  /\ UNCHANGED <<macOf, channels, events, writer, others, past>>

\* The row goes with its events (ON DELETE CASCADE).  Bound: room is left for
\* the ids of all the MACs.
DeleteDevice(d) ==
  /\ writer = NoOne /\ d \in Live
  /\ \A e \in Live \ {d} : e <= MaxId - Cardinality(Macs)
  /\ macOf' = [macOf EXCEPT ![d] = NoMac]
  /\ status' = [status EXCEPT ![d] = "unknown"]
  /\ events' = {e \in events : e.dev # d}
  /\ recorded' = [recorded EXCEPT ![d] = Never]
  /\ notified' = [notified EXCEPT ![d] = Never]
  /\ reached' = [p \in Scanners |-> reached[p] \ {d}]
  /\ confirmed' = confirmed \ {d} /\ settled' = settled \ {d}
  /\ UNCHANGED <<channels, writer, others>>

\* New MACs get trusted rows with the next ids, known ones become trusted.
ImportTrusted(ms) ==
  /\ writer = NoOne
  /\ LET new == {m \in ms : RowOf(m) = NoId} IN
     \E row \in [new -> Ids] :
       /\ \A m \in new : IsNextId(row[m], Live \cup {row[k] : k \in {k \in new : row[k] < row[m]}})
       /\ \A m, k \in new : row[m] = row[k] => m = k
       /\ macOf' = [d \in Ids |-> IF \E m \in new : row[m] = d
                                  THEN CHOOSE m \in new : row[m] = d ELSE macOf[d]]
       /\ status' = [d \in Ids |-> IF (\E m \in new : row[m] = d) \/ macOf[d] \in ms
                                   THEN "trusted" ELSE status[d]]
  /\ UNCHANGED <<channels, events, writer, others, past>>

CreateChannel ==
  /\ writer = NoOne
  /\ \E c \in ChannelIds : IsNextId(c, channels) /\ channels' = channels \cup {c}
  /\ UNCHANGED <<macOf, status, events, writer, others, past>>

DeleteChannel(c) ==
  /\ writer = NoOne /\ c \in channels
  /\ channels' = channels \ {c}
  /\ UNCHANGED <<macOf, status, events, writer, others, past>>

\* Mutant: the cutoff is now, the retention is not subtracted.
RetainFromNow ==
  /\ writer = NoOne /\ Retention > 0
  /\ events' = {e \in events : e.at >= clock}
  /\ UNCHANGED <<macOf, status, channels, writer, others, past>>

\* run_retention, for the events.
Retain ==
  /\ writer = NoOne /\ Retention > 0
  /\ events' = {e \in events : e.at >= clock - Retention}
  /\ UNCHANGED <<macOf, status, channels, writer, others, past>>

-----------------------------------------------------------------------------
(* The OUI refresh, the clock and the process *)

OuiBegin == writer = NoOne /\ writer' = Oui /\ UNCHANGED <<tables, others, past>>
OuiEnd   == writer = Oui /\ writer' = NoOne /\ UNCHANGED <<tables, others, past>>

\* Between reading `now' and the cooldown query a scan only waits for the
\* database, at most for the busy timeout.
Tick ==
  /\ clock < MaxTime
  /\ \A p \in Scanners : pc[p] \in {"load", "upsert"} => clock < now[p] + MaxStall
  /\ clock' = clock + 1
  /\ UNCHANGED <<tables, writer, scanLock, pc, answer, batch, mail, past>>

\* Killed and started again: what was not committed is gone, and every lock.
Crash ==
  /\ AllowFaults
  /\ writer' = NoOne /\ scanLock' = NoOne
  /\ pc' = [p \in Scanners |-> "idle"]
  /\ answer' = [p \in Scanners |-> "none"]
  /\ now' = [p \in Scanners |-> 0]
  /\ clients' = [p \in Scanners |-> <<>>]
  /\ loaded' = [p \in Scanners |-> [m \in Macs |-> NoId]]
  /\ unknown' = [p \in Scanners |-> {}]
  /\ inserted' = [p \in Scanners |-> {}]
  /\ touched' = [p \in Scanners |-> {}]
  /\ candidates' = [p \in Scanners |-> <<>>]
  /\ cooling' = [p \in Scanners |-> {}]
  /\ intents' = [p \in Scanners |-> <<>>]
  /\ targets' = [p \in Scanners |-> {}]
  /\ todo' = [p \in Scanners |-> {}]
  /\ okay' = [p \in Scanners |-> FALSE]
  /\ added' = [p \in Scanners |-> {}]
  /\ tx' = [p \in Scanners |-> {}]
  /\ reached' = [p \in Scanners |-> {}]
  /\ settled' = {}
  /\ UNCHANGED <<tables, clock, recorded, notified, confirmed>>

Next ==
  \/ \E p \in Scanners : Busy(p) \/ Acquire(p) \/ ScanStep(p)
  \/ \E ds \in SUBSET Live \ {{}}, s \in Statuses : SetStatus(ds, s)
  \/ \E d \in Ids : DeleteDevice(d)
  \/ \E ms \in SUBSET Macs \ {{}} : ImportTrusted(ms)
  \/ CreateChannel \/ \E c \in ChannelIds : DeleteChannel(c)
  \/ Retain \/ OuiBegin \/ OuiEnd \/ Tick \/ Crash

Spec == Init /\ [][Next]_vars

\* A thread inside run_scan goes on: every HTTP call it makes has a timeout,
\* and so has every wait for the write lock.
FairSpec == Spec /\ \A p \in Scanners : WF_vars(ScanStep(p))
-----------------------------------------------------------------------------
(* Properties *)

TypeOK ==
  /\ macOf \in [Ids -> Macs \cup {NoMac}]
  /\ status \in [Ids -> Statuses]
  /\ channels \subseteq ChannelIds
  /\ events \subseteq EventRows
  /\ writer \in Scanners \cup {Oui, NoOne}
  /\ scanLock \in Scanners \cup {NoOne}
  /\ clock \in Nat
  /\ pc \in [Scanners -> Points]
  /\ answer \in [Scanners -> Answers]
  /\ now \in [Scanners -> Nat]
  /\ clients \in [Scanners -> Seq(Macs)]
  /\ loaded \in [Scanners -> [Macs -> Ids \cup {NoId}]]
  /\ unknown \in [Scanners -> SUBSET Macs]
  /\ inserted \in [Scanners -> SUBSET Macs]
  /\ touched \in [Scanners -> SUBSET Ids]
  /\ candidates \in [Scanners -> Seq(Ids)]
  /\ cooling \in [Scanners -> SUBSET Ids]
  /\ intents \in [Scanners -> Seq(Ids)]
  /\ targets \in [Scanners -> SUBSET ChannelIds]
  /\ todo \in [Scanners -> SUBSET ChannelIds]
  /\ okay \in [Scanners -> BOOLEAN]
  /\ added \in [Scanners -> SUBSET PendingRows]
  /\ tx \in [Scanners -> SUBSET EventRows]
  /\ recorded \in [Ids -> Nat \cup {Never}]
  /\ notified \in [Ids -> Nat \cup {Never}]
  /\ reached \in [Scanners -> SUBSET Ids]
  /\ confirmed \subseteq Ids /\ settled \subseteq Ids

\* Only the holder of _scan_lock is inside run_scan, and neither lock outlives
\* the scan that took it, whichever way out it took (try/finally, rollback).
LockDiscipline ==
  /\ \A p \in Scanners : pc[p] # "idle" <=> scanLock = p
  /\ \A p \in Scanners : writer = p => pc[p] \in {"upsert", "choose", "queue", "send"}

\* However scans, imports and deletions interleave, and although ids are reused,
\* a MAC never gets a second row.
OneRowPerMac ==
  \A d, e \in Live : macOf[d] = macOf[e] => d = e

\* A scan works with the rows it loaded long before it commits; it must not
\* write a status back over what the administrator decided in between.
NoLostDecision ==
  [][(\E p \in Scanners : ScanStep(p)) =>
       \A d \in Live : macOf'[d] = macOf[d] /\ status'[d] = status[d]]_vars

\* A device that was trusted, ignored or blocked before the scan began, and has
\* stayed so, is not alerted on by it.
SettledDevicesStaySilent ==
  \A p \in Scanners : scanLock = p => reached[p] \cap settled = {}

\* A scan that reports a failure or raises has sent no alert: messages go out
\* only after the commit that makes the scan's result durable.
FailedScanIsSilent ==
  \A p \in Scanners : answer[p] \in {"failed", "error"} => reached[p] = {}

\* One scan opens at most one alert for a device, also when the controller
\* reports its MAC twice.
OneAlertPerScan ==
  \A p \in Scanners : At(p, "queue") /\ intents[p] # <<>> =>
    ~\E r \in tx[p] \cup added[p] : r.dev = Head(intents[p])

\* An alert_sent row, which starts the cooldown, is committed only for a device
\* some provider confirmed a message about in this very scan: failures of all
\* channels and lost answers never silence the next scan.
RecordedAlertsWereSent ==
  [][\A e \in events' \ events : e.type = "alert_sent" =>
       \E p \in Scanners : scanLock = p /\ e.dev \in reached[p] \cap confirmed]_vars

\* Queued alerts and their outcomes are recorded together: whatever failed,
\* was retained away or rolled back, no alert_queued lacks its outcome.
QueuedAlertsHaveOutcome ==
  \A q \in events : q.type = "alert_queued" =>
    \E e \in events : /\ e.type \in {"alert_sent", "alert_failed"}
                       /\ e.dev = q.dev /\ e.at >= q.at

\* The retention keeps an alert_sent event for as long as a scan may look for it.
RetentionCoversCooldown == Retention = 0 \/ Retention >= Cooldown + MaxStall

SpacedAlerts == \A d \in Ids : \/ recorded'[d] = recorded[d]
                               \/ recorded[d] = Never \/ recorded'[d] = Never
                               \/ recorded'[d] > recorded[d] + Cooldown

\* The alerts recorded for a device are more than the cooldown apart, also for
\* events the retention job has deleted since.
CooldownKept == [][SpacedAlerts]_vars

\* Only a message without an alert_sent row is repeated within the cooldown, and
\* there is no such row only if the delivery was not committed, or if every
\* provider that took the message failed to say so.  A committed delivery records
\* what one provider confirmed, whatever became of the other channels.
RepeatedOnlyIfUnrecorded ==
  [][/\ \A d \in Ids : \/ notified'[d] = notified[d]
                       \/ notified[d] = Never \/ notified'[d] = Never
                       \/ recorded[d] < notified[d]
                       \/ notified'[d] > notified[d] + Cooldown
     /\ \A p \in Scanners : RecordDelivery(p) =>
          \A d \in reached[p] \cap confirmed : recorded'[d] >= notified[d]]_vars

\* The committed alert_sent events implement the policy on repeat alerts.
Policy == INSTANCE AlertPolicy WITH Devices <- Ids
PolicyKept == Policy!Spec

\* From outside, with its long transactions and the locks between them, every
\* step is one on the table of devices that DeviceActions implements too.
Table == INSTANCE DeviceTable
TableKept == Table!Spec

\* The stages of a scan, and the steps towards its end.
Stage == [start |-> 1, fetch |-> 2, load |-> 3, fail |-> 3, upsert |-> 4, choose |-> 5,
          deliver |-> 6, queue |-> 7, send |-> 7, release |-> 8, idle |-> 9]
Advance(p) ==
  \/ Stage[pc'[p]] > Stage[pc[p]]
  \/ /\ pc'[p] = pc[p]
     /\ \/ At(p, "upsert") /\ Len(clients'[p]) < Len(clients[p])
        \/ At(p, "choose") /\ Len(candidates'[p]) < Len(candidates[p])
        \/ /\ At(p, "send") /\ intents'[p] = intents[p]
           /\ todo'[p] \subseteq todo[p] /\ todo'[p] # todo[p]
  \/ At(p, "queue") /\ pc'[p] = "send" /\ intents'[p] = intents[p]
  \/ At(p, "send") /\ pc'[p] = "queue" /\ Len(intents'[p]) < Len(intents[p])
Place(p) == <<pc[p], clients[p], candidates[p], intents[p], todo[p]>>

\* Nothing leads a scan back, neither a failure of its own nor what others do
\* meanwhile, and every step of it brings its end nearer: no client, candidate,
\* intent or channel is taken up twice.
ScansAdvance ==
  [][\A p \in Scanners : pc[p] # "idle" =>
       Advance(p) \/ (~ScanStep(p) /\ Place(p)' = Place(p))]_vars

\* Every scan ends and gives the lock back, whatever fails on the way.
EveryScanEnds == \A p \in Scanners : pc[p] # "idle" ~> scanLock # p

\* README.md:22, "Alert Deduplication": messages about one device, not only the
\* rows recorded for them, are more than the cooldown apart; excepted is a message
\* that no provider confirmed, which no sender can tell from one that was lost.
MessagesRespectCooldown ==
  [][\A d \in Ids : \/ notified'[d] = notified[d] \/ d \notin confirmed
                    \/ notified[d] = Never \/ notified'[d] = Never
                    \/ notified'[d] > notified[d] + Cooldown]_vars
=============================================================================
