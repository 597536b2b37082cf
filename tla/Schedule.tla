------------------------------- MODULE Schedule --------------------------------
(***************************************************************************)
(* The settings of the Tools page and the jobs that follow them: the saves *)
(* of the scan interval and of the retention (api/routes_import_export.py),*)
(* their resolution against the environment (web/display.py), the scan job *)
(* the lifespan adds and a save reschedules (main.py), and the cleanup     *)
(* that reads the retention and deletes in batches (retention.py).         *)
(*                                                                         *)
(* A save commits first and reschedules the job afterwards, in a thread of *)
(* the pool; nothing orders two saves.  The cleanup runs in one            *)
(* transaction, at the start and once a day; it looks a batch of ids up    *)
(* before the DELETE that takes the write lock, and SQLite gives a new row *)
(* the id after the highest one, so an id may have changed rows by then.   *)
(***************************************************************************)
EXTENDS Integers, FiniteSets

CONSTANTS
  IntervalSavers, RetentionSavers,   \* requests that may save one or the other;
                                     \* each is served once
  IntervalForms, RetentionForms,     \* what they submit
  IntervalPresets, DayPresets,
  MinInterval,     \* of a custom interval
  MaxSeconds,      \* a later date cannot be expressed (OverflowError)
  MaxDays,         \* nor one so many days ago
  EnvInterval, EnvObservationDays, EnvEventDays,
  BatchSize,       \* RETENTION_DELETE_BATCH_SIZE
  MaxId,           \* bound on the ids of observations, and of events
  MaxTime,         \* bound on the clock, in days
  NoValue, NoForm

IntervalKey == "scan_interval_seconds"
ObservationKey == "observation_retention_days"
EventKey == "event_retention_days"
Keys == {IntervalKey, ObservationKey, EventKey}
Tables == {"observations", "events"}
Ids == 1..MaxId
Rows == [id: Ids, at: Nat]

\* A choice of a form: a preset, or "custom" with a number or without one.
Choices == [custom: BOOLEAN, number: Int \cup {NoValue}]

ASSUME FormAssumption == /\ IntervalForms \subseteq [interval: Choices]
                         /\ RetentionForms \subseteq [observations: Choices, events: Choices]
                         /\ NoForm \notin IntervalForms \cup RetentionForms
ASSUME ValueAssumption == NoValue \notin Int
ASSUME PresetAssumption == /\ IntervalPresets \subseteq 1..MaxSeconds
                           /\ DayPresets \subseteq Nat
                           /\ MinInterval \in Nat \ {0} /\ MaxSeconds \in Nat /\ MaxDays \in Nat
ASSUME EnvAssumption == /\ EnvInterval \in 1..MaxSeconds
                        /\ EnvObservationDays \in 0..MaxDays /\ EnvEventDays \in 0..MaxDays
ASSUME BoundAssumption == BatchSize \in Nat \ {0} /\ MaxId \in Nat /\ MaxTime \in Nat

Savers == IntervalSavers \cup RetentionSavers
Forms == IntervalForms \cup RetentionForms

VARIABLES
  setting,    \* the committed settings
  phase,      \* of the process
  job,        \* seconds of the scan job's trigger, NoValue without the job
  pc, form, loaded,   \* the saves
  clock,
  table,      \* the committed rows of observations and events
  run, due,   \* where the cleanup is, and the day of the next one
  now, days,  \* its time, and what it resolved
  batch,      \* the ids it has looked up
  gone,       \* the rows its transaction has deleted
  locked,     \* its transaction has the write lock
  alone,      \* history: saves whose value is the stored one since their commit
  crossed,    \* history: the last reschedule was by a save that is not
  reborn      \* history: rows added under an id of the batch

saves == <<pc, form, loaded>>
transaction == <<batch, gone, locked>>
cleanup == <<run, due, now, days, transaction, reborn>>
history == <<alone, crossed>>
vars == <<setting, phase, job, saves, clock, table, cleanup, history>>

SavePoints == {"idle", "load", "write", "reschedule", "log", "done"}
RunPoints == {"idle", "observation_days", "event_days", "observations", "events",
              "commit", "committed", "failed"}
NoDays == [t \in Tables |-> 0]
None == [t \in Tables |-> {}]
Unset == [k \in Keys |-> NoValue]

Goto(r, p) == pc' = [pc EXCEPT ![r] = p]

\* The answer; the session and its rows go.
Answer(r) ==
  /\ Goto(r, "done")
  /\ form' = [form EXCEPT ![r] = NoForm] /\ loaded' = [loaded EXCEPT ![r] = Unset]

-----------------------------------------------------------------------------
(* Forms and settings *)

\* The validation of save_scan_interval, and _parse_retention_days.
AcceptedInterval(c) ==
  IF c.custom THEN c.number # NoValue /\ c.number >= MinInterval ELSE c.number \in IntervalPresets
AcceptedDays(c) ==
  IF c.custom THEN c.number # NoValue /\ c.number >= 0 ELSE c.number \in DayPresets

Accepted(f) ==
  IF f \in IntervalForms THEN AcceptedInterval(f.interval)
  ELSE AcceptedDays(f.observations) /\ AcceptedDays(f.events)

KeysOf(f) == IF f \in IntervalForms THEN {IntervalKey} ELSE {ObservationKey, EventKey}
ValueOf(f, k) ==
  IF k = IntervalKey THEN f.interval.number
  ELSE IF k = ObservationKey THEN f.observations.number ELSE f.events.number

\* resolve_scan_interval and _resolve_non_negative_int_setting.
ResolveInterval(s) ==
  IF s[IntervalKey] # NoValue /\ s[IntervalKey] > 0 THEN s[IntervalKey] ELSE EnvInterval
ResolveDays(s, t) ==
  LET stored == s[IF t = "observations" THEN ObservationKey ELSE EventKey] IN
  IF stored # NoValue /\ stored >= 0 THEN stored
  ELSE IF t = "observations" THEN EnvObservationDays ELSE EnvEventDays

\* An IntervalTrigger computes the date of its first run.
Expressible(seconds) == seconds <= MaxSeconds

-----------------------------------------------------------------------------
(* Rows *)

\* INSERT: the id after the highest one.
NextIds(rows) == {i \in Ids : i - 1 \in {0} \cup {x.id : x \in rows} /\ \A x \in rows : x.id < i}
WithRow(rows, at) == rows \cup {[id |-> i, at |-> at] : i \in NextIds(rows)}

Old(rows, cutoff) == {x \in rows : x.at < cutoff}

-----------------------------------------------------------------------------
(* The process *)

Init ==
  /\ setting = Unset
  /\ phase = "down" /\ job = NoValue
  /\ pc = [r \in Savers |-> "idle"]
  /\ form = [r \in Savers |-> NoForm]
  /\ loaded = [r \in Savers |-> Unset]
  /\ clock \in 0..MaxTime
  /\ table \in [Tables -> {s \in SUBSET [id: Ids, at: 0..clock] :
                             \A a, b \in s : a.id = b.id => a = b}]
  /\ run = "idle" /\ due = 0 /\ now = 0 /\ days = NoDays
  /\ batch = {} /\ gone = None /\ locked = FALSE
  /\ alone = {} /\ crossed = FALSE /\ reborn = None

\* scheduled_retention: run_retention has the time once, for both tables.
Begin == run' = "observation_days" /\ now' = clock

\* The lifespan adds the jobs, the scan's with the resolved interval, and runs
\* the cleanup before it lets requests in when either retention is on.
Start ==
  /\ phase = "down" /\ Expressible(ResolveInterval(setting))
  /\ job' = ResolveInterval(setting) /\ due' = clock + 1
  /\ IF \E t \in Tables : ResolveDays(setting, t) > 0
     THEN phase' = "starting" /\ Begin
     ELSE phase' = "up" /\ UNCHANGED <<run, now>>
  /\ UNCHANGED <<setting, saves, clock, table, days, transaction, reborn, history>>

\* add_job raises, and so does the lifespan: the process ends.
StartFails ==
  /\ phase = "down" /\ ~Expressible(ResolveInterval(setting))
  /\ UNCHANGED vars

EndTransaction == batch' = {} /\ gone' = None /\ locked' = FALSE /\ reborn' = None

\* Killed: the jobs live in memory, and what is not committed is lost.
Crash ==
  /\ phase # "down"
  /\ phase' = "down" /\ job' = NoValue /\ alone' = {} /\ crossed' = FALSE
  /\ pc' = [r \in Savers |-> IF pc[r] = "idle" THEN "idle" ELSE "done"]
  /\ form' = [r \in Savers |-> NoForm] /\ loaded' = [r \in Savers |-> Unset]
  /\ run' = "idle" /\ due' = 0 /\ now' = 0 /\ days' = NoDays /\ EndTransaction
  /\ UNCHANGED <<setting, clock, table>>

Tick ==
  /\ clock < MaxTime /\ clock' = clock + 1
  /\ UNCHANGED <<setting, phase, job, saves, table, cleanup, history>>

\* The commit of another transaction; the cleanup's holds the write lock from
\* its first DELETE on.
Insert(t) ==
  /\ ~locked
  /\ table' = [table EXCEPT ![t] = WithRow(@, clock)]
  /\ reborn' = IF run = t
               THEN [reborn EXCEPT ![t] = @ \cup {x \in table'[t] \ table[t] : x.id \in batch}]
               ELSE reborn

untouched == <<run, due, now, days, transaction>>

\* A scan or a request adds a row, or deletes a device and with it any rows.
AddRow(t) ==
  /\ phase = "up" /\ Insert(t)
  /\ UNCHANGED <<setting, phase, job, saves, clock, untouched, history>>
DeleteRows(t, xs) ==
  /\ phase = "up" /\ ~locked
  /\ table' = [table EXCEPT ![t] = @ \ xs]
  /\ reborn' = [reborn EXCEPT ![t] = @ \ xs]
  /\ UNCHANGED <<setting, phase, job, saves, clock, untouched, history>>

-----------------------------------------------------------------------------
(* A save *)

others == <<phase, clock, untouched>>

Submit(r, f) ==
  /\ phase = "up" /\ pc[r] = "idle"
  /\ IF Accepted(f)
     THEN Goto(r, "load") /\ form' = [form EXCEPT ![r] = f] /\ UNCHANGED loaded
     ELSE Answer(r)
  /\ UNCHANGED <<others, setting, job, table, history, reborn>>

\* _upsert_setting looks its row up.  The two keys of a retention are read one
\* after the other; the values only matter together, at the commit.
Load(r) ==
  /\ pc[r] = "load"
  /\ loaded' = [loaded EXCEPT ![r] = [k \in Keys |->
                  IF k \in KeysOf(form[r]) THEN setting[k] ELSE NoValue]]
  /\ Goto(r, "write")
  /\ UNCHANGED <<others, setting, job, form, table, history, reborn>>

Changed(was, new, stored) == IF new = was THEN stored ELSE new

\* INSERT of a key that has come in between fails; UPDATE only of a new value.
\* The commit expires the loaded rows.
Commit(r) ==
  /\ pc[r] = "write" /\ ~locked
  /\ \A k \in KeysOf(form[r]) : loaded[r][k] = NoValue => setting[k] = NoValue
  /\ setting' = [k \in Keys |-> IF k \in KeysOf(form[r])
                                THEN Changed(loaded[r][k], ValueOf(form[r], k), setting[k])
                                ELSE setting[k]]
  /\ IF form[r] \in IntervalForms
     THEN /\ Goto(r, "reschedule")
          /\ alone' = {q \in {r} : setting'[IntervalKey] = form[r].interval.number
                                   /\ \A p \in Savers : pc[p] # "reschedule"}
     ELSE Goto(r, "log") /\ UNCHANGED alone
  /\ loaded' = [loaded EXCEPT ![r] = Unset]
  /\ UNCHANGED <<others, job, form, table, crossed, reborn>>

CommitFails(r) ==
  /\ pc[r] = "write" /\ Answer(r)
  /\ UNCHANGED <<others, setting, job, table, history, reborn>>

\* Plausible bug: a preset is taken for the interval that runs already.
RescheduleCustomOnly(r) ==
  /\ pc[r] = "reschedule" /\ Goto(r, "log")
  /\ job' = IF form[r].interval.custom THEN form[r].interval.number ELSE job
  /\ crossed' = (r \notin alone) /\ alone' = alone \ {r}
  /\ UNCHANGED <<others, setting, form, loaded, table, reborn>>

\* Plausible bug: the seconds are only looked at when the job is due.
RescheduleUnchecked(r) ==
  /\ pc[r] = "reschedule" /\ Goto(r, "log")
  /\ job' = form[r].interval.number
  /\ crossed' = (r \notin alone) /\ alone' = alone \ {r}
  /\ UNCHANGED <<others, setting, form, loaded, table, reborn>>

\* reschedule_scan_job; an exception of the trigger is passed over.
Reschedule(r) ==
  /\ pc[r] = "reschedule" /\ Goto(r, "log")
  /\ LET seconds == form[r].interval.number IN
     job' = IF Expressible(seconds) THEN seconds ELSE job
  /\ crossed' = (r \notin alone) /\ alone' = alone \ {r}
  /\ UNCHANGED <<others, setting, form, loaded, table, reborn>>

\* The event is a second transaction: if it fails the page reports an error,
\* although the setting is in force.
Log(r) ==
  /\ pc[r] = "log" /\ Answer(r)
  /\ UNCHANGED <<table, reborn>> \/ Insert("events")
  /\ UNCHANGED <<others, setting, job, history>>

-----------------------------------------------------------------------------
(* The cleanup *)

outside == <<setting, phase, job, saves, clock, history>>

\* The daily job.
Daily ==
  /\ phase = "up" /\ run = "idle" /\ clock >= due
  /\ Begin /\ due' = clock + 1
  /\ UNCHANGED <<outside, table, days, transaction, reborn>>

\* Two SELECTs: a save of both values may commit in between.
ResolveTable(t, p, next) ==
  /\ run = p /\ run' = next
  /\ days' = [days EXCEPT ![t] = ResolveDays(setting, t)]
  /\ UNCHANGED <<outside, table, due, now, transaction, reborn>>
Resolve ==
  \/ ResolveTable("observations", "observation_days", "event_days")
  \/ ResolveTable("events", "event_days", "observations")

TableAfter(t) == IF t = "observations" THEN "events" ELSE "commit"
\* Plausible bug: the ids are looked up in a session of their own.
VisibleCommitted(t) == table[t]

Visible(t) == table[t] \ gone[t]
Prunable(t) == IF days[t] = 0 THEN {} ELSE Old(Visible(t), now - days[t])

\* The next ids, in no order; without any the other table is next.
SelectBatch(t) ==
  /\ run = t /\ batch = {} /\ days[t] <= MaxDays
  /\ \E xs \in SUBSET Prunable(t) :
       /\ Cardinality(xs) <= BatchSize
       /\ Cardinality(xs) = BatchSize \/ xs = Prunable(t)
       /\ batch' = {x.id : x \in xs}
       /\ run' = IF xs = {} THEN TableAfter(t) ELSE t
  /\ UNCHANGED <<outside, table, due, now, days, gone, locked, reborn>>

\* Plausible bug: the rows are deleted in the session, which does not flush.
DeleteUnflushed(t) ==
  /\ run = t /\ batch # {}
  /\ batch' = {}
  /\ UNCHANGED <<outside, table, run, due, now, days, gone, locked, reborn>>

\* Plausible bug: one batch a day for either table.
DeleteOneBatch(t) ==
  /\ run = t /\ batch # {}
  /\ gone' = [gone EXCEPT ![t] = @ \cup {x \in Visible(t) : x.id \in batch}]
  /\ batch' = {} /\ locked' = TRUE /\ run' = TableAfter(t)
  /\ UNCHANGED <<outside, table, due, now, days, reborn>>

\* The DELETE names the ids only.
DeleteBatch(t) ==
  /\ run = t /\ batch # {}
  /\ gone' = [gone EXCEPT ![t] = @ \cup {x \in Visible(t) : x.id \in batch}]
  /\ batch' = {} /\ locked' = TRUE
  /\ UNCHANGED <<outside, table, run, due, now, days, reborn>>

\* With the event retention_run, in the same transaction.
CommitCleanup ==
  /\ run = "commit" /\ run' = "committed"
  /\ table' = [observations |-> Visible("observations"),
               events |-> WithRow(Visible("events"), clock)]
  /\ EndTransaction
  /\ UNCHANGED <<outside, due, now, days>>

\* A date that cannot be expressed, or an error of the database: the session is
\* closed, and with it the transaction.
FailCleanup ==
  /\ run \notin {"idle", "committed", "failed"} /\ run' = "failed"
  /\ EndTransaction
  /\ UNCHANGED <<outside, table, due, now, days>>

\* scheduled_retention passes over the exception; a start goes on.
EndCleanup ==
  /\ run \in {"committed", "failed"} /\ run' = "idle"
  /\ phase' = "up" /\ now' = 0 /\ days' = NoDays
  /\ UNCHANGED <<setting, job, saves, clock, history, table, due, transaction, reborn>>

CleanupStep ==
  \/ Resolve \/ CommitCleanup \/ FailCleanup \/ EndCleanup
  \/ \E t \in Tables : SelectBatch(t) \/ DeleteBatch(t)

SaveStep(r) ==
  \/ r \in IntervalSavers /\ \E f \in IntervalForms : Submit(r, f)
  \/ r \in RetentionSavers /\ \E f \in RetentionForms : Submit(r, f)
  \/ Load(r) \/ Commit(r) \/ CommitFails(r) \/ Reschedule(r) \/ Log(r)

Next ==
  \/ Start \/ StartFails \/ Crash \/ Tick \/ Daily \/ CleanupStep
  \/ \E r \in Savers : SaveStep(r)
  \/ \E t \in Tables : AddRow(t) \/ \E xs \in SUBSET table[t] : DeleteRows(t, xs)

\* The cleanup's thread goes on.
Spec == Init /\ [][Next]_vars /\ WF_vars(CleanupStep)

-----------------------------------------------------------------------------
(* Properties *)

Settings == [Keys -> Nat \cup {NoValue}]
TypeOK ==
  /\ setting \in Settings
  /\ phase \in {"down", "starting", "up"} /\ job \in 1..MaxSeconds \cup {NoValue}
  /\ pc \in [Savers -> SavePoints]
  /\ form \in [Savers -> Forms \cup {NoForm}]
  /\ loaded \in [Savers -> Settings]
  /\ clock \in Nat /\ due \in Nat /\ now \in Nat
  /\ table \in [Tables -> SUBSET Rows] /\ gone \in [Tables -> SUBSET Rows]
  /\ run \in RunPoints /\ days \in [Tables -> Nat]
  /\ batch \subseteq Ids /\ locked \in BOOLEAN
  /\ alone \subseteq Savers /\ crossed \in BOOLEAN
  /\ reborn \in [Tables -> SUBSET Rows]

\* The scan job runs at the stored interval: unless a save is between commit and
\* reschedule, two of them overlapped there, the last one found its value stored
\* when it loaded but not any more when it committed, or no date can express it.
JobFollowsSetting ==
  phase = "up" /\ ~crossed /\ (\A r \in Savers : pc[r] # "reschedule")
  /\ Expressible(ResolveInterval(setting)) => job = ResolveInterval(setting)

\* A cleanup that commits leaves of either table exactly the rows that are not
\* older than its retention at the time it began, all batches together, and a
\* row of the batch's ids that was added before the DELETE is the only other one
\* it takes.
Kept(t) == {x \in table[t] \ reborn[t] : days[t] = 0 \/ x.at >= now - days[t]}
RetentionExact ==
  [][run = "commit" /\ run' = "committed" =>
       /\ table'["observations"] = Kept("observations")
       /\ table'["events"] = WithRow(Kept("events"), clock)]_vars

\* How far a cleanup is.
Position ==
  [p \in RunPoints |-> CASE p = "observation_days" -> 1 [] p = "event_days" -> 2
                       [] p = "observations" -> 3 [] p = "events" -> 4 [] p = "commit" -> 5
                       [] p = "committed" -> 6 [] p = "failed" -> 7 [] OTHER -> 8]
Advances ==
  /\ run # "idle" /\ run' # run => Position[run'] > Position[run]
  /\ run \in Tables /\ run' = run =>
       /\ Prunable(run)' \subseteq Prunable(run) /\ (locked => locked')
       /\ batch # {} /\ batch' = {} =>
            IF locked THEN Prunable(run)' # Prunable(run) ELSE locked'

\* The way of a cleanup: it never returns to a point behind it, what is left to
\* prune of its table only becomes less, whatever other transactions add and
\* delete, and no batch is in vain: the first DELETE takes the write lock, which
\* stays, and every one after it deletes a row that was too old.
CleanupAdvances == [][Advances]_vars

\* The batches come to an end, so a start lets requests in and the next daily
\* cleanup can begin, whatever is added or deleted meanwhile.
RetentionEnds ==
  /\ run # "idle" ~> run = "idle"
  /\ phase = "starting" ~> phase # "starting"

=============================================================================
