# Formal models of UniFi NetWatcher

TLA+ models of the parts of NetWatcher whose correctness depends on *order*: which thread, request,
command or crash comes first. TLC checks them on small instances, TLAPS proves the main safety
properties for every value of the constants. File names below are relative to `app/`.

## 1. The system

NetWatcher is one Python process (FastAPI, APScheduler, SQLAlchemy on one SQLite file) and a command
line tool. Route handlers that are plain functions run in a thread pool, and so do the scheduled jobs;
all of them share the database, which has *one* writer at a time.

| Component | State it keeps | Operations | Interacts with |
|---|---|---|---|
| Scan and alerts, `scanner.py` | `_scan_lock`, rows of `devices` and `events`, intents in memory | `run_scan`, `_deliver_queued_alerts` | UniFi client, providers, every writer of `devices` |
| Device service, `services/devices.py` | `devices`, audit log | trust, ignore, reset, rename, notes, delete, block, unblock, bulk | scan (same rows), controller |
| Import and export, `api/routes_import_export.py` | `devices` | trusted import, exports | scan and requests (same MACs) |
| Retention, `retention.py` | deletes old `events`, `observations` | `run_retention` in batches | cooldown query of the scan, settings |
| OUI data, `oui.py` | `oui_entries` | download, upsert in one transaction | write lock |
| Secrets and rekey, `security/secrets.py`, `security/crypto_migrate.py`, `cli.py` | key file, `.new`, `.bak`, `_fernet`, encrypted rows | resolve or generate, migrate, rekey, clean up | channels, lifespan |
| Notification channels, `api/routes_notifications.py` | rows of `notification_channels` | create, delete, test | scan, rekey |
| Security settings, `security/service.py`, `security/routes.py` | the row of `security_settings`, `_policy_cache` | three saves, page, lookup | middleware |
| Middleware, `security/middleware.py` | recent failures by address | one decision per request | policy cache, thread of the password check |
| Tools page, `web/display.py`, `api/routes_import_export.py` | settings rows | save the interval, save the retention, resolve | scheduler, retention |
| Lifespan, `main.py` | scheduler and its jobs | start, stop, reschedule | all |
| Providers, `notifications/` | a shared HTTP client | `send` | scan |
| UniFi client, `unifi/client.py` | a shared session, login flag | clients, block, unblock | scan, device service |
| Configuration, pages, schemas | - | read, validate, render | - |

Hard behaviours, and what makes each component correct:

* **Scan.** It loads rows, works for a long time, commits, then calls providers over HTTP, then
  commits again. In between, requests decide about the same devices, delete them or insert their MAC;
  ids are reused; any write may fail on the lock; channels fail or disappear; the process may die.
  Correct: one row per MAC, no decision lost, no alert for a settled device, repeat alerts further
  apart than the cooldown, every queued alert answered, every scan ends.
* **Key rotation.** The database and the key file cannot change in one step. Correct: no step of a start
  or of a rekey, nor a failure in it, takes away the last secret that reads all the rows; a running
  application can be restarted as long as no rekey has overtaken it.
* **Security settings.** Saves merge column by column and share a cache with requests that only read.
  Correct: what is enforced was committed as a whole, the default-credentials flag is true, and
  protected columns change only when a form with the password asks.
* **Device actions.** A request loads rows, for block and unblock then talks to the controller, and
  commits at the end. Meanwhile others decide about the same rows, a row may go, and its id may come
  back for another MAC. A command may be executed without its answer arriving; a session may be over
  (401, one more login, one more attempt). An UPDATE names only the columns that differ from what was
  loaded. Correct: the audit log tells the status in force, the controller's block list and the rows
  differ only where the code leaves them apart, no command is executed twice, a request with many
  devices applies to all of them or to none.
* **Settings, scheduler, retention.** A saved interval and the job's interval are two states, changed
  one after the other by threads nothing orders. The cleanup reads two settings, looks up a batch of ids,
  and deletes by id, in one transaction that excludes other writers only from its first DELETE on.
  Correct: the job runs at the stored interval, a cleanup deletes what is too old, all batches or none,
  and comes to an end.
* **Access.** A request is judged on the event loop, but its password is checked in a thread; the limiter
  is asked before and booked after, and the policy may be saved meanwhile. Correct: every answer follows
  from a policy of the time of the request, no failure that counts is lost to the lazy pruning, and the
  limit is overrun at most by the checks in flight.

The complete list of what can go wrong, each at its line and with the properties that would catch it,
is under `hazards` in `PROJECT.json`.

## 2. Modules

| Module | What it is |
|---|---|
| `AlertPolicy` | abstract specification: what the scanner promises about repeat alerts |
| `Scanner` | the scan, its delivery and everything that runs beside it on the database |
| `KeyRotation` | key files, encrypted rows, start of the application, rekey command, operator |
| `SecurityPolicy` | security row, policy cache, concurrent reads and saves |
| `DeviceTable` | abstract specification: how the rows of `devices` change, whoever changes them |
| `DeviceActions` | requests about devices, the trusted import, commands to the controller |
| `Schedule` | settings, scan job, saves, start, and the batched cleanup |
| `Access` | the middleware: decision, password check, failure limiter |
| `MC...` | for each of these: model values, initial states and symmetry for TLC |
| `ScannerProofs`, `RowProofs`, `CooldownProofs` | theorems about `Scanner` |
| `KeyProofs`, `PolicyProofs`, `DeviceProofs`, `ScheduleProofs`, `AccessProofs` | theorems about `KeyRotation`, `SecurityPolicy`, `DeviceActions`, `Schedule`, `Access` |

How they fit together. `Scanner` lets requests change rows in single steps, `DeviceActions` lets a scan
insert one. Both implement the same `DeviceTable` (`TableKept`, `ImplementsTable`): what either takes for
the other's effect on the rows is what the other does. `Scanner` takes the retention for one step;
`Schedule` shows that its batches amount to one (`RetentionExact`). `Access` takes the policy as given and
changing at any moment; `SecurityPolicy` is where it changes.

An operator whose comment starts with "Plausible bug" or "Mutant" is a mutant: the definition it varies, replaced
by it, violates the property `PROJECT.json` names. No specification uses one.

### Scanner

One thread of `Scanners` is in `run_scan`; `pc` says where. A thread's locals that a later step reads
(`now`, `clients`, `loaded`, `unknown`, `intents`, ...) are variables of their own, so that a value
read early and used late is stale when the code's is. What a session has added but not flushed is
`added`; what it has flushed but not committed is `tx`, visible to nobody else. `writer` is SQLite's
write lock: the first flush takes it, commit and rollback give it back, and a session that finds it
taken by another may fail (busy timeout). With `AllowFaults` any write may fail, also the holder's
(`WriteFails`: disk full, I/O error). A provider takes a message and confirms it (`SendAlert`), takes it and
the code does not learn of it (`LoseAnswer`: a timeout after the POST, an answer that breaks off or is longer
than the cap of `notifications/http.py`), or does not take it (`SendFails`). The code counts the last two
alike.

| `pc` | Code |
|---|---|
| `start` | commit of `scan_started` |
| `fetch`, `fail` | answer of the controller; commit of `scan_failed` |
| `load` | batch lookup of the rows |
| `upsert` | the loop over the clients, with the flush of every new row |
| `choose` | cooldown query, intents, commit of the scan |
| `deliver`, `queue`, `send` | channel query; flush of `alert_queued`; one provider call after another; commit |
| `release` | `finally` of `run_scan` |

The environment: `SetStatus`, `DeleteDevice`, `ImportTrusted`, `CreateChannel`, `DeleteChannel` (each
one short transaction), `Retain`, `OuiBegin`/`OuiEnd`, `Tick`, `Crash`. `recorded`, `notified`,
`reached`, `confirmed` and `settled` are history variables for the properties: `notified` and `reached`
tell what providers took, `confirmed` for which devices one of them said so.

Abstractions. The retention deletes in batches but commits once, so here it is one step. Telemetry,
observations, delivery rows and log rows no step reads are left out; their foreign keys remain as
conditions of the flush. Time is a small counter, and `MaxStall` bounds what passes between reading
`now` and the cooldown query, which in the code is at most a wait for the lock.

### KeyRotation

A row is modelled by the key it is encrypted with, a file by the secret in it; `Partial` is what an
unfinished write leaves. `FromEnv` and `FromText` are the two ways the code makes a key from a secret.
The application and the command each have a program counter; every file operation and commit of the
command is a step with a failing twin, and the command may be killed at any of them. One command runs at a
time, but it may run beside the application: nothing in the code or its documentation keeps the two apart.
The recoveries that the README and the command's messages propose are steps of the operator
(`FinishActivation`, `RestoreBackup`), possible whenever no command runs and the file is there: he cannot
see which key the rows are under.

Two histories tell when application and command got in each other's way. `overtaken`: since the running
application resolved its key, somebody else has encrypted the rows anew or replaced the key file. `crossed`:
since the running command read the rows, the application has written one (`crypto_migrate.py:103`). What
the properties promise, and where they stop:

| Property | Promise | Excepted |
|---|---|---|
| `KeysAreKept` | a step leaves one secret the operator holds that reads all channels, if there was one | `crossed`, writes of an application that is `overtaken`, a key staged over another one (`cli.py:81`), key files replaced by hand |
| `RestartWorks` | a running application can be restarted | `overtaken` |
| `ActivationAfterCommit` | the program replaces the active file only by a key that reads the rows | `crossed`, key files replaced by hand |

None of the exceptions can be left out: TLC finds each property violated without any one of its own. The one
for `RestoreBackup` is a hole in the program's advice. When the verification after a rekey fails, the
rows are already under the new key, and `cli.py:145` proposes to restore the backup over the key file,
which holds the only copy of that key; an operator who follows it loses the channels.

### SecurityPolicy

A request keeps in `loaded` the row its SELECT returned. Every path through
`ensure_security_settings` is `Load` then `BindLoaded`; a page or a refused form ends there
(`AnswerUnsaved`), a save commits, refreshes, empties the cache and fills it, in four steps. `Changed`
is SQLAlchemy's rule that an UPDATE names only the columns that differ from what was loaded. The
middleware's lookup of an empty cache is such a request too; a lookup that finds the cache filled
changes nothing and is no step. The row exists before requests are served (`main.py:107`), so the
insert race inside `ensure_security_settings` cannot happen and is not modelled. The SELECT of
`db.refresh` is taken to succeed. `committed` is a history variable.

### DeviceActions and DeviceTable

A request walks through `pc`; `seen` holds the rows its session has loaded, so that what it decides on
late is what it read early.

| `pc` | Code |
|---|---|
| `idle` | the form arrives; an import that is too long is refused (`IMPORT_MAX_ROWS`) |
| `load` | `get_or_raise`, one SELECT for each id of a bulk action, one SELECT for an import |
| `command` | dry run or mock mode, else the client's `_logged_in` flag |
| `login`, `post`, `relogin`, `repost` | `_stamgr_cmd`: a login if needed, the POST, after a 401 one more of each |
| `write` | audit rows, changed columns, commit |

`Execute` is the controller carrying a command out; its answer may be lost to the timeout. `Changed` is
the UPDATE of differing columns, `Saveable` the two ways a flush fails on its own (the row is gone, the
MAC has come), `SaveFails` adds the locked database. A saved decision about one device may still be
answered with an error (`unread`), since the answer reads the row once more. `ScanInserts`, `ScanLogsIn` and `SessionEnds` are
what a scan and the controller do beside. An import runs on the event loop, so not beside another import.

Histories: `told` is the status a reader of the audit log concludes, `blind` the rows whose last word is
a block or unblock that wrote nothing and does not say so, `apart` the MACs for which the code leaves row
and controller apart (a lost answer, a commit that failed after the command, two commands at once, an id
that changed hands, a blocked device that got another status without an unblock), `sent` the executed
commands. `ControllerAgrees` says that these are all the ways. The wider the list of exceptions, the
weaker the property; each of them is one line of the model at the step where it happens, and a model
without any one of them violates it.

`DeviceTable` has three steps: some rows get one status, a row goes, rows are added with one status, each
for a MAC that has none. A scan only ever takes the third, and commits it as a whole. It is what makes
every `OneRowPerMac` and `NoLostDecision` of the two models one promise.

### Schedule

`Load`, `Commit`, `Reschedule`, `Log` are the four places of a save between which other threads run;
`job` is the trigger's interval in memory, gone with the process. `Start` is the lifespan's, which runs
the cleanup before requests are let in. The cleanup's `run` says where it is: two lookups of settings,
then per table `SelectBatch` and `DeleteBatch` until a lookup returns nothing, then the commit. `gone` is
what its transaction has deleted, `locked` the write lock from the first DELETE on. A date too large for
`datetime` raises `OverflowError`: `Reschedule` passes over it, `StartFails` ends the process, and the
cleanup fails. Histories: `alone` are the saves whose value has been the stored one since their commit,
`crossed` says that the last reschedule was by another, `reborn` are rows that came under an id of the
batch that is about to be deleted.

### Access

A worker is `idle`, `checking` or `answered`. `Arrive` is `dispatch` up to its `await`: host, origin and
client checks, the limiter, the credentials; a policy that cannot be loaded is an error and lets nobody in. `Finish` is the end of the check in its thread together with
what follows on the event loop. `bucket` is the deque of failure times, pruned only when asked. Hosts,
addresses and accounts are what the decision compares, not text. Histories: `failures` are all failure
times since the last success, `during` the policies there were while the request was handled, `tooMany`
whether its address had `Limit` recent failures when it arrived.

## 3. Runs

| Run | Shows | Instance |
|---|---|---|
| `scanner_races` | types, locks, one row per MAC, no lost decision, no alert for settled devices, failed scans silent, one alert per scan, every step of a scan leads on; `Scanner` implements `DeviceTable` | 2 threads, 2 MACs, 3 ids, time stands still |
| `scanner_alerts` | recorded alerts were sent, are answered, keep the cooldown, a message comes again within it only if it has no `alert_sent` row; `Scanner` implements `AlertPolicy` | 1 device, 2 channels, 4 moments, retention, crashes, lost answers |
| `scanner_ends` | every scan ends (liveness) | 2 threads, 1 MAC |
| `key_rotation` | types, no step loses the last key, restart works, activation only after commit, with the exceptions of section 2 | 2 channels, 1 phrase, 1 Fernet-format secret, 3 generated keys |
| `policy` | types, only committed policies, honest flag, protected changes asked | 2 requests, 2 names, 3 saves |
| `devices` | types, the audit log is true, controller and rows agree, commands once, all or none, requests advance; `DeviceActions` implements `DeviceTable` | 2 requests, 2 MACs, 2 ids, 4 files |
| `schedule` | types, the job follows the setting, the cleanup is exact, every batch of it counts, and it ends (liveness) | 2 saves, batches of 1, 2 ids per table, 2 days |
| `access` | types, answers follow a policy, failures are counted, the overrun is bounded | 2 requests at once, 3 policies, 2 environments, limit 2 |
| `scanner_resend`, `key_rerun`, `policy_stale`, `policy_cidr` | expected violations, section 5 | |

Why the bounds are enough:

* *Scanner.* All interference is between a scan and at most one other actor at a time, on one device
  or on two rows of one MAC; two MACs give a scan that handles one row while another is touched, two
  clients per answer give a repeated MAC, three ids leave room for a deletion and a reused id. The
  cooldown is 1 and the clock goes to 3, so an alert inside, on and beyond the boundary and a repetition
  that is recorded again are reached; two channels give a message that goes out beside one that fails, a
  channel that is deleted before the flush, an answer that is lost beside one that is not, and the rollback
  after a message. Splitting space and time
  into two runs keeps both exhaustive: decisions and rows do not depend on the clock, the cooldown is
  per device. Two scanners never overlap because of
  `LockDiscipline`, so one is enough over time.
* *KeyRotation.* Two channels: one the command has loaded and one it has not. Three generated keys:
  the first start and two rotations, the second of which overwrites files of the first.
* *SecurityPolicy.* Three saves: one to reach an interesting row, two that race. One network and one
  host name give an empty and a non-empty list; an address elsewhere gives the lockout check.
* *DeviceActions.* What goes wrong goes wrong between two requests. Two MACs and two ids: a row
  that goes while its request waits and an id that comes back for the other MAC. The first row starts in
  any status and with or without a name, the second MAC with or without a row. The files have a comment,
  a repeated MAC with the note in its second line, two MACs in the other order, and too many records
  (`MaxRows` 2).
* *Schedule.* Two saves overlap in every order. The intervals are a preset, a custom one, one below the
  minimum and one no date can express; the retentions one day, off, one no date can express and none. A
  batch of one makes two rows two batches; two ids leave room for a deletion and a reused id; a clock to
  2 gives rows inside, on and beyond the boundary of a day, and a second daily run. `part` splits
  the product: saves of intervals with events only, or both tables with the retention save. The
  cleanup treats the tables one after the other with the same code, and reads no interval.
* *Access.* Two requests at once are the smallest overrun, with a limit of 2 there is a failure before
  it, and a window of 1 on a clock to 2 gives failures inside, on and out of it. The requests take every
  branch of the decision; the policies are authentication before and after a change of the account, and
  both restrictions.

Threads, MACs, channels and requests are interchangeable, so symmetry is used where all of them have one
role; never in a liveness run. Deadlock is checked in the runs of the first three models. In `devices`,
`schedule` and `access` it is not, since there the system may stop: every request is served once, the
clock ends, and nobody need start the application again.

**Fairness.** `scanner_ends` assumes weak fairness of `ScanStep` of each thread and of nothing else: a
thread inside `run_scan` is runnable, every HTTP call it makes has a timeout (`unifi/client.py`,
`notifications/http.py`), and a wait for the write lock ends with SQLite's busy timeout. Neither the
OUI writer nor any request need ever finish. `schedule` assumes weak fairness of `CleanupStep` and of
nothing else: its thread is runnable and waits for nothing but the write lock, with the busy timeout,
after which it fails. The others have no liveness property: an operator or a browser may stop at any
point. What their requests do once they are under way is bounded all the same: `RequestsAdvance` is the
safety property that makes every request of `DeviceActions` finite. `ScansAdvance` and `CleanupAdvances`
are the same for the scan and the cleanup: with them, what fairness adds to the two liveness properties is
only that a step is taken.

## 4. Proofs

| Theorem | Property | Inductive invariant |
|---|---|---|
| `TypeCorrect` | `TypeOK` | itself (`TypeInv`) |
| `LocksAreGivenBack` | `LockDiscipline` | `TypeInv`, `LockDiscipline` |
| `NoScanGoesBack` | `ScansAdvance` | `TypeInv`, `LockDiscipline` |
| `RowsAreUnique`, `DecisionsStand` | `OneRowPerMac`, `NoLostDecision` | `RowInv` |
| `SettledStaySilent` | `SettledDevicesStaySilent` | `RowInv`, `SettledInv` |
| `ScannerImplementsTable` | `TableKept` | `RowInv`, `Blank`, with a step of `DeviceTable` for every step |
| `AlertsRespectCooldown` | `CooldownKept` | `AlertInv` |
| `ScannerImplementsPolicy` | `PolicyKept` | `AlertInv`, with a step of `AlertPolicy` for every step |
| `OneAlertEach`, `AlertsWereSent`, `AlertsHaveOutcome` | `OneAlertPerScan`, `RecordedAlertsWereSent`, `QueuedAlertsHaveOutcome` | `DeliveryInv` |
| `OnlyUnrecordedRepeats` | `RepeatedOnlyIfUnrecorded` | `AlertInv`, `DeliveryInv`, `AccountInv` |
| `CommittedDeliveriesKeepCooldown` | `MessagesRespectCooldown`, under a condition | `AlertInv`, `DeliveryInv`, `AccountInv`, `OwedInv` |
| `FailuresAreSilent` | `FailedScanIsSilent` | `SilentInv` |
| `KeyTypesCorrect`, `RestartAlwaysWorks`, `ActivationIsSafe`, `KeysKept` | `TypeOK`, `RestartWorks`, `ActivationAfterCommit`, `KeysAreKept` | `KeyInv` |
| `OnlyStagingLosesKey` | `StagedKeyRemains`, but for the step of the finding | `KeyInv` |
| `PolicyTypesCorrect`, `OnlyCommittedPolicies`, `FlagIsHonest`, `ProtectedChangesAreAsked` | `TypeOK`, `PolicyWasCommitted`, `DefaultFlagHonest`, `ProtectedChangesAsked` | `PolicyInv` |
| `CidrHoldsForFreshSaves`, `PolicyHoldsForFreshBinds`, `PoliciesOneAtATime` | `CidrNeverEmpty`, `SavedPolicyEnforced`, under a condition | `PolicyInv`, `BindInv`, `CurrentInv` |
| `DeviceTypes`, `AuditIsTrue`, `RowsAndController`, `OneCommand`, `AllOrNone`, `NoStepBack` | `TypeOK`, `AuditTellsStatus`, `ControllerAgrees`, `CommandsOnce`, `AppliedAsWhole`, `RequestsAdvance` | `DeviceInv` |
| `Refinement` | `ImplementsTable` | `DeviceInv`, with a step of `DeviceTable` for every step |
| `ScheduleTypes`, `JobIsRight`, `CleanupIsExact` | `TypeOK`, `JobFollowsSetting`, `RetentionExact` | `ScheduleInv` |
| `CleanupGoesOn` | `CleanupAdvances` | `ScheduleInv`, `BatchInv` |
| `AccessTypes`, `AnswersAreRight`, `NoFailureLost`, `OverrunIsBounded` | `TypeOK`, `AnswersFollowPolicy`, `FailuresCounted`, `OverrunBounded` | `AccessInv` |

* `RowInv` adds to uniqueness what the writing session relies on: a scan that has flushed a new row
  holds the write lock until its commit, so the MAC it did not find at the flush is still nobody's.
* `AlertInv` is `TypeInv`, `LockDiscipline`, `TimeInv` (a scan's `now` is at most `MaxStall` old at the
  cooldown query), `LedgerInv` (`recorded` is the time of the newest `alert_sent` row, unless the
  retention has deleted it, and then it is old), `QuietInv` (a thread has intents and
  uncommitted alerts only during a delivery, and by `LockDiscipline` only one thread does) and `DueInv`
  (every intent and every uncommitted alert is for a device that is due). `CooldownKept` alone says
  nothing about the intents in memory.
* `SettledInv` says that what a scan carries from step to step (the MACs it loaded as unknown, its
  candidates, its intents) names no device that was decided before it began and has stayed so.
* `DeliveryInv` is `TypeInv`, `LockDiscipline`, `QuietInv` and `MailInv`: while the session of a delivery
  holds anything it holds the write lock (so no deletion can forget what was reached), what it has as
  sent is true (`Told`), no intent is there twice (`Single`), and a queued alert has its outcome beside
  it or is the one being sent (`Answered`). `SilentInv` says that providers are reached only after the
  commit of the scan, from where it cannot fail any more.
* `ScannerImplementsTable` maps every step of `Scanner` to a step of `DeviceTable` or to a stutter: the
  commit of a scan to the addition of all it has inserted, an import to the addition of its new MACs
  together with the decision about the others. `RowInv` says that nobody else has taken a MAC or an id
  meanwhile, `Blank` that an id without a row has no status left over.
* `ScansAdvance` compares the place of a scan before and after any step, also of others. A scan that is
  under way is the only one (`LockDiscipline`), and every one of its loops works off a sequence or a
  set that nothing refills; `Stage` orders the places between the loops.
* `AccountInv` is about the delivery under way: a device some provider confirmed a message about has its
  outcome in the session, added or flushed or as the answer being worked on (`Kept`), dated no earlier than
  the message (`Dated`). So the commit records it, and the next scan finds it or knows it by its time. A
  message within the cooldown of another therefore shows that there is no `alert_sent` row for the first:
  its delivery was not committed, which is what the finding `scanner_resend` leaves of the promise, or
  every provider that took it failed to say so. The second is no fault of the program: a sender cannot tell
  a lost answer from a lost message, and `alert_failed` with another attempt is the safe choice.
* `OwedInv` looks at it from the other side: in a behaviour whose deliveries, once a provider has confirmed
  something, all end with their commit, whatever was confirmed is recorded or belongs to the delivery under
  way, and the promise of the repository's README.md:22 holds for every confirmed message
  (`CommittedDeliveriesKeepCooldown`). So for those an uncommitted delivery is the only way to the finding.
* `KeyInv` is `TypeOK` and what each point of the two processes knows. `ServerInv`: an application that is
  not overtaken holds the key a restart would resolve, and past its migration that key reads the rows.
  `CommandInv`: at each point of a command that the application has not crossed, what is staged, committed
  and activated; after the commit the rows are under the staged key, after the replacement under the active
  one. `FreshInv`: keys not yet generated are nobody's, and until the commit nothing is under the staged
  key, so the rows do not need the file that a rejected rekey removes. No assumption on the operator is
  left: the theorems hold for a command beside the application and for key files moved at any time, within
  the exceptions the properties name.
* `PolicyInv` adds that everything loaded or cached was committed (`HistoryInv`), and that the flag
  never comes back (`FlagInv`): a save that does not write the column relies on it.
* The findings about the policy need an overlap, and the conditional theorems say which.
  `CidrHoldsForFreshSaves`: the empty filter needs a commit that finds other CIDR columns than its SELECT
  did. `PolicyHoldsForFreshBinds`: the stale cache needs a bind of a row that was saved over (`BindInv`: a
  cached row that is not the saved one is otherwise about to be dropped). `PoliciesOneAtATime`: neither
  happens to requests that come one at a time (`CurrentInv`: they then hold the saved row), with failed
  saves and stops at any point. The conditions are about behaviours, not about the program, which
  enforces none of them; they are what a repair would have to establish.
* `DeviceInv` is `TypeOK`, `FormInv` (a request past its arrival has a form that was accepted), `FreeInv`
  (an id without a row has left nothing behind: a row that reuses it starts clean), `CommandInv` (how
  often the command has been executed at each point), `AuditTellsStatus`, `UniqueInv` (one row per MAC),
  `SeenInv` (a command is about one loaded row) and `AgreeInv`. `ControllerAgrees` says nothing while a
  command is under way; `AgreeInv` does: the request is the only one that commands the MAC, the row still
  says what it loaded, and the controller has what the row says before the command is executed and what
  the command asks after it.
* `ScheduleInv` is `TypeOK`, `FormInv`, `RunInv` (no cleanup without a process), `AloneInv` (a save that
  is alone between commit and reschedule has its value stored), `JobInv` (the property, with the start
  included) and `RowsInv`, which says of either table how far the cleanup is: what it has deleted was too
  old or came under an id of the batch, and past a table nothing old is left. `RetentionExact` speaks
  of one step, and needs all of that at the step. `BatchInv` adds that under the write lock every id of
  the batch is that of a row that is too old: so a DELETE takes at least one, and the loop shrinks what
  is left, which no other transaction can add to (a new row is not older than the cleanup's `now`).
* `AccessInv` adds to its properties `ClockInv` (failure times are in order and not in the future, so
  that pruning from the left removes what is old and nothing else) and `JudgeInv` (a request in the
  check was let that far by a policy in `during`). `OverrunBounded` needs no more than that a request is
  admitted to the check only below the limit, and that each of them adds one failure at most.

Assumptions. Named `ASSUME`s say that the sentinels are no ordinary values and that bounds are
numbers. Beyond them, `AlertsRespectCooldown`, `ScannerImplementsPolicy`,
`OnlyUnrecordedRepeats` and `CommittedDeliveriesKeepCooldown` assume `RetentionCoversCooldown` (a
retention at least as long as the cooldown, or none). Nothing in the code enforces it, and it cannot be
left out: without it TLC finds `CooldownKept` violated. The other theorems, those about `KeyRotation`,
`DeviceActions`, `Schedule` and `Access` among them, assume nothing of the sort.

Checked by TLC only: `EveryScanEnds` and `RetentionEnds` (liveness under fairness is beyond the
prover), of which `NoScanGoesBack` and `CleanupGoesOn` prove the part that is safety.
No module declares a RECURSIVE operator, so every one of them can be proved about; facts by induction
over sequences are avoided by stating invariants about members rather than about folds.

## 5. Findings

1. `scanner_resend`: messages are sent before the commit that records them; when it fails the next
   scan sends them again (`scanner.py:222`).
2. `key_rerun`: the rekey command, run again after an activation that failed or a process that died after
   its commit, writes over the only copy of the key of the rows (`cli.py:81`).
3. `policy_stale`: a page load that overlaps a save can put the policy from before it back into the
   cache (`security/service.py:131`).
4. `policy_cidr`: two valid saves merge into an enabled filter with an empty list
   (`security/service.py:488`).

Seen while modelling, without a run of their own:

* Providers are called inside the delivery's write transaction, although the docstring says a short one
  (`scanner.py:157`, `scanner.py:183`).
* A retention shorter than the cooldown, which the configuration allows, deletes the rows the cooldown is
  read from (`retention.py:74`).
* After a failed post-verification the command proposes to restore the backup over the only copy of the key
  the rows are under (`cli.py:145`), and README.md:167, "A failed rekey leaves the active key file and
  database unchanged", is not true of that failure.
* A message whose answer was lost counts as failed and is sent again by the next scan
  (`notifications/http.py:28`).
* A channel created while the rekey command runs keeps the old key, and the next start is refused
  (`security/crypto_migrate.py:103`).
* A custom interval has no upper bound. One that no date can express is stored, its exception is
  passed over, the job keeps its old interval, and the next start fails in `add_job`
  (`api/routes_import_export.py:115`).
* An UPDATE leaves out a column that the request loaded with the value it sets. So a device that another
  request changed in between keeps the other's status, and both requests report success
  (`services/devices.py:91`). The audit rows of trust, ignore and reset name the status before, which
  is why `AuditTellsStatus` holds for them; those of block and unblock do not (`blind`).
* Trust, ignore, reset, import and delete of a blocked device leave it blocked on the controller
  (`apart`).
* An `APP_SECRET_KEY` in the format of a Fernet key is hashed by the application but taken literally by
  `rekey --old-key` (`cli.py:35`), which then refuses it.

## 6. Not modelled

Sequential and free of shared state, so that unit tests reach it: the providers' URL checks, templates
and capped reads, the parsing of MACs, networks, hosts and files (modelled by what it yields), the
exports, formatting, pagination and rendering of `web/routes.py`, the health routes, `csp.py`, the
validation of single values in `config.py` and `schemas.py`. Download and parsing of the OUI list are
I/O; its transaction is in `Scanner`. Creation of the shared UniFi client is not modelled: the threads
that race there end up with one client each for a moment, which nothing tells apart but the number
of logins. Migrations run once, before anything else, and what a crash in one of them leaves depends on
how the driver treats DDL in a transaction, not on this code. `get_security_policy` reads the cache twice
(`security/service.py:164`) in one step of `SecurityPolicy`: the image runs CPython with its global lock,
which hands over at calls and backward jumps only, and there is none between the two reads. `worker.py`
states that it is unused.

## 7. Plan

Done, in the order of what matters most: alerts, keys, access policy, then `DeviceActions` with
`DeviceTable`, `Schedule`, `Access`; then the refinement of `DeviceTable` by the scanner, the measures behind the two
liveness properties, and what the findings leave of the promises they break. Left:

1. `Scanner`: the rows `scan_started`, `scan_finished` and `scan_failed` of which the status widget
   shows the latest (`scanner.py:249`), and the observations.
2. `Inputs`: MAC normalisation, retention and interval parsing, pagination, as operators against
   reference definitions over bounded inputs.
3. An abstract specification of the key files and rows that `KeyRotation` implements, and one of the
   policy as a single register, which it implements while saves do not overlap.
