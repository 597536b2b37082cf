----------------------------- MODULE DeviceActions -----------------------------
(***************************************************************************)
(* The requests that change devices: DeviceService (services/devices.py)   *)
(* with its routes, the import of trusted devices, and the commands the    *)
(* UniFi client sends for block and unblock.                               *)
(*                                                                         *)
(* A request loads its rows, sends a command if it has one, and commits    *)
(* once.  Nothing locks the rows in between: other requests and scans      *)
(* commit meanwhile, a row may go, and its id may come back for another    *)
(* MAC (SQLite reuses the highest rowid).  An UPDATE names the columns     *)
(* whose value differs from the loaded one, and fails if no row has the id.*)
(***************************************************************************)
EXTENDS Integers, Sequences, FiniteSets

CONSTANTS
  Requests,   \* each is served once, all of them possibly at the same time
  Macs,
  MaxId,      \* bound on the ids of devices
  Names,      \* display names and notes of an import file that are not empty
  Files,      \* uploaded files, as sequences of lines
  MaxRows,    \* IMPORT_MAX_ROWS
  NoMac, NoName, NoRow, NoForm

Ids == 1..MaxId
Statuses == {"unknown", "trusted", "ignored", "blocked"}
Rows == [mac: Macs, status: Statuses, name: Names \cup {NoName}]

\* A line of a file; a comment, a header or an invalid MAC gives no record.
Lines == [mac: Macs \cup {NoMac}, note: Names \cup {NoName}]

ASSUME BoundAssumption == MaxId \in Nat /\ MaxRows \in Nat
ASSUME FileAssumption == Files \subseteq Seq(Lines)
ASSUME NothingAssumption == NoMac \notin Macs /\ NoName \notin Names /\ NoRow \notin Rows

Commands == {"block", "unblock"}
Single == Commands \cup {"trust", "ignore", "reset", "notes", "delete"}

\* The status an operation sets.
Target == [trust |-> "trusted", bulk_trust |-> "trusted", import |-> "trusted",
           ignore |-> "ignored", bulk_ignore |-> "ignored",
           reset |-> "unknown", unblock |-> "unknown", block |-> "blocked"]

\* What a client may send.  BulkDeviceIdsRequest drops duplicate ids, and
\* RenameRequest refuses an empty name.
Forms ==
  [op: Single, ids: {{i} : i \in Ids}, name: {NoName}, lines: {<<>>}]
    \cup [op: {"rename"}, ids: {{i} : i \in Ids}, name: Names, lines: {<<>>}]
    \cup [op: {"bulk_trust", "bulk_ignore"}, ids: SUBSET Ids \ {{}}, name: {NoName}, lines: {<<>>}]
    \cup [op: {"import"}, ids: {{}}, name: {NoName}, lines: Files]

ASSUME NoFormAssumption == NoForm \notin Forms

VARIABLES
  macOf, status, name,   \* the committed rows, by id
  blocked,    \* the controller's list of blocked clients
  session,    \* the controller accepts the client's cookie
  loggedIn,   \* UnifiClient._logged_in
  dry,        \* UNIFI_DRY_RUN_BLOCKS or UNIFI_MOCK_MODE
  pc, form, todo, seen, result,   \* the requests: todo are ids still to load
  sent,       \* history: commands of a request the controller executed
  told,       \* history: the status the audit log gives for a row
  blind,      \* history: rows with an audit row that does not tell its effect
  apart       \* history: MACs something happened to that may leave row and
              \* controller apart (see ControllerAgrees)

rows == <<macOf, status, name>>
unifi == <<blocked, session, loggedIn>>
audit == <<told, blind>>
vars == <<rows, unifi, dry, pc, form, todo, seen, result, sent, audit, apart>>

Points == {"idle", "load", "command", "login", "post", "relogin", "repost", "write", "done"}
Results == {"none", "ok", "unread", "not_found", "refused", "controller", "failed"}
Saved == {"ok", "unread"}

Live == {i \in Ids : macOf[i] # NoMac}
HasRow(m) == \E i \in Ids : macOf[i] = m

At(r, p) == pc[r] = p
Goto(r, p) == pc' = [pc EXCEPT ![r] = p]

\* The answer, and get_db closes the session with its rows.
NoRows == [i \in Ids |-> NoRow]
Answer(r, a) ==
  /\ Goto(r, "done")
  /\ result' = [result EXCEPT ![r] = a]
  /\ seen' = [seen EXCEPT ![r] = NoRows]
Continue(r, p) == Goto(r, p) /\ UNCHANGED <<result, seen>>

Op(r) == form[r].op
SeenIds(r) == {i \in Ids : seen[r][i] # NoRow}

\* The request is between the load and the end of a block or unblock of m.
Commanding(r, m) ==
  /\ pc[r] \in {"command", "login", "post", "relogin", "repost", "write"}
  /\ Op(r) \in Commands /\ \E i \in SeenIds(r) : seen[r][i].mac = m

-----------------------------------------------------------------------------
(* The import file *)

MacsIn(lines) == {lines[k].mac : k \in DOMAIN lines} \ {NoMac}
RecordCount(lines) == Cardinality({k \in DOMAIN lines : lines[k].mac # NoMac})

\* Where a MAC first stands, and its first note that is not empty.
ComesBefore(lines, m, n) ==
  \E k \in DOMAIN lines : lines[k].mac = m /\ \A j \in 1..k : lines[j].mac # n
NoteFor(lines, m) ==
  LET noted == {k \in DOMAIN lines : lines[k].mac = m /\ lines[k].note # NoName}
  IN IF noted = {} THEN NoName
     ELSE lines[CHOOSE k \in noted : \A j \in noted : k <= j].note

-----------------------------------------------------------------------------
(* Loading *)

Init ==
  /\ macOf \in [Ids -> Macs \cup {NoMac}]
  /\ \A i, j \in Live : macOf[i] = macOf[j] => i = j
  /\ status \in [Ids -> Statuses] /\ \A i \in Ids \ Live : status[i] = "unknown"
  /\ name \in [Ids -> Names \cup {NoName}] /\ \A i \in Ids \ Live : name[i] = NoName
  /\ blocked = {m \in Macs : \E i \in Ids : macOf[i] = m /\ status[i] = "blocked"}
  /\ session = FALSE /\ loggedIn = FALSE /\ dry \in BOOLEAN
  /\ pc = [r \in Requests |-> "idle"]
  /\ form = [r \in Requests |-> NoForm]
  /\ todo = [r \in Requests |-> {}]
  /\ seen = [r \in Requests |-> NoRows]
  /\ result = [r \in Requests |-> "none"]
  /\ sent = [r \in Requests |-> 0]
  /\ told = status /\ blind = {} /\ apart = {}

\* A request arrives.  A file with too many records is refused as a whole,
\* before any row is read.
Start(r, f) ==
  /\ At(r, "idle")
  /\ form' = [form EXCEPT ![r] = f] /\ todo' = [todo EXCEPT ![r] = f.ids]
  /\ IF f.op = "import" /\ RecordCount(f.lines) > MaxRows
     THEN Answer(r, "refused")
     ELSE Continue(r, "load")
  /\ UNCHANGED <<rows, unifi, dry, sent, audit, apart>>

RowAt(i) == [mac |-> macOf[i], status |-> status[i], name |-> name[i]]

\* get_or_raise, or one turn of the loop of a bulk action: a SELECT of its own
\* for every id.
LoadRow(r, i) ==
  /\ At(r, "load") /\ i \in todo[r]
  /\ todo' = [todo EXCEPT ![r] = @ \ {i}]
  /\ IF i \notin Live /\ Op(r) \notin {"bulk_trust", "bulk_ignore"}
     THEN Answer(r, "not_found")
     ELSE /\ Goto(r, IF Op(r) \in Commands THEN "command"
                     ELSE IF todo[r] = {i} THEN "write" ELSE "load")
          /\ seen' = IF i \in Live THEN [seen EXCEPT ![r][i] = RowAt(i)] ELSE seen
          /\ UNCHANGED result
  /\ apart' = IF i \in Live /\ Op(r) \in Commands /\ \E q \in Requests : Commanding(q, macOf[i])
              THEN apart \cup {macOf[i]} ELSE apart
  /\ UNCHANGED <<rows, unifi, dry, form, sent, audit>>

\* The one SELECT of the import.  From here to its commit it runs on the event
\* loop, beside the threads of other requests but not beside another import.
LoadFile(r) ==
  /\ At(r, "load") /\ Op(r) = "import"
  /\ \A q \in Requests : At(q, "write") => Op(q) # "import"
  /\ seen' = [seen EXCEPT ![r] = [i \in Ids |->
                IF macOf[i] \in MacsIn(form[r].lines) THEN RowAt(i) ELSE NoRow]]
  /\ Goto(r, "write")
  /\ UNCHANGED <<rows, unifi, dry, form, todo, result, sent, audit, apart>>

-----------------------------------------------------------------------------
(* The command to the controller: UnifiClient._stamgr_cmd *)

commanding == <<rows, dry, form, todo, audit>>

Command(r) ==
  /\ At(r, "command")
  /\ Continue(r, IF dry THEN "write" ELSE IF loggedIn THEN "post" ELSE "login")
  /\ UNCHANGED <<commanding, unifi, sent, apart>>

LogIn(r) ==
  /\ pc[r] \in {"login", "relogin"}
  /\ loggedIn' = TRUE /\ session' = TRUE
  /\ Continue(r, IF At(r, "login") THEN "post" ELSE "repost")
  /\ UNCHANGED <<commanding, blocked, sent, apart>>

\* No login: after a 401, raise_for_status then raises for the first answer.
LogInFails(r) ==
  /\ pc[r] \in {"login", "relogin"}
  /\ Answer(r, "controller")
  /\ UNCHANGED <<commanding, unifi, sent, apart>>

\* Plausible bug: a command without an answer is sent once more, like a 401.
ExecuteAgain(r) ==
  /\ pc[r] \in {"post", "repost"} /\ session
  /\ \E i \in SeenIds(r) :
       LET m == seen[r][i].mac IN
       /\ blocked' = IF Op(r) = "block" THEN blocked \cup {m} ELSE blocked \ {m}
       /\ \/ Continue(r, "write") /\ UNCHANGED apart
          \/ At(r, "post") /\ Continue(r, "relogin") /\ UNCHANGED apart
  /\ sent' = [sent EXCEPT ![r] = @ + 1]
  /\ UNCHANGED <<commanding, session, loggedIn>>

\* The controller executes the command.  Its answer may come after the timeout.
Execute(r) ==
  /\ pc[r] \in {"post", "repost"} /\ session
  /\ \E i \in SeenIds(r) :
       LET m == seen[r][i].mac IN
       /\ blocked' = IF Op(r) = "block" THEN blocked \cup {m} ELSE blocked \ {m}
       /\ \/ Continue(r, "write") /\ UNCHANGED apart
          \/ Answer(r, "controller") /\ apart' = apart \cup {m}
  /\ sent' = [sent EXCEPT ![r] = @ + 1]
  /\ UNCHANGED <<commanding, session, loggedIn>>

\* Plausible bug: the status of the answer is not looked at.
PostFailureIgnored(r) ==
  /\ pc[r] \in {"post", "repost"}
  /\ Continue(r, "write")
  /\ UNCHANGED <<commanding, unifi, sent, apart>>

\* It does not: no connection, or an error status.
PostFails(r) ==
  /\ pc[r] \in {"post", "repost"}
  /\ Answer(r, "controller")
  /\ UNCHANGED <<commanding, unifi, sent, apart>>

\* Plausible bug: every 401 is answered with another login.
UnauthorizedLoops(r) ==
  /\ pc[r] \in {"post", "repost"} /\ ~session
  /\ Continue(r, "relogin")
  /\ UNCHANGED <<commanding, unifi, sent, apart>>

\* 401: one more login and one more attempt.
Unauthorized(r) ==
  /\ pc[r] \in {"post", "repost"} /\ ~session
  /\ IF At(r, "post") THEN Continue(r, "relogin") ELSE Answer(r, "controller")
  /\ UNCHANGED <<commanding, unifi, sent, apart>>

-----------------------------------------------------------------------------
(* The commit *)

\* The columns of a loaded row as the request leaves them.
NewStatus(r, i) == IF Op(r) \in DOMAIN Target THEN Target[Op(r)] ELSE seen[r][i].status
NewName(r, i) ==
  IF Op(r) = "rename" THEN form[r].name
  ELSE IF Op(r) = "import" /\ seen[r][i].name = NoName
       THEN NoteFor(form[r].lines, seen[r][i].mac)
       ELSE seen[r][i].name

\* Plausible bug: the loop of a bulk action ends after its first device.
OnlyOneUpdated(r) == {i \in SeenIds(r) : \A j \in SeenIds(r) : i <= j}

\* The rows an UPDATE is sent for: every action but the import sets updated_at.
Updated(r) ==
  {i \in SeenIds(r) : Op(r) = "import" => \/ NewStatus(r, i) # seen[r][i].status
                                          \/ NewName(r, i) # seen[r][i].name}
NewMacs(r) ==
  IF Op(r) # "import" THEN {}
  ELSE MacsIn(form[r].lines) \ {seen[r][i].mac : i \in SeenIds(r)}

Changed(was, new, now) == IF new = was THEN now ELSE new
StatusAfter(r, i) ==
  IF i \in Updated(r) THEN Changed(seen[r][i].status, NewStatus(r, i), status[i]) ELSE status[i]
NameAfter(r, i) ==
  IF i \in Updated(r) THEN Changed(seen[r][i].name, NewName(r, i), name[i]) ELSE name[i]

\* The next ids in the order of the file: each is one more than the highest one.
FreshIds(row, lines) ==
  /\ \A m \in DOMAIN row : \A i \in Live : i < row[m]
  /\ \A m \in DOMAIN row : row[m] - 1 \in {0} \cup Live \cup {row[n] : n \in DOMAIN row}
  /\ \A m, n \in DOMAIN row : m # n => (row[m] < row[n] <=> ComesBefore(lines, m, n))

\* Rows that get an audit row about their status.
Logged(r) ==
  IF Op(r) \in DOMAIN Target
  THEN {i \in SeenIds(r) : Op(r) = "import" => NewStatus(r, i) # seen[r][i].status} ELSE {}

\* Plausible bug: the audit rows of a decision only name the status asked for.
ToldWithoutPrevious(r, i) == NewStatus(r, i)

\* What the audit rows say: trust, ignore and reset name the previous status,
\* so a reader knows when nothing was written; block and unblock do not.
Told(r, i) == IF Op(r) \in Commands THEN NewStatus(r, i)
              ELSE Changed(seen[r][i].status, NewStatus(r, i), told[i])
Blinds(r) == {i \in Logged(r) : Op(r) \in Commands /\ NewStatus(r, i) = seen[r][i].status}

\* Where this commit may leave row and controller apart: a blocked device gets
\* another status without a command, or the id belongs to another MAC by now.
Parted(r) ==
  {macOf[i] : i \in {i \in Updated(r) \cap Live :
     \/ Op(r) \notin Commands /\ status[i] = "blocked" /\ StatusAfter(r, i) # "blocked"
     \/ Op(r) \in Commands /\ macOf[i] # seen[r][i].mac}}
  \cup {seen[r][i].mac : i \in {i \in Updated(r) : Op(r) \in Commands /\ macOf[i] # seen[r][i].mac}}

\* Plausible bug: the MAC column without its unique index.
SaveableTwice(r) == Updated(r) \subseteq Live

\* An UPDATE for a row that is gone raises StaleDataError, an INSERT of a MAC
\* that has got a row breaks the unique index: either way nothing is written.
Saveable(r) == Updated(r) \subseteq Live /\ \A m \in NewMacs(r) : ~HasRow(m)

\* The commit of everything but a deletion.  The answer about one device reads its
\* expired row once more; when that is gone, or cannot be read, the answer is an
\* error though all is saved.
Save(r) ==
  /\ At(r, "write") /\ Op(r) # "delete" /\ Saveable(r)
  /\ \E row \in [NewMacs(r) -> Ids] :
       LET lines == form[r].lines
           IsNew(i) == \E m \in NewMacs(r) : row[m] = i
           MacAt(i) == CHOOSE m \in NewMacs(r) : row[m] = i
       IN
       /\ FreshIds(row, lines)
       /\ macOf' = [i \in Ids |-> IF IsNew(i) THEN MacAt(i) ELSE macOf[i]]
       /\ status' = [i \in Ids |-> IF IsNew(i) THEN "trusted" ELSE StatusAfter(r, i)]
       /\ name' = [i \in Ids |-> IF IsNew(i) THEN NoteFor(lines, MacAt(i)) ELSE NameAfter(r, i)]
       /\ told' = [i \in Ids |-> IF IsNew(i) THEN "trusted"
                                 ELSE IF i \in Logged(r) THEN Told(r, i) ELSE told[i]]
       /\ blind' = blind \cup Blinds(r)
       /\ apart' = apart \cup Parted(r)
  /\ Answer(r, "ok") \/ (Op(r) \in Single \cup {"rename"} /\ Answer(r, "unread"))
  /\ UNCHANGED <<unifi, dry, form, todo, sent>>

\* The commit fails, or the flush before it: the row is gone or came in
\* between, or the database stays locked for the busy timeout.
SaveFails(r) ==
  /\ At(r, "write")
  /\ Answer(r, "failed")
  /\ apart' = IF Op(r) \in Commands THEN apart \cup {seen[r][i].mac : i \in SeenIds(r)} ELSE apart
  /\ UNCHANGED <<rows, unifi, dry, form, todo, sent, audit>>

\* Plausible bug: a deletion only marks the row, with a status of its own.
MarkDeleted(r) ==
  /\ At(r, "write") /\ Op(r) = "delete"
  /\ \E i \in SeenIds(r) : status' = [status EXCEPT ![i] = "deleted"]
  /\ Answer(r, "ok")
  /\ UNCHANGED <<macOf, name, unifi, dry, form, todo, sent, audit, apart>>

\* DELETE of a row that is gone already is a warning only.
DeleteDevice(r) ==
  /\ At(r, "write") /\ Op(r) = "delete"
  /\ \E i \in SeenIds(r) :
       /\ macOf' = [macOf EXCEPT ![i] = NoMac]
       /\ status' = [status EXCEPT ![i] = "unknown"]
       /\ name' = [name EXCEPT ![i] = NoName]
       /\ told' = [told EXCEPT ![i] = "unknown"]
       /\ blind' = blind \ {i}
       /\ apart' = IF status[i] = "blocked" THEN apart \cup {macOf[i]} ELSE apart
  /\ Answer(r, "ok")
  /\ UNCHANGED <<unifi, dry, form, todo, sent>>

-----------------------------------------------------------------------------
(* The rest of the system *)

\* A scan commits a client that has no row yet.
ScanInserts(m) ==
  /\ ~HasRow(m)
  /\ \E i \in Ids :
       /\ \A j \in Live : j < i
       /\ i - 1 \in {0} \cup Live
       /\ macOf' = [macOf EXCEPT ![i] = m]
  /\ UNCHANGED <<status, name, unifi, dry, pc, form, todo, seen, result, sent, audit, apart>>

\* A scan logs in with the same client, and the controller ends a session.
ScanLogsIn ==
  /\ loggedIn' = TRUE /\ session' = TRUE
  /\ UNCHANGED <<rows, blocked, dry, pc, form, todo, seen, result, sent, audit, apart>>
SessionEnds ==
  /\ session' = FALSE
  /\ UNCHANGED <<rows, blocked, loggedIn, dry, pc, form, todo, seen, result, sent, audit, apart>>

Serve(r) ==
  \/ \E i \in Ids : LoadRow(r, i)
  \/ LoadFile(r) \/ Command(r) \/ LogIn(r) \/ LogInFails(r)
  \/ Execute(r) \/ PostFails(r) \/ Unauthorized(r)
  \/ Save(r) \/ SaveFails(r) \/ DeleteDevice(r)

Next ==
  \/ \E r \in Requests : Serve(r) \/ \E f \in Forms : Start(r, f)
  \/ \E m \in Macs : ScanInserts(m)
  \/ ScanLogsIn \/ SessionEnds

Spec == Init /\ [][Next]_vars

-----------------------------------------------------------------------------
(* Properties *)

TypeOK ==
  /\ macOf \in [Ids -> Macs \cup {NoMac}]
  /\ status \in [Ids -> Statuses]
  /\ name \in [Ids -> Names \cup {NoName}]
  /\ blocked \subseteq Macs
  /\ session \in BOOLEAN /\ loggedIn \in BOOLEAN /\ dry \in BOOLEAN
  /\ pc \in [Requests -> Points]
  /\ form \in [Requests -> Forms \cup {NoForm}]
  /\ todo \in [Requests -> SUBSET Ids]
  /\ seen \in [Requests -> [Ids -> Rows \cup {NoRow}]]
  /\ result \in [Requests -> Results]
  /\ sent \in [Requests -> Nat]
  /\ told \in [Ids -> Statuses]
  /\ blind \subseteq Ids
  /\ apart \subseteq Macs

\* The audit log tells the status of every device: the last decision that says
\* it changed something is the one in force, however requests interleave,
\* although an UPDATE may leave the status column out.  The exception is a row
\* that was blocked or unblocked without effect: those audit rows do not say so.
AuditTellsStatus ==
  \A i \in Live : i \notin blind => told[i] = status[i]

\* The rows and the controller agree about who is blocked, unless a command was
\* executed without the request learning of it or committing it, two commands
\* for one client overlapped, the row's id changed hands under one, or a blocked
\* device was trusted, ignored, reset, imported or deleted without an unblock.
ControllerAgrees ==
  ~dry => \A m \in Macs \ apart :
            (\A r \in Requests : ~Commanding(r, m)) =>
               (m \in blocked <=> \E i \in Ids : macOf[i] = m /\ status[i] = "blocked")

\* A request that has saved its decision has had its command executed exactly
\* once, although it may post twice; no request has it executed more often.
CommandsOnce ==
  \A r \in Requests :
    /\ sent[r] <= 1
    /\ At(r, "done") /\ result[r] \in Saved /\ Op(r) \in Commands /\ ~dry => sent[r] = 1

\* A request with several rows applies its decision to all of them or to none:
\* the step that commits it leaves every row it has found with the status it
\* asks for, unless the row had it when it was loaded, and the others alone.
Applied ==
  \A r \in Requests :
    result[r] \notin Saved /\ result'[r] \in Saved /\ Op(r) # "delete" =>
      \A i \in Live :
        IF i \in SeenIds(r) /\ Op(r) \in DOMAIN Target
        THEN status'[i] = Target[Op(r)] \/ seen[r][i].status = Target[Op(r)]
        ELSE status'[i] = status[i]
AppliedAsWhole == [][Applied]_vars

\* Every step of a request brings it closer to its answer, so it is answered
\* after finitely many of them, with at most two attempts and two logins,
\* whatever the controller and the database do.
Stage == [idle |-> 0, load |-> 1, command |-> 2, login |-> 3, post |-> 4, relogin |-> 5,
          repost |-> 6, write |-> 7, done |-> 8]
Advance ==
  \A r \in Requests :
    \/ UNCHANGED <<pc[r], todo[r], seen[r], result[r], sent[r]>>
    \/ Stage[pc'[r]] > Stage[pc[r]]
    \/ pc'[r] = pc[r] /\ todo'[r] \subseteq todo[r] /\ todo'[r] # todo[r]
RequestsAdvance == [][Advance]_vars

\* To everybody else a request is one step on the table: what Scanner assumes
\* of the requests that run beside a scan.
Table == INSTANCE DeviceTable
ImplementsTable == Table!Spec

=============================================================================
