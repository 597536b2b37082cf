---------------------------- MODULE KeyRotation ----------------------------
(***************************************************************************)
(* The key of the notification secrets: app/security/secrets.py,           *)
(* app/security/crypto_migrate.py, the rekey command of app/cli.py, and    *)
(* the part of the application's lifespan that resolves the key, refuses   *)
(* to start or encrypts what is still plain.                               *)
(*                                                                         *)
(* The database and the key files cannot change in one step, so the        *)
(* command stages the new key (`.new'), commits the rows, keeps the old    *)
(* key (`.bak') and replaces the active file, and any of these steps may   *)
(* fail or be the last one before the process dies.  Nothing keeps the     *)
(* command from being run beside the application, nor the operator from    *)
(* moving key files by hand.  A row is modelled by the key it is encrypted *)
(* with, a file by the secret written in it.                               *)
(***************************************************************************)
EXTENDS Integers

CONSTANTS
  Channels,       \* notification_channels rows that may exist
  Phrases,        \* the operator's secrets that are not in the format of a Fernet key
  FernetStrings,  \* the operator's secrets that are
  MaxGenerated,   \* bound: keys Fernet.generate_key makes
  NoSecret,       \* APP_SECRET_KEY empty or unusable
  NoFile,         \* the file does not exist
  Partial,        \* what a write that did not finish leaves
  NoKey,
  Absent, Plain   \* a row that does not exist, a legacy row

Generated == 1..MaxGenerated
Operator == Phrases \cup FernetStrings
Text == Operator \cup Generated
Keys == {"derived", "raw"} \X (Text \cup {Partial})

ASSUME SecretsAssumption == /\ Phrases \cap FernetStrings = {}
                            /\ Operator \cap Generated = {}
                            /\ {NoSecret, NoFile, Partial} \cap Text = {}
                            /\ NoFile # Partial
ASSUME RowsAssumption == Absent # Plain /\ {Absent, Plain, NoKey} \cap Keys = {}
ASSUME GeneratedAssumption == MaxGenerated \in Nat

VARIABLES
  row,        \* config_json of each channel: Absent, Plain or its key
  active,     \* app-secret.key
  staged,     \* app-secret.key.new
  backup,     \* app-secret.key.bak
  env,        \* APP_SECRET_KEY
  made,       \* number of keys generated so far
  app,        \* where the application is in its lifespan
  appKey,     \* _fernet of the application's process
  plain,      \* the legacy rows its migration has loaded
  cli,        \* where the rekey command is
  old,        \* old_secret
  source,     \* new_env, or NoSecret
  rotate,     \* rotate_file
  picked,     \* the rows rekey_notification_secrets has loaded
  hasBackup,  \* _activate_staged_key has made a backup
  \* history, read by properties only
  overtaken,  \* since the running application resolved its key, somebody else has
              \* encrypted the rows anew or replaced the key file
  crossed     \* since the running command read the rows, the application wrote one

files   == <<active, staged, backup>>
process == <<app, appKey, plain>>
command == <<cli, old, source, rotate, picked, hasBackup>>
vars    == <<row, files, env, made, process, command, overtaken, crossed>>

AppPoints == {"down", "refused", "migrate", "encrypt", "clean", "up"}
CliPoints == {"idle", "stage", "verify", "read", "commit", "backup", "replace", "check", "cleanup"}

-----------------------------------------------------------------------------
(* Keys *)

\* fernet_from_material.
FromEnv(s) == <<"derived", s>>

\* A text in the format of a Fernet key is that key, any other one is material.
FromText(s) == IF s \in FernetStrings \cup Generated THEN <<"raw", s>> ELSE <<"derived", s>>

\* resolve_fernet without generation.
Resolve(n, f) == IF n # NoSecret THEN FromEnv(n)
                 ELSE IF f # NoFile THEN FromText(f) ELSE NoKey

\* A process of the application has begun its lifespan.
Alive == app \notin {"down", "refused"}

\* The command has read the rows it commits, or has committed them.
HasRead == cli \notin {"idle", "stage", "verify", "read"}

\* Every row is decrypted, or parsed, with the key.
Readable(k) == \A c \in Channels : row[c] \in {Absent, Plain, k}

Init ==
  /\ row \in [Channels -> {Absent, Plain}]
  /\ active = NoFile /\ staged = NoFile /\ backup = NoFile
  /\ env \in Operator \cup {NoSecret}
  /\ made = 0
  /\ app = "down" /\ appKey = NoKey /\ plain = {}
  /\ cli = "idle" /\ old = NoSecret /\ source = NoSecret
  /\ rotate = FALSE /\ picked = {} /\ hasBackup = FALSE
  /\ overtaken = FALSE /\ crossed = FALSE

-----------------------------------------------------------------------------
(* The application: lifespan, and the requests that change channels *)

\* Mutant: the generated key is written in place, so it may be cut short.
StartAppInPlace ==
  /\ ~Alive
  /\ \/ Resolve(env, active) # NoKey /\ appKey' = Resolve(env, active) /\ UNCHANGED <<active, made>>
     \/ /\ Resolve(env, active) = NoKey /\ made < MaxGenerated
        /\ made' = made + 1
        /\ active' \in {made', Partial}
        /\ appKey' = FromText(made')
  /\ app' = "migrate" /\ plain' = {}
  /\ UNCHANGED <<row, staged, backup, env, command, overtaken, crossed>>

\* init_app_secrets: a missing key is generated and written atomically.
StartApp ==
  /\ ~Alive
  /\ \/ Resolve(env, active) # NoKey /\ appKey' = Resolve(env, active) /\ UNCHANGED <<active, made>>
     \/ /\ Resolve(env, active) = NoKey /\ made < MaxGenerated
        /\ made' = made + 1
        /\ active' = made'
        /\ appKey' = FromText(made')
  /\ app' = "migrate" /\ plain' = {}
  /\ UNCHANGED <<row, staged, backup, env, command, overtaken, crossed>>

\* Mutant: rows that are encrypted already are not tried.
LoadChannelsUntried ==
  /\ app = "migrate"
  /\ app' = "encrypt" /\ plain' = {c \in Channels : row[c] = Plain}
  /\ UNCHANGED <<row, files, env, made, appKey, command, overtaken, crossed>>

\* migrate_notification_secrets reads all the rows, and refuses a wrong key.
LoadChannels ==
  /\ app = "migrate" /\ Readable(appKey)
  /\ app' = "encrypt" /\ plain' = {c \in Channels : row[c] = Plain}
  /\ UNCHANGED <<row, files, env, made, appKey, command, overtaken, crossed>>

RefuseToStart ==
  /\ app = "migrate" /\ ~Readable(appKey)
  /\ app' = "refused" /\ appKey' = NoKey /\ overtaken' = FALSE
  /\ UNCHANGED <<row, files, env, made, plain, command, crossed>>

\* One transaction; a legacy row deleted meanwhile makes it fail (see StopApp).
EncryptPlain ==
  /\ app = "encrypt" /\ \A c \in plain : row[c] # Absent
  /\ row' = [c \in Channels |-> IF c \in plain THEN appKey ELSE row[c]]
  /\ app' = "clean" /\ plain' = {}
  /\ crossed' = (crossed \/ (HasRead /\ plain # {}))
  /\ UNCHANGED <<files, env, made, appKey, command, overtaken>>

\* cleanup_key_rotation_backup; the file may resist.
CleanBackup ==
  /\ app = "clean"
  /\ backup' \in {NoFile, backup}
  /\ app' = "up"
  /\ UNCHANGED <<row, active, staged, env, made, appKey, plain, command, overtaken, crossed>>

CreateChannel(c) ==
  /\ app = "up" /\ row[c] = Absent
  /\ row' = [row EXCEPT ![c] = appKey]
  /\ crossed' = (crossed \/ HasRead)
  /\ UNCHANGED <<files, env, made, process, command, overtaken>>

DeleteChannel(c) ==
  /\ app = "up" /\ row[c] # Absent
  /\ row' = [row EXCEPT ![c] = Absent]
  /\ UNCHANGED <<files, env, made, process, command, overtaken, crossed>>

\* Stopped, killed, or ended by an exception of its startup.
StopApp ==
  /\ app # "down"
  /\ app' = "down" /\ appKey' = NoKey /\ plain' = {} /\ overtaken' = FALSE
  /\ UNCHANGED <<row, files, env, made, command, crossed>>

-----------------------------------------------------------------------------
(* The command: cmd_rekey *)

\* The key the rows are to be encrypted with.
NewKey == IF source # NoSecret THEN FromEnv(source)
          ELSE IF rotate THEN FromText(staged) ELSE FromText(active)

\* The process ends, by a return, an exception or a kill.
Exit == /\ cli' = "idle" /\ old' = NoSecret /\ source' = NoSecret
        /\ rotate' = FALSE /\ picked' = {} /\ hasBackup' = FALSE /\ crossed' = FALSE

\* A usable new secret beats --generate-file, which beats the existing file.
StartRekey(s, n, generate) ==
  /\ cli = "idle"
  /\ n # NoSecret \/ generate \/ active # NoFile
  /\ old' = s /\ source' = n
  /\ rotate' = (n = NoSecret /\ generate)
  /\ cli' = IF rotate' THEN "stage" ELSE "verify"
  /\ UNCHANGED <<row, files, env, made, process, picked, hasBackup, overtaken, crossed>>

StageKey ==
  /\ cli = "stage" /\ made < MaxGenerated
  /\ made' = made + 1
  /\ staged' = made'
  /\ cli' = "verify"
  /\ UNCHANGED <<row, active, backup, env, process, old, source, rotate, picked, hasBackup,
                 overtaken, crossed>>

StageFails ==
  /\ cli = "stage"
  /\ staged' \in {staged, Partial}
  /\ Exit
  /\ UNCHANGED <<row, active, backup, env, made, process, overtaken>>

\* verify_channels_with_fernet.
VerifyOld ==
  /\ cli = "verify" /\ Readable(FromText(old))
  /\ cli' = "read"
  /\ UNCHANGED <<row, files, env, made, process, old, source, rotate, picked, hasBackup,
                 overtaken, crossed>>

\* rekey_notification_secrets reads the rows once more.
ReadRows ==
  /\ cli = "read" /\ Readable(FromText(old))
  /\ picked' = {c \in Channels : row[c] # Absent}
  /\ cli' = "commit"
  /\ UNCHANGED <<row, files, env, made, process, old, source, rotate, hasBackup, overtaken,
                 crossed>>

\* The handler of both: rollback, and the staged file is removed if possible.
Unstage == staged' \in IF rotate THEN {staged, NoFile} ELSE {staged}

RejectOld ==
  /\ cli \in {"verify", "read"} /\ ~Readable(FromText(old))
  /\ Unstage /\ Exit
  /\ UNCHANGED <<row, active, backup, env, made, process, overtaken>>

CommitRows ==
  /\ cli = "commit" /\ \A c \in picked : row[c] # Absent
  /\ row' = [c \in Channels |-> IF c \in picked THEN NewKey ELSE row[c]]
  /\ cli' = IF rotate THEN "backup" ELSE "check"
  /\ picked' = {}
  /\ overtaken' = Alive
  /\ UNCHANGED <<files, env, made, process, old, source, rotate, hasBackup, crossed>>

\* Mutant: the handler prints and goes on.
CommitFailsUnnoticed ==
  /\ cli = "commit"
  /\ cli' = IF rotate THEN "backup" ELSE "check"
  /\ picked' = {}
  /\ UNCHANGED <<row, files, env, made, process, old, source, rotate, hasBackup, overtaken,
                 crossed>>

\* The database is locked or full, or a row is gone.
CommitFails ==
  /\ cli = "commit"
  /\ Unstage /\ Exit
  /\ UNCHANGED <<row, active, backup, env, made, process, overtaken>>

\* _activate_staged_key: the copy, if there is an active file.
BackupActive ==
  /\ cli = "backup"
  /\ backup' = IF active # NoFile THEN active ELSE backup
  /\ hasBackup' = (active # NoFile)
  /\ cli' = "replace"
  /\ UNCHANGED <<row, active, staged, env, made, process, old, source, rotate, picked, overtaken,
                 crossed>>

BackupFails ==
  /\ cli = "backup" /\ active # NoFile
  /\ backup' \in {backup, Partial}
  /\ Exit
  /\ UNCHANGED <<row, active, staged, env, made, process, overtaken>>

ReplaceActive ==
  /\ cli = "replace"
  /\ active' = staged /\ staged' = NoFile
  /\ cli' = "check"
  /\ overtaken' = Alive
  /\ UNCHANGED <<row, backup, env, made, process, old, source, rotate, picked, hasBackup, crossed>>

\* Mutant: the handler of the activation removes the staged file as well.
ReplaceFailsAndUnlinks ==
  /\ cli = "replace"
  /\ staged' = NoFile
  /\ Exit
  /\ UNCHANGED <<row, active, backup, env, made, process, overtaken>>

ReplaceFails ==
  /\ cli = "replace"
  /\ Exit
  /\ UNCHANGED <<row, files, env, made, process, overtaken>>

\* The rows are verified with the key the next start will resolve.
PostVerify ==
  /\ cli = "check"
  /\ Resolve(source, active) # NoKey /\ Readable(Resolve(source, active))
  /\ cli' = "cleanup"
  /\ UNCHANGED <<row, files, env, made, process, old, source, rotate, picked, hasBackup,
                 overtaken, crossed>>

\* A row is unreadable, or the database or the file could not be read.
PostVerifyFails ==
  /\ cli = "check"
  /\ Exit
  /\ UNCHANGED <<row, files, env, made, process, overtaken>>

CleanUp ==
  /\ cli = "cleanup"
  /\ backup' \in IF hasBackup THEN {NoFile, backup} ELSE {backup}
  /\ Exit
  /\ UNCHANGED <<row, active, staged, env, made, process, overtaken>>

\* Killed at any point; the points of a write are StageFails and BackupFails.
KillCommand ==
  /\ cli # "idle"
  /\ Exit
  /\ UNCHANGED <<row, files, env, made, process, overtaken>>

-----------------------------------------------------------------------------
(* The operator *)

\* APP_SECRET_KEY of the next start.
SetEnv(n) ==
  /\ ~Alive
  /\ env' = n
  /\ UNCHANGED <<row, files, made, process, command, overtaken, crossed>>

\* The manual recoveries that the messages of the command and of a refused start
\* propose.  The operator cannot see which key the rows are under.
FinishActivation ==
  /\ cli = "idle" /\ staged \in Text
  /\ active' = staged /\ staged' = NoFile
  /\ overtaken' = Alive
  /\ UNCHANGED <<row, backup, env, made, process, command, crossed>>

RestoreBackup ==
  /\ cli = "idle" /\ backup \in Text
  /\ active' = backup
  /\ overtaken' = Alive
  /\ UNCHANGED <<row, staged, backup, env, made, process, command, crossed>>

Next ==
  \/ StartApp \/ LoadChannels \/ RefuseToStart \/ EncryptPlain \/ CleanBackup
  \/ \E c \in Channels : CreateChannel(c) \/ DeleteChannel(c)
  \/ StopApp
  \/ \E s \in Operator \cup 1..made, n \in Operator \cup {NoSecret}, generate \in BOOLEAN :
       StartRekey(s, n, generate)
  \/ StageKey \/ StageFails \/ VerifyOld \/ ReadRows \/ RejectOld \/ CommitRows \/ CommitFails
  \/ BackupActive \/ BackupFails \/ ReplaceActive \/ ReplaceFails
  \/ PostVerify \/ PostVerifyFails \/ CleanUp \/ KillCommand
  \/ \E n \in Operator \cup {NoSecret} : SetEnv(n)
  \/ FinishActivation \/ RestoreBackup

Spec == Init /\ [][Next]_vars
-----------------------------------------------------------------------------
(* Properties *)

\* The active key file is never cut short, whatever its writers go through.
TypeOK ==
  /\ row \in [Channels -> Keys \cup {Absent, Plain}]
  /\ active \in Text \cup {NoFile}
  /\ staged \in Text \cup {NoFile, Partial}
  /\ backup \in Text \cup {NoFile, Partial}
  /\ env \in Operator \cup {NoSecret}
  /\ made \in 0..MaxGenerated
  /\ app \in AppPoints
  /\ appKey \in Keys \cup {NoKey}
  /\ plain \subseteq Channels
  /\ cli \in CliPoints
  /\ old \in Text \cup {NoSecret}
  /\ source \in Operator \cup {NoSecret}
  /\ rotate \in BOOLEAN
  /\ picked \subseteq Channels
  /\ hasBackup \in BOOLEAN
  /\ overtaken \in BOOLEAN /\ crossed \in BOOLEAN

\* The keys the operator can still make: from what he knows, and from a key file.
Held == {FromEnv(s) : s \in Operator} \cup {FromText(s) : s \in Operator}
          \cup {FromText(f) : f \in {active, staged, backup} \ {NoFile}}

\* One secret that the operator knows or finds in a key file reads all the channels.
Recoverable == \E k \in Held \cup {NoKey} : Readable(k)

\* An application whose key is not the one of the rows, or of the file, any more.
WritesOvertaken ==
  overtaken /\ (EncryptPlain \/ CleanBackup \/ \E c \in Channels : CreateChannel(c))

\* Whatever step of a start or of a rekey fails or is the last one, the channels
\* stay readable with one secret.  They may be lost only where the application and
\* the command have crossed, where a new key is staged over another one, and where
\* a key file is replaced by hand.
KeysAreKept ==
  [][Recoverable => \/ Recoverable'
                    \/ crossed \/ WritesOvertaken
                    \/ cli = "stage" /\ staged # NoFile
                    \/ FinishActivation \/ RestoreBackup]_vars

\* An application that runs can be stopped and started again, also while a command
\* runs beside it, until that one commits or activates a key: the key it would
\* resolve reads every channel, including those created since.
RestartWorks ==
  app = "up" => overtaken \/ Readable(Resolve(env, active))

\* The program replaces an active key file only when the rows are already committed
\* under the key that replaces it, or never were under any.  The application may
\* have written one since; by hand the file can be replaced by any key.
ActivationAfterCommit ==
  [][active' # active /\ active # NoFile =>
       Readable(FromText(active')) \/ crossed \/ FinishActivation \/ RestoreBackup]_vars

\* README.md:167: "If activation fails after the DB commit, the new key remains at
\* `app-secret.key.new' for manual recovery", also when the command is run again.
StagedKeyRemains ==
  [][\A g \in Generated : staged = g /\ (\E c \in Channels : row[c] = FromText(g)) =>
       g \in {staged', active'}]_vars
=============================================================================
