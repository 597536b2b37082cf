----------------------------- MODULE KeyProofs -----------------------------
(***************************************************************************)
(* What a start and a rekey keep, without any assumption on when they run: *)
(* the command may run beside the application and be run again with a key  *)
(* still staged, and the operator may move key files by hand.              *)
(*                                                                         *)
(* ServerInv says what an application may rely on that nobody has          *)
(* overtaken, CommandInv what holds at each point of the command while the *)
(* application has not crossed it: after the commit the rows are under the *)
(* staged key, after the replacement under the active one.  FreshInv says  *)
(* that until the commit nothing is under the staged key, so the rows do   *)
(* not need the file that a rejected rekey removes.  Recoverable is no     *)
(* invariant, and as a promise of every step (KeysAreKept) it needs all    *)
(* three: a step that deletes or overwrites a key file keeps it only       *)
(* because of what was established before.                                 *)
(***************************************************************************)
EXTENDS KeyRotation, TLAPS

ServerInv ==
  /\ Alive => appKey # NoKey
  /\ Alive /\ ~overtaken => appKey = Resolve(env, active)
  /\ app \in {"encrypt", "clean", "up"} /\ ~overtaken => Readable(appKey)

CommandInv ==
  /\ cli = "stage" => rotate
  /\ cli \in {"verify", "read", "commit"} /\ rotate => staged \in Generated
  /\ rotate => source = NoSecret
  /\ cli # "idle" /\ source = NoSecret /\ ~rotate => active # NoFile
  /\ cli = "commit" /\ ~crossed => \A c \in Channels : row[c] # Absent => c \in picked
  /\ cli \in {"backup", "replace"} =>
       staged \in Generated /\ rotate /\ (~crossed => Readable(FromText(staged)))
  /\ cli \in {"check", "cleanup"} =>
       Resolve(source, active) # NoKey /\ (~crossed => Readable(Resolve(source, active)))

\* Nobody has, and no row is under, a key that is still to be generated.
Unmade(g) == /\ g \notin {active, staged, backup} /\ appKey # FromText(g)
             /\ \A c \in Channels : row[c] # FromText(g)

\* Nothing is under the staged key, and no process has it.
Unused == /\ active # staged /\ appKey # FromText(staged)
          /\ \A c \in Channels : row[c] # FromText(staged)

FreshInv ==
  /\ \A g \in Generated : made < g => Unmade(g)
  /\ cli \in {"verify", "read", "commit"} /\ rotate => Unused

KeyInv == TypeOK /\ ServerInv /\ CommandInv /\ FreshInv

-----------------------------------------------------------------------------
\* Every secret makes a key, and none makes NoKey.
LEMMA KeyTypes ==
  /\ \A s \in Text \cup {Partial} : FromEnv(s) \in Keys /\ FromText(s) \in Keys
  /\ NoKey \notin Keys /\ Absent \notin Keys /\ Plain \notin Keys
  /\ Operator \subseteq Text /\ Generated \subseteq Text
  /\ NoSecret \notin Text /\ NoFile \notin Text /\ Partial \notin Text /\ NoFile # Partial
  BY SecretsAssumption, RowsAssumption DEF FromEnv, FromText, Keys, Text

\* The key of a generated text is no other's.
LEMMA GeneratedKeys ==
  ASSUME NEW g \in Generated
  PROVE  /\ \A s : FromEnv(s) # FromText(g)
         /\ \A s : FromText(s) = FromText(g) => s = g
         /\ g \notin Operator /\ FromText(g) \notin {Absent, Plain, NoKey}
<1>1. FromText(g) = <<"raw", g>>
  BY DEF FromText
<1>2. \A s : FromEnv(s) # FromText(g)
  BY <1>1 DEF FromEnv
<1>3. \A s : FromText(s) = FromText(g) => s = g
  BY <1>1 DEF FromText
<1>4. g \notin Operator /\ FromText(g) \notin {Absent, Plain, NoKey}
  BY SecretsAssumption, KeyTypes
<1> QED
  BY <1>2, <1>3, <1>4

\* The first start finds no key file, no process and no encrypted row.
LEMMA KeyInit == Init => KeyInv
<1> SUFFICES ASSUME Init PROVE KeyInv
  OBVIOUS
<1>1. TypeOK
  <2>1. row \in [Channels -> Keys \cup {Absent, Plain}]
    BY DEF Init
  <2>2. made \in 0..MaxGenerated
    BY GeneratedAssumption DEF Init
  <2>3. rotate \in BOOLEAN /\ hasBackup \in BOOLEAN /\ overtaken \in BOOLEAN /\ crossed \in BOOLEAN
    BY DEF Init
  <2>4. plain \subseteq Channels /\ picked \subseteq Channels
    BY DEF Init
  <2>5. app \in AppPoints /\ cli \in CliPoints
    BY DEF Init, AppPoints, CliPoints
  <2>6. /\ active \in Text \cup {NoFile} /\ staged \in Text \cup {NoFile, Partial}
        /\ backup \in Text \cup {NoFile, Partial} /\ env \in Operator \cup {NoSecret}
        /\ old \in Text \cup {NoSecret} /\ source \in Operator \cup {NoSecret}
        /\ appKey \in Keys \cup {NoKey}
    BY DEF Init
  <2> QED
    BY <2>1, <2>2, <2>3, <2>4, <2>5, <2>6 DEF TypeOK
<1>2. ASSUME NEW g \in Generated PROVE Unmade(g)
  <2>1. FromText(g) \notin {Absent, Plain, NoKey} /\ g # NoFile
    BY GeneratedKeys, KeyTypes
  <2> QED
    BY <2>1 DEF Init, Unmade
<1> QED
  BY <1>1, <1>2 DEF Init, KeyInv, ServerInv, CommandInv, FreshInv, Alive

\* The type invariant in two parts: the switches, and everything else.
Switches == rotate \in BOOLEAN /\ hasBackup \in BOOLEAN /\ overtaken \in BOOLEAN /\ crossed \in BOOLEAN

Stores ==
  /\ row \in [Channels -> Keys \cup {Absent, Plain}]
  /\ active \in Text \cup {NoFile}
  /\ staged \in Text \cup {NoFile, Partial}
  /\ backup \in Text \cup {NoFile, Partial}
  /\ env \in Operator \cup {NoSecret}
  /\ made \in 0..MaxGenerated
  /\ app \in AppPoints /\ appKey \in Keys \cup {NoKey} /\ plain \subseteq Channels
  /\ cli \in CliPoints /\ old \in Text \cup {NoSecret} /\ source \in Operator \cup {NoSecret}
  /\ picked \subseteq Channels

LEMMA SwitchesNext == ASSUME Switches, [Next]_vars PROVE Switches'
<1> USE DEF Switches, command, Exit, Alive
<1>1. CASE StartApp \/ LoadChannels \/ RefuseToStart
  BY <1>1 DEF StartApp, LoadChannels, RefuseToStart
<1>2. CASE EncryptPlain \/ CleanBackup
  BY <1>2 DEF EncryptPlain, CleanBackup
<1>3. CASE \E c \in Channels : CreateChannel(c) \/ DeleteChannel(c)
  BY <1>3 DEF CreateChannel, DeleteChannel, process
<1>4. CASE StopApp
  BY <1>4 DEF StopApp
<1>5. CASE \E s \in Operator \cup 1..made, n \in Operator \cup {NoSecret}, generate \in BOOLEAN :
             StartRekey(s, n, generate)
  BY <1>5 DEF StartRekey
<1>6. CASE StageKey \/ StageFails \/ VerifyOld \/ ReadRows
  BY <1>6 DEF StageKey, StageFails, VerifyOld, ReadRows
<1>7. CASE RejectOld \/ CommitRows \/ CommitFails
  BY <1>7 DEF RejectOld, CommitRows, CommitFails
<1>8. CASE BackupActive \/ BackupFails \/ ReplaceActive \/ ReplaceFails
  BY <1>8 DEF BackupActive, BackupFails, ReplaceActive, ReplaceFails
<1>9. CASE PostVerify \/ PostVerifyFails \/ CleanUp \/ KillCommand
  BY <1>9 DEF PostVerify, PostVerifyFails, CleanUp, KillCommand
<1>10. CASE (\E n \in Operator \cup {NoSecret} : SetEnv(n)) \/ FinishActivation \/ RestoreBackup
  BY <1>10 DEF SetEnv, FinishActivation, RestoreBackup
<1>11. CASE UNCHANGED vars
  BY <1>11 DEF vars
<1> QED
  BY <1>1, <1>2, <1>3, <1>4, <1>5, <1>6, <1>7, <1>8, <1>9, <1>10, <1>11 DEF Next

LEMMA StoresNext == ASSUME Stores, ServerInv, CommandInv, [Next]_vars PROVE Stores'
<1> USE KeyTypes, GeneratedAssumption
    DEF Stores, AppPoints, CliPoints, files, process, command, Exit, Alive
<1>1. CASE StartApp
  BY <1>1 DEF StartApp, Resolve, Generated
<1>2. CASE LoadChannels \/ RefuseToStart
  BY <1>2 DEF LoadChannels, RefuseToStart
<1>3. CASE EncryptPlain
  <2>1. appKey \in Keys
    BY <1>3 DEF EncryptPlain, ServerInv
  <2>2. row' \in [Channels -> Keys \cup {Absent, Plain}]
    BY <1>3, <2>1 DEF EncryptPlain
  <2>3. plain' \subseteq Channels /\ app' \in AppPoints
    BY <1>3 DEF EncryptPlain
  <2> QED
    BY <1>3, <2>2, <2>3 DEF EncryptPlain
<1>4. CASE CleanBackup
  BY <1>4 DEF CleanBackup
<1>5. ASSUME NEW c \in Channels, CreateChannel(c) PROVE Stores'
  BY <1>5 DEF CreateChannel, ServerInv
<1>6. ASSUME NEW c \in Channels, DeleteChannel(c) PROVE Stores'
  BY <1>6 DEF DeleteChannel
<1>7. CASE StopApp
  BY <1>7 DEF StopApp
<1>8. ASSUME NEW s \in Operator \cup 1..made, NEW n \in Operator \cup {NoSecret},
             NEW generate \in BOOLEAN, StartRekey(s, n, generate)
      PROVE Stores'
  BY <1>8 DEF StartRekey, Generated
<1>9. CASE StageKey
  BY <1>9 DEF StageKey, Generated, CommandInv
<1>10. CASE StageFails
  BY <1>10 DEF StageFails
<1>11. CASE VerifyOld \/ ReadRows
  BY <1>11 DEF VerifyOld, ReadRows
<1>12. CASE RejectOld \/ CommitFails
  BY <1>12 DEF RejectOld, CommitFails, Unstage
<1>13. CASE CommitRows
  BY <1>13 DEF CommitRows, NewKey, CommandInv
<1>14. CASE BackupActive \/ BackupFails
  BY <1>14 DEF BackupActive, BackupFails
<1>15. CASE ReplaceActive
  BY <1>15 DEF ReplaceActive, CommandInv
<1>16. CASE ReplaceFails \/ PostVerify \/ PostVerifyFails \/ CleanUp \/ KillCommand
  BY <1>16 DEF ReplaceFails, PostVerify, PostVerifyFails, CleanUp, KillCommand
<1>17. ASSUME NEW n \in Operator \cup {NoSecret}, SetEnv(n) PROVE Stores'
  BY <1>17 DEF SetEnv
<1>18. CASE FinishActivation
  BY <1>18 DEF FinishActivation
<1>19. CASE RestoreBackup
  BY <1>19 DEF RestoreBackup
<1>20. CASE UNCHANGED vars
  BY <1>20 DEF vars
<1> QED
  BY <1>1, <1>2, <1>3, <1>4, <1>5, <1>6, <1>7, <1>8, <1>9, <1>10, <1>11, <1>12, <1>13, <1>14,
     <1>15, <1>16, <1>17, <1>18, <1>19, <1>20 DEF Next

\* Every step keeps the types; a key file that is written in two steps may be cut
\* short, the active one never is.
LEMMA KeyTypeNext == ASSUME TypeOK, ServerInv, CommandInv, [Next]_vars PROVE TypeOK'
<1>1. Stores /\ Switches
  BY DEF TypeOK, Stores, Switches
<1>2. Stores' /\ Switches'
  BY <1>1, StoresNext, SwitchesNext
<1> QED
  BY <1>2 DEF TypeOK, Stores, Switches

-----------------------------------------------------------------------------
(* What the processes may rely on *)

\* The application: unless overtaken, its key is the one a start would resolve,
\* and once the rows were loaded it reads them.
LEMMA ServerNext == ASSUME TypeOK, TypeOK', ServerInv, [Next]_vars PROVE ServerInv'
<1> USE KeyTypes DEF ServerInv, Alive, files, process, command
<1>1. CASE UNCHANGED <<row, active, env, app, appKey, overtaken>>
  BY <1>1 DEF Resolve, Readable
<1>2. CASE StartApp
  <2>1. env' = env /\ app' = "migrate"
    BY <1>2 DEF StartApp
  <2>2. appKey' = Resolve(env, active') /\ appKey' # NoKey
    <3>1. CASE Resolve(env, active) # NoKey
      BY <1>2, <3>1 DEF StartApp
    <3>2. CASE Resolve(env, active) = NoKey
      <4>1. env = NoSecret
        BY <3>2 DEF Resolve, TypeOK
      <4>2. active' = made' /\ appKey' = FromText(made')
        BY <1>2, <3>2 DEF StartApp
      <4>3. made' \in Text /\ made' # NoFile
        BY <1>2, <3>2, GeneratedAssumption DEF StartApp, TypeOK, Generated
      <4> QED
        BY <4>1, <4>2, <4>3 DEF Resolve
    <3> QED
      BY <3>1, <3>2
  <2> QED
    BY <2>1, <2>2 DEF Resolve
<1>3. CASE LoadChannels
  BY <1>3 DEF LoadChannels, Resolve, Readable
<1>4. CASE RefuseToStart \/ StopApp
  BY <1>4 DEF RefuseToStart, StopApp
<1>5. CASE EncryptPlain
  BY <1>5 DEF EncryptPlain, Resolve, Readable, TypeOK
<1>6. CASE CleanBackup
  BY <1>6 DEF CleanBackup, Resolve, Readable
<1>7. ASSUME NEW c \in Channels, CreateChannel(c) PROVE ServerInv'
  BY <1>7 DEF CreateChannel, Resolve, Readable, TypeOK
<1>8. ASSUME NEW c \in Channels, DeleteChannel(c) PROVE ServerInv'
  BY <1>8 DEF DeleteChannel, Resolve, Readable, TypeOK
<1>9. CASE CommitRows \/ ReplaceActive
  <2>1. UNCHANGED <<app, appKey>> /\ overtaken' = Alive
    BY <1>9 DEF CommitRows, ReplaceActive
  <2> QED
    BY <2>1
<1>10. CASE FinishActivation \/ RestoreBackup
  <2>1. UNCHANGED <<app, appKey>> /\ overtaken' = Alive
    BY <1>10 DEF FinishActivation, RestoreBackup
  <2> QED
    BY <2>1
<1>11. ASSUME NEW n, SetEnv(n) PROVE ServerInv'
  BY <1>11 DEF SetEnv
<1>12. ASSUME NEW s, NEW n, NEW generate, StartRekey(s, n, generate)
       PROVE UNCHANGED <<row, active, env, app, appKey, overtaken>>
  BY <1>12 DEF StartRekey
<1>13. StageKey \/ StageFails \/ VerifyOld \/ ReadRows \/ RejectOld \/ CommitFails
         => UNCHANGED <<row, active, env, app, appKey, overtaken>>
  BY DEF StageKey, StageFails, VerifyOld, ReadRows, RejectOld, CommitFails
<1>14. BackupActive \/ BackupFails \/ ReplaceFails
         => UNCHANGED <<row, active, env, app, appKey, overtaken>>
  BY DEF BackupActive, BackupFails, ReplaceFails
<1>15. PostVerify \/ PostVerifyFails \/ CleanUp \/ KillCommand \/ UNCHANGED vars
         => UNCHANGED <<row, active, env, app, appKey, overtaken>>
  BY DEF PostVerify, PostVerifyFails, CleanUp, KillCommand, vars
<1> QED
  BY <1>1, <1>2, <1>3, <1>4, <1>5, <1>6, <1>7, <1>8, <1>9, <1>10, <1>11, <1>12, <1>13, <1>14,
     <1>15 DEF Next

\* A step while the command does not run, or that ends it, claims nothing of it.
LEMMA CommandIdle ==
  ASSUME cli' = "idle", rotate' = FALSE PROVE CommandInv'
  BY DEF CommandInv

\* A step of the application that writes no row, or by which it crosses the command.
LEMMA CommandAside ==
  ASSUME CommandInv, UNCHANGED <<staged, command>>, active \in {active', NoFile},
         (row' = row /\ crossed' = crossed) \/ crossed' = TRUE \/ ~HasRead,
         active' # NoFile \/ active = NoFile
  PROVE  CommandInv'
<1> USE DEF command, HasRead
<1>1. CASE ~HasRead
  BY <1>1 DEF CommandInv
<1>2. CASE HasRead
  <2>1. cli \in {"check", "cleanup"} => Resolve(source, active)' = Resolve(source, active)
    BY DEF CommandInv, Resolve
  <2>2. cli \in {"check", "cleanup"} => Resolve(source, active)' # NoKey
    BY <2>1 DEF CommandInv
  <2>3. CASE crossed' = TRUE
    BY <2>2, <2>3 DEF CommandInv
  <2>4. CASE row' = row /\ crossed' = crossed
    BY <2>1, <2>4 DEF CommandInv, Readable
  <2> QED
    BY <1>2, <2>3, <2>4
<1> QED
  BY <1>1, <1>2

\* The command: what it has established when it reaches each of its points.
LEMMA CommandNext ==
  ASSUME TypeOK, ServerInv, CommandInv, [Next]_vars PROVE CommandInv'
<1> USE KeyTypes DEF files, process, command
<1>1. CASE UNCHANGED <<row, files, cli, source, rotate, picked, crossed>>
  BY <1>1 DEF CommandInv, Readable, Resolve
<1>2. CASE cli = "idle" /\ UNCHANGED command
  BY <1>2, CommandIdle DEF CommandInv
<1>3. CASE Exit
  BY <1>3, CommandIdle DEF Exit
<1>4. ASSUME NEW s, NEW n \in Operator \cup {NoSecret}, NEW generate \in BOOLEAN,
             StartRekey(s, n, generate)
      PROVE CommandInv'
  BY <1>4 DEF StartRekey, CommandInv
<1>5. CASE StageKey
  <2>1. staged' \in Generated
    BY <1>5, GeneratedAssumption DEF StageKey, TypeOK, Generated
  <2> QED
    BY <1>5, <2>1 DEF StageKey, CommandInv, Readable
<1>6. CASE VerifyOld
  BY <1>6 DEF VerifyOld, CommandInv, Readable
<1>7. CASE ReadRows
  BY <1>7 DEF ReadRows, CommandInv, Readable
<1>8. CASE CommitRows
  <2>1. ~crossed => \A c \in Channels : row'[c] \in {Absent, NewKey}
    BY <1>8 DEF CommitRows, CommandInv, TypeOK
  <2>2. CASE rotate
    <3>1. NewKey = FromText(staged)
      BY <2>2 DEF NewKey, CommandInv
    <3> QED
      BY <1>8, <2>1, <2>2, <3>1 DEF CommitRows, CommandInv, Readable
  <2>3. CASE ~rotate
    <3>1. NewKey = Resolve(source, active) /\ NewKey # NoKey
      BY <1>8, <2>3 DEF NewKey, Resolve, CommitRows, CommandInv, TypeOK
    <3> QED
      BY <1>8, <2>1, <2>3, <3>1 DEF CommitRows, CommandInv, Readable, Resolve
  <2> QED
    BY <2>2, <2>3 DEF TypeOK
<1>9. CASE BackupActive
  BY <1>9 DEF BackupActive, CommandInv, Readable
<1>10. CASE ReplaceActive
  <2>1. Resolve(source, staged) = FromText(staged) /\ FromText(staged) # NoKey
    BY <1>10 DEF ReplaceActive, CommandInv, Resolve
  <2> QED
    BY <1>10, <2>1 DEF ReplaceActive, CommandInv, Readable, Resolve
<1>11. CASE PostVerify
  BY <1>11 DEF PostVerify, CommandInv, Readable, Resolve
<1>12. CASE StartApp
  <2>1. active \in {active', NoFile} /\ (active' # NoFile \/ active = NoFile)
    BY <1>12, GeneratedAssumption DEF StartApp, Resolve, TypeOK, Generated
  <2> QED
    BY <1>12, <2>1, CommandAside DEF StartApp
<1>13. CASE LoadChannels \/ RefuseToStart \/ StopApp \/ CleanBackup
  BY <1>13, CommandAside DEF LoadChannels, RefuseToStart, StopApp, CleanBackup
<1>14. CASE EncryptPlain
  <2>1. plain = {} => row' = row
    BY <1>14 DEF EncryptPlain, TypeOK
  <2> QED
    BY <1>14, <2>1, CommandAside DEF EncryptPlain, TypeOK
<1>15. ASSUME NEW c \in Channels, CreateChannel(c) PROVE CommandInv'
  BY <1>15, CommandAside DEF CreateChannel, TypeOK
<1>16. ASSUME NEW c \in Channels, DeleteChannel(c) PROVE CommandInv'
  BY <1>16 DEF DeleteChannel, CommandInv, Readable, TypeOK
<1>17. ASSUME NEW n, SetEnv(n) PROVE CommandInv'
  BY <1>17, <1>1 DEF SetEnv
<1>18. FinishActivation \/ RestoreBackup => cli = "idle" /\ UNCHANGED command
  BY DEF FinishActivation, RestoreBackup
<1>19. StageFails \/ RejectOld \/ CommitFails \/ BackupFails \/ ReplaceFails => Exit
  BY DEF StageFails, RejectOld, CommitFails, BackupFails, ReplaceFails
<1>20. PostVerifyFails \/ CleanUp \/ KillCommand => Exit
  BY DEF PostVerifyFails, CleanUp, KillCommand
<1>21. UNCHANGED vars => UNCHANGED <<row, files, cli, source, rotate, picked, crossed>>
  BY DEF vars
<1> QED
  BY <1>1, <1>2, <1>3, <1>4, <1>5, <1>6, <1>7, <1>8, <1>9, <1>10, <1>11, <1>12, <1>13, <1>14,
     <1>15, <1>16, <1>17, <1>18, <1>19, <1>20, <1>21 DEF Next

-----------------------------------------------------------------------------
(* The generated keys *)

\* A step by which no file, row or process gets a key that none of them had.
LEMMA FreshFrame ==
  ASSUME KeyInv, made' = made,
         {active', staged', backup'} \subseteq {active, staged, backup, NoFile, Partial},
         appKey' \in {appKey, NoKey},
         \A c \in Channels : row'[c] \in {row[c], appKey, Absent},
         cli' \in {"verify", "read", "commit"} /\ rotate' =>
           cli \in {"verify", "read", "commit"} /\ rotate /\ UNCHANGED <<active, staged>>
  PROVE  FreshInv'
<1> USE DEF KeyInv
<1>1. ASSUME NEW g \in Generated, made < g PROVE Unmade(g)'
  <2>1. FromText(g) \notin {Absent, NoKey} /\ g \notin {NoFile, Partial}
    BY GeneratedKeys, KeyTypes
  <2>2. Unmade(g)
    BY <1>1 DEF FreshInv
  <2>3. FromText(g)' = FromText(g)
    BY DEF FromText
  <2> QED
    BY <2>1, <2>2, <2>3 DEF Unmade
<1>2. ASSUME cli' \in {"verify", "read", "commit"}, rotate' PROVE Unused'
  <2>1. Unused /\ staged \in Generated /\ UNCHANGED <<active, staged>>
    BY <1>2 DEF FreshInv, CommandInv
  <2>2. FromText(staged) \notin {Absent, NoKey} /\ FromText(staged)' = FromText(staged)
    BY <2>1, GeneratedKeys DEF FromText
  <2> QED
    BY <2>1, <2>2 DEF Unused
<1> QED
  BY <1>1, <1>2 DEF FreshInv

\* Every step: a key is made when it is written to a file for the first time, and
\* the rows are not under the staged one before the commit.
LEMMA FreshNext == ASSUME KeyInv, [Next]_vars PROVE FreshInv'
<1> USE DEF KeyInv, files, process, command
<1>1. CASE StartApp
  <2>1. UNCHANGED <<row, staged, backup, cli, rotate>>
    BY <1>1 DEF StartApp
  <2>2. CASE made' = made
    <3>1. active' = active /\ appKey' = Resolve(env, active) /\ appKey' # NoKey
      BY <1>1, <2>2 DEF StartApp, TypeOK
    <3>2. appKey' = FromEnv(env) \/ appKey' = FromText(active)
      BY <3>1 DEF Resolve
    <3>3. ASSUME NEW g \in Generated, made < g PROVE Unmade(g)'
      <4>1. appKey' # FromText(g)
        BY <3>2, <3>3, GeneratedKeys DEF FreshInv, Unmade
      <4>2. FromText(g)' = FromText(g)
        BY DEF FromText
      <4> QED
        BY <2>1, <3>1, <3>3, <4>1, <4>2 DEF FreshInv, Unmade
    <3>4. ASSUME cli \in {"verify", "read", "commit"}, rotate PROVE Unused'
      <4>1. Unused /\ staged \in Generated
        BY <3>4 DEF FreshInv, CommandInv
      <4>2. appKey' # FromText(staged) /\ FromText(staged)' = FromText(staged)
        BY <2>1, <3>2, <4>1, GeneratedKeys DEF Unused, FromText
      <4> QED
        BY <2>1, <3>1, <4>1, <4>2 DEF Unused
    <3> QED
      BY <2>1, <2>2, <3>3, <3>4 DEF FreshInv
  <2>3. CASE made' = made + 1
    <3>1. active' = made' /\ appKey' = FromText(made') /\ made \in Nat /\ made' \in Generated
      BY <1>1, <2>3, GeneratedAssumption DEF StartApp, TypeOK, Generated
    <3>2. ASSUME NEW g \in Generated, made' < g PROVE Unmade(g)'
      <4>1. Unmade(g) /\ g # made'
        BY <2>3, <3>1, <3>2 DEF FreshInv, Generated
      <4>2. appKey' # FromText(g) /\ FromText(g)' = FromText(g)
        BY <3>1, <4>1, GeneratedKeys DEF FromText
      <4> QED
        BY <2>1, <3>1, <4>1, <4>2 DEF Unmade
    <3>3. ASSUME cli \in {"verify", "read", "commit"}, rotate PROVE Unused'
      <4>1. Unused /\ staged \in Generated /\ Unmade(made')
        BY <2>3, <3>1, <3>3 DEF FreshInv, CommandInv, Generated
      <4>2. appKey' # FromText(staged) /\ FromText(staged)' = FromText(staged)
        BY <2>1, <3>1, <4>1, GeneratedKeys DEF Unmade, FromText
      <4> QED
        BY <2>1, <3>1, <4>1, <4>2 DEF Unused, Unmade
    <3> QED
      BY <2>1, <3>2, <3>3 DEF FreshInv
  <2> QED
    BY <1>1, <2>2, <2>3 DEF StartApp
<1>2. CASE StageKey
  <2>1. /\ UNCHANGED <<row, active, backup, appKey, rotate>>
        /\ made' = made + 1 /\ staged' = made' /\ made \in Nat /\ made' \in Generated
    BY <1>2, GeneratedAssumption DEF StageKey, TypeOK, Generated
  <2>2. Unmade(made') /\ \A s : FromText(s)' = FromText(s)
    BY <2>1 DEF FreshInv, Generated, FromText
  <2>3. ASSUME NEW g \in Generated, made' < g PROVE Unmade(g)'
    BY <2>1, <2>2, <2>3 DEF FreshInv, Generated, Unmade
  <2>4. Unused'
    BY <2>1, <2>2 DEF Unused, Unmade
  <2> QED
    BY <2>3, <2>4 DEF FreshInv
<1>3. CASE CommitRows
  <2>1. /\ UNCHANGED <<files, made, appKey>> /\ cli' \in {"backup", "check"}
        /\ \A c \in Channels : row'[c] \in {row[c], NewKey}
    BY <1>3 DEF CommitRows, TypeOK
  <2>2. NewKey \in {FromEnv(source), FromText(staged), FromText(active)}
    BY DEF NewKey
  <2>3. ASSUME NEW g \in Generated, made < g PROVE Unmade(g)'
    <3>1. Unmade(g) /\ NewKey # FromText(g) /\ FromText(g)' = FromText(g)
      BY <2>2, <2>3, GeneratedKeys DEF FreshInv, Unmade, FromText
    <3> QED
      BY <2>1, <3>1 DEF Unmade
  <2> QED
    BY <2>1, <2>3 DEF FreshInv
<1>4. CASE LoadChannels \/ RefuseToStart \/ EncryptPlain \/ CleanBackup \/ StopApp
  BY <1>4, FreshFrame DEF LoadChannels, RefuseToStart, EncryptPlain, CleanBackup, StopApp, TypeOK
<1>5. ASSUME NEW c \in Channels, CreateChannel(c) \/ DeleteChannel(c) PROVE FreshInv'
  BY <1>5, FreshFrame DEF CreateChannel, DeleteChannel, TypeOK
<1>6. ASSUME NEW s, NEW n, NEW generate, StartRekey(s, n, generate) PROVE FreshInv'
  BY <1>6, FreshFrame DEF StartRekey
<1>7. CASE StageFails \/ RejectOld \/ CommitFails \/ BackupFails \/ ReplaceFails
  BY <1>7, FreshFrame DEF StageFails, RejectOld, CommitFails, BackupFails, ReplaceFails, Unstage, Exit
<1>8. CASE VerifyOld \/ ReadRows
  BY <1>8, FreshFrame DEF VerifyOld, ReadRows
<1>9. CASE BackupActive \/ ReplaceActive \/ PostVerify
  BY <1>9, FreshFrame DEF BackupActive, ReplaceActive, PostVerify
<1>10. CASE PostVerifyFails \/ CleanUp \/ KillCommand
  BY <1>10, FreshFrame DEF PostVerifyFails, CleanUp, KillCommand, Exit
<1>11. ASSUME NEW n, SetEnv(n) PROVE FreshInv'
  BY <1>11, FreshFrame DEF SetEnv
<1>12. CASE FinishActivation \/ RestoreBackup
  BY <1>12, FreshFrame DEF FinishActivation, RestoreBackup
<1>13. CASE UNCHANGED vars
  BY <1>13, FreshFrame DEF vars
<1> QED
  BY <1>1, <1>2, <1>3, <1>4, <1>5, <1>6, <1>7, <1>8, <1>9, <1>10, <1>11, <1>12, <1>13 DEF Next

\* The invariant is kept by every step.
LEMMA KeyNext == KeyInv /\ [Next]_vars => KeyInv'
  BY KeyTypeNext, ServerNext, CommandNext, FreshNext DEF KeyInv

-----------------------------------------------------------------------------
(* What the channels need *)

\* A step that touches no row, and writes only to files that did not exist.
LEMMA KeptFiles ==
  ASSUME Recoverable, UNCHANGED row,
         active \in {active', NoFile}, staged \in {staged', NoFile}, backup \in {backup', NoFile}
  PROVE  Recoverable'
  BY DEF Recoverable, Held, Readable, FromEnv, FromText

\* A key that can be resolved is held.
LEMMA ResolvedIsHeld ==
  ASSUME NEW n \in Operator \cup {NoSecret}, active' \in Text \cup {NoFile},
         Resolve(n, active') # NoKey
  PROVE  Resolve(n, active') \in Held'
  BY DEF Resolve, Held, FromEnv, FromText

\* The key reads every row after the step.
ReadableNext(k) == \A c \in Channels : row'[c] \in {Absent, Plain, k}

\* One key that is held reads every row.
LEMMA RecoverBy ==
  ASSUME NEW k \in Held' \cup {NoKey}, ReadableNext(k) PROVE Recoverable'
  BY DEF Recoverable, Readable, ReadableNext

\* The steps of which KeysAreKept does not promise anything.
Excepted == \/ crossed \/ WritesOvertaken
            \/ cli = "stage" /\ staged # NoFile
            \/ FinishActivation \/ RestoreBackup

\* In every other step the rows stay readable with one key that is held.
LEMMA RecoverNext ==
  ASSUME KeyInv, TypeOK', Recoverable, ~Excepted, [Next]_vars PROVE Recoverable'
<1> USE KeyTypes DEF KeyInv, Excepted, files, process, command
<1>1. CASE UNCHANGED <<row, files>>
  BY <1>1, KeptFiles
<1>2. CASE StartApp
  BY <1>2, KeptFiles DEF StartApp, Resolve, TypeOK
<1>3. CASE EncryptPlain
  <2>1. ReadableNext(appKey) /\ appKey \in Held'
    BY <1>3, ResolvedIsHeld
       DEF EncryptPlain, WritesOvertaken, ServerInv, Alive, Readable, ReadableNext, TypeOK
  <2> QED
    BY <2>1, RecoverBy
<1>4. CASE CleanBackup
  <2>1. ReadableNext(appKey) /\ appKey \in Held'
    BY <1>4, ResolvedIsHeld
       DEF CleanBackup, WritesOvertaken, ServerInv, Alive, Readable, ReadableNext, TypeOK
  <2> QED
    BY <2>1, RecoverBy
<1>5. ASSUME NEW c \in Channels, CreateChannel(c) PROVE Recoverable'
  <2>1. ReadableNext(appKey) /\ appKey \in Held'
    BY <1>5, ResolvedIsHeld
       DEF CreateChannel, WritesOvertaken, ServerInv, Alive, Readable, ReadableNext, TypeOK
  <2> QED
    BY <2>1, RecoverBy
<1>6. ASSUME NEW c \in Channels, DeleteChannel(c) PROVE Recoverable'
  <2>1. PICK k \in Held \cup {NoKey} : Readable(k)
    BY DEF Recoverable
  <2>2. ReadableNext(k) /\ k \in Held' \cup {NoKey}
    BY <1>6, <2>1 DEF DeleteChannel, Readable, ReadableNext, Held, FromEnv, FromText, TypeOK
  <2> QED
    BY <2>2, RecoverBy
<1>7. CASE StageKey \/ StageFails
  BY <1>7, KeptFiles DEF StageKey, StageFails
<1>8. CASE RejectOld \/ CommitFails
  <2>1. cli \in {"verify", "read", "commit"} /\ UNCHANGED <<row, active, backup>>
    BY <1>8 DEF RejectOld, CommitFails
  <2>2. CASE rotate
    <3>1. PICK k \in Held \cup {NoKey} : Readable(k)
      BY DEF Recoverable
    <3>2. staged \in Generated /\ \A c \in Channels : row[c] # FromText(staged)
      BY <2>1, <2>2 DEF CommandInv, FreshInv, Unused
    <3>3. CASE k = FromText(staged)
      <4>1. ReadableNext(NoKey)
        BY <2>1, <3>1, <3>2, <3>3 DEF Readable, ReadableNext
      <4> QED
        BY <4>1, RecoverBy
    <3>4. CASE k # FromText(staged)
      <4>1. k \in Held' \cup {NoKey}
        BY <2>1, <3>4 DEF Held, FromEnv, FromText
      <4>2. ReadableNext(k)
        BY <2>1, <3>1 DEF Readable, ReadableNext
      <4> QED
        BY <4>1, <4>2, RecoverBy
    <3> QED
      BY <3>3, <3>4
  <2>3. CASE ~rotate
    <3>1. staged' = staged
      BY <1>8, <2>3 DEF RejectOld, CommitFails, Unstage
    <3> QED
      BY <2>1, <3>1, KeptFiles
  <2> QED
    BY <2>2, <2>3
<1>9. CASE CommitRows
  <2>1. ReadableNext(NewKey)
    BY <1>9 DEF CommitRows, ReadableNext, CommandInv, TypeOK
  <2>2. NewKey \in Held'
    BY <1>9 DEF CommitRows, NewKey, Held, CommandInv, TypeOK, FromEnv, FromText
  <2> QED
    BY <2>1, <2>2, RecoverBy
<1>10. CASE BackupActive \/ BackupFails \/ ReplaceActive
  <2>1. ReadableNext(FromText(staged)) /\ FromText(staged) \in Held'
    BY <1>10 DEF BackupActive, BackupFails, ReplaceActive, CommandInv, Readable, ReadableNext, Held,
       FromText
  <2> QED
    BY <2>1, RecoverBy
<1>11. CASE CleanUp
  <2>1. ReadableNext(Resolve(source, active)) /\ Resolve(source, active) \in Held'
    BY <1>11, ResolvedIsHeld DEF CleanUp, CommandInv, Readable, ReadableNext, TypeOK
  <2> QED
    BY <2>1, RecoverBy
<1>12. \/ UNCHANGED <<row, files>>
       \/ StartApp \/ EncryptPlain \/ CleanBackup
       \/ \E c \in Channels : CreateChannel(c) \/ DeleteChannel(c)
       \/ StageKey \/ StageFails \/ RejectOld \/ CommitFails \/ CommitRows
       \/ BackupActive \/ BackupFails \/ ReplaceActive \/ CleanUp
  BY DEF Next, vars, LoadChannels, RefuseToStart, StopApp, StartRekey, VerifyOld, ReadRows,
     ReplaceFails, PostVerify, PostVerifyFails, KillCommand, SetEnv
<1> QED
  BY <1>1, <1>2, <1>3, <1>4, <1>5, <1>6, <1>7, <1>8, <1>9, <1>10, <1>11, <1>12

-----------------------------------------------------------------------------
\* The rows, the key files and the processes keep their types: in particular the
\* active key file is never cut short.
THEOREM KeyTypesCorrect == Spec => []TypeOK
<1>1. KeyInv => TypeOK
  BY DEF KeyInv
<1> QED
  BY KeyInit, KeyNext, <1>1, PTL DEF Spec

\* No step of a start or of a rekey, whatever fails in it or after it, takes away
\* the last key of the channels, but for an application and a command that cross
\* (crypto_migrate.py:103), and a key staged over another one (cli.py:81).
THEOREM KeysKept == Spec => KeysAreKept
<1>1. KeyInv /\ [Next]_vars => KeyInv'
  BY KeyNext
<1>2. KeyInv /\ KeyInv' /\ [Next]_vars =>
        [Recoverable => \/ Recoverable'
                        \/ crossed \/ WritesOvertaken
                        \/ cli = "stage" /\ staged # NoFile
                        \/ FinishActivation \/ RestoreBackup]_vars
  BY RecoverNext DEF KeyInv, Excepted
<1> QED
  BY KeyInit, <1>1, <1>2, PTL DEF Spec, KeysAreKept

\* An application that runs, and that no command nor operator has overtaken, can be
\* restarted: the key it would resolve reads every channel.
THEOREM RestartAlwaysWorks == Spec => []RestartWorks
<1>1. KeyInv => RestartWorks
  BY DEF KeyInv, ServerInv, Alive, RestartWorks
<1> QED
  BY KeyInit, KeyNext, <1>1, PTL DEF Spec

\* The program replaces the active key file only by a key that reads the committed
\* rows, but for those the application has written since.
THEOREM ActivationIsSafe == Spec => ActivationAfterCommit
<1>1. KeyInv /\ [Next]_vars =>
        [active' # active /\ active # NoFile =>
           Readable(FromText(active')) \/ crossed \/ FinishActivation \/ RestoreBackup]_vars
  <2> SUFFICES ASSUME KeyInv, [Next]_vars, active' # active, active # NoFile
               PROVE Readable(FromText(active')) \/ crossed \/ FinishActivation \/ RestoreBackup
    OBVIOUS
  <2>1. StartApp \/ ReplaceActive \/ FinishActivation \/ RestoreBackup
    BY DEF Next, vars, files, LoadChannels, RefuseToStart, EncryptPlain, CleanBackup, CreateChannel,
       DeleteChannel, StopApp, StartRekey, StageKey, StageFails, VerifyOld, ReadRows, RejectOld,
       CommitRows, CommitFails, BackupActive, BackupFails, ReplaceFails, PostVerify,
       PostVerifyFails, CleanUp, KillCommand, SetEnv
  <2>2. ~StartApp
    BY KeyTypes DEF StartApp, Resolve, KeyInv, TypeOK
  <2>3. ReplaceActive => Readable(FromText(active')) \/ crossed
    BY DEF ReplaceActive, KeyInv, CommandInv
  <2> QED
    BY <2>1, <2>2, <2>3
<1> QED
  BY KeyInit, KeyNext, <1>1, PTL DEF Spec, ActivationAfterCommit

\* README.md:167, as far as it is true: a staged key that a channel is under is lost
\* only when a command stages another one over it (cli.py:81).
THEOREM OnlyStagingLosesKey ==
  Spec => [][\A g \in Generated : staged = g /\ (\E c \in Channels : row[c] = FromText(g)) =>
               g \in {staged', active'} \/ cli = "stage"]_vars
<1> DEFINE Step == \A g \in Generated : staged = g /\ (\E c \in Channels : row[c] = FromText(g)) =>
                     g \in {staged', active'} \/ cli = "stage"
<1>1. KeyInv /\ [Next]_vars => [Step]_vars
  <2> SUFFICES ASSUME KeyInv, [Next]_vars, cli # "stage", staged \in Generated,
                      NEW c \in Channels, row[c] = FromText(staged)
               PROVE staged \in {staged', active'}
    OBVIOUS
  <2>1. UNCHANGED staged \/ RejectOld \/ CommitFails \/ ReplaceActive \/ FinishActivation
    BY DEF Next, vars, files, StartApp, LoadChannels, RefuseToStart, EncryptPlain, CleanBackup,
       CreateChannel, DeleteChannel, StopApp, StartRekey, StageKey, StageFails, VerifyOld, ReadRows,
       CommitRows, BackupActive, BackupFails, ReplaceFails, PostVerify, PostVerifyFails, CleanUp,
       KillCommand, SetEnv, RestoreBackup
  <2>2. CASE RejectOld \/ CommitFails
    <3>1. cli \in {"verify", "read", "commit"} /\ Unstage
      BY <2>2 DEF RejectOld, CommitFails
    <3>2. ~rotate
      BY <3>1 DEF KeyInv, FreshInv, Unused
    <3> QED
      BY <3>1, <3>2 DEF Unstage
  <2>3. CASE ReplaceActive \/ FinishActivation
    BY <2>3 DEF ReplaceActive, FinishActivation
  <2> QED
    BY <2>1, <2>2, <2>3
<1> QED
  BY <1>1, KeyInit, KeyNext, PTL DEF Spec
=============================================================================
