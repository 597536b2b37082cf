---------------------------- MODULE ScheduleProofs ----------------------------
(***************************************************************************)
(* Safety of Schedule for any number of saves, rows and settings.          *)
(*                                                                         *)
(* FormInv: a save past its validation has a form whose values may be      *)
(* stored.  AloneInv: of the saves between commit and reschedule, one whose*)
(* value is the stored one is the only one there; that makes               *)
(* JobFollowsSetting inductive.  RowInv says what a batch, the deleted rows*)
(* and the rows under reused ids have to do with the retention until the   *)
(* cleanup commits; RetentionExact follows from it at that step.  BatchInv *)
(* adds what CleanupAdvances needs: no DELETE under the lock is in vain.   *)
(***************************************************************************)
EXTENDS Schedule, TLAPS, FiniteSetTheorems

FormInv ==
  \A r \in Savers :
    /\ pc[r] \in {"load", "write", "reschedule", "log"} => form[r] \in Forms /\ Accepted(form[r])
    /\ pc[r] = "reschedule" => form[r] \in IntervalForms

-----------------------------------------------------------------------------
(* Forms and settings *)

LEMMA AcceptedNumbers ==
  ASSUME NEW c \in Choices
  PROVE  /\ AcceptedInterval(c) => c.number \in Nat \ {0}
         /\ AcceptedDays(c) => c.number \in Nat
<1>1. c.number \in Int \cup {NoValue}
  BY DEF Choices
<1>2. CASE c.custom
  BY <1>1, <1>2, PresetAssumption DEF AcceptedInterval, AcceptedDays
<1>3. CASE ~c.custom
  <2>1. AcceptedInterval(c) => c.number \in IntervalPresets
    BY <1>3 DEF AcceptedInterval
  <2>2. AcceptedDays(c) => c.number \in DayPresets
    BY <1>3 DEF AcceptedDays
  <2>3. IntervalPresets \subseteq Nat \ {0} /\ DayPresets \subseteq Nat
    BY PresetAssumption
  <2> QED
    BY <2>1, <2>2, <2>3
<1> QED
  BY <1>2, <1>3

LEMMA ValueTypes ==
  ASSUME NEW f \in Forms, Accepted(f), NEW k \in KeysOf(f)
  PROVE  /\ k \in Keys /\ ValueOf(f, k) \in Nat
         /\ f \in IntervalForms => k = IntervalKey /\ f.interval.number \in Nat \ {0}
         /\ f \notin IntervalForms => k # IntervalKey
<1>1. CASE f \in IntervalForms
  <2>1. f.interval \in Choices /\ AcceptedInterval(f.interval)
    BY <1>1, FormAssumption DEF Accepted
  <2>2. f.interval.number \in Nat \ {0}
    BY <2>1, AcceptedNumbers
  <2>3. k = IntervalKey
    BY <1>1 DEF KeysOf
  <2> QED
    BY <1>1, <2>2, <2>3 DEF ValueOf, Keys
<1>2. CASE f \notin IntervalForms
  <2>1. /\ f.observations \in Choices /\ f.events \in Choices
        /\ AcceptedDays(f.observations) /\ AcceptedDays(f.events)
    BY <1>2, FormAssumption DEF Accepted, Forms
  <2>2. f.observations.number \in Nat /\ f.events.number \in Nat
    BY <2>1, AcceptedNumbers
  <2>3. k \in {ObservationKey, EventKey} /\ k # IntervalKey
    BY <1>2 DEF KeysOf, ObservationKey, EventKey, IntervalKey
  <2> QED
    BY <1>2, <2>2, <2>3 DEF ValueOf, Keys
<1> QED
  BY <1>1, <1>2

LEMMA ResolveTypes ==
  ASSUME NEW s \in Settings
  PROVE  /\ ResolveInterval(s) \in Nat \ {0}
         /\ \A t \in Tables : ResolveDays(s, t) \in Nat
<1>1. s[IntervalKey] \in Nat \cup {NoValue} /\ s[ObservationKey] \in Nat \cup {NoValue}
      /\ s[EventKey] \in Nat \cup {NoValue}
  BY DEF Settings, Keys
<1>2. ResolveInterval(s) \in Nat \ {0}
  BY <1>1, EnvAssumption, PresetAssumption DEF ResolveInterval
<1>3. ASSUME NEW t \in Tables PROVE ResolveDays(s, t) \in Nat
  BY <1>1, EnvAssumption, PresetAssumption DEF ResolveDays
<1> QED
  BY <1>2, <1>3

LEMMA RowTypes ==
  ASSUME NEW xs \in SUBSET Rows, NEW at \in Nat
  PROVE  WithRow(xs, at) \in SUBSET Rows
BY DEF WithRow, NextIds, Rows

-----------------------------------------------------------------------------
(* Types *)

LEMMA AnswerTypes ==
  ASSUME TypeOK, FormInv, NEW r \in Savers, Answer(r)
  PROVE  /\ pc' \in [Savers -> SavePoints] /\ form' \in [Savers -> Forms \cup {NoForm}]
         /\ loaded' \in [Savers -> Settings] /\ FormInv'
<1>1. Unset \in Settings
  BY DEF Unset, Settings
<1>2. /\ pc' = [pc EXCEPT ![r] = "done"] /\ form' = [form EXCEPT ![r] = NoForm]
      /\ loaded' = [loaded EXCEPT ![r] = Unset]
  BY DEF Answer, Goto
<1>3. pc' \in [Savers -> SavePoints] /\ form' \in [Savers -> Forms \cup {NoForm}]
  BY <1>2 DEF TypeOK, SavePoints
<1>4. loaded' \in [Savers -> Settings]
  BY <1>1, <1>2 DEF TypeOK
<1>5. FormInv'
  BY <1>2 DEF TypeOK, FormInv
<1> QED
  BY <1>3, <1>4, <1>5

\* The saves change settings, job and their own fields, and may add an event.
SavesOK ==
  /\ setting \in Settings /\ job \in 1..MaxSeconds \cup {NoValue}
  /\ pc \in [Savers -> SavePoints] /\ form \in [Savers -> Forms \cup {NoForm}]
  /\ loaded \in [Savers -> Settings] /\ FormInv
  /\ alone \subseteq Savers /\ crossed \in BOOLEAN

RowsOK ==
  /\ phase \in {"down", "starting", "up"} /\ clock \in Nat /\ due \in Nat /\ now \in Nat
  /\ table \in [Tables -> SUBSET Rows] /\ gone \in [Tables -> SUBSET Rows]
  /\ run \in RunPoints /\ days \in [Tables -> Nat]
  /\ batch \subseteq Ids /\ locked \in BOOLEAN
  /\ reborn \in [Tables -> SUBSET Rows]

LEMMA Halves == (TypeOK /\ FormInv <=> SavesOK /\ RowsOK)
BY DEF TypeOK, SavesOK, RowsOK

LEMMA InsertTypes ==
  ASSUME RowsOK, NEW t \in Tables, Insert(t)
  PROVE  table' \in [Tables -> SUBSET Rows] /\ reborn' \in [Tables -> SUBSET Rows]
<1>1. table' = [table EXCEPT ![t] = WithRow(@, clock)]
  BY DEF Insert
<1>2. table' \in [Tables -> SUBSET Rows]
  BY <1>1, RowTypes DEF RowsOK
<1>3. reborn' \in [Tables -> SUBSET Rows]
  <2>1. {x \in table'[t] \ table[t] : x.id \in batch} \in SUBSET Rows
    BY <1>2
  <2> QED
    BY <2>1 DEF Insert, RowsOK
<1> QED
  BY <1>2, <1>3

LEMMA SaveTypes ==
  ASSUME TypeOK, FormInv, NEW r \in Savers, SaveStep(r)
  PROVE  SavesOK'
<1>1. SavesOK
  BY Halves
<1>2. Answer(r) => /\ pc' \in [Savers -> SavePoints] /\ form' \in [Savers -> Forms \cup {NoForm}]
                   /\ loaded' \in [Savers -> Settings] /\ FormInv'
  BY AnswerTypes
<1>3. ASSUME NEW f \in Forms, Submit(r, f) PROVE SavesOK'
  <2>1. UNCHANGED <<setting, job, alone, crossed>>
    BY <1>3 DEF Submit, history
  <2>2. CASE Answer(r)
    BY <2>1, <2>2, <1>1, <1>2 DEF SavesOK
  <2>3. CASE ~Answer(r)
    <3>1. /\ pc' = [pc EXCEPT ![r] = "load"] /\ form' = [form EXCEPT ![r] = f]
          /\ loaded' = loaded /\ Accepted(f)
      BY <1>3, <2>3 DEF Submit, Goto
    <3>2. FormInv'
      BY <3>1, <1>1 DEF SavesOK, FormInv
    <3> QED
      BY <2>1, <3>1, <3>2, <1>1 DEF SavesOK, SavePoints
  <2> QED
    BY <2>2, <2>3
<1>4. CASE Load(r)
  <2>1. /\ UNCHANGED <<setting, job, form, alone, crossed>>
        /\ pc[r] = "load" /\ pc' = [pc EXCEPT ![r] = "write"]
        /\ loaded' = [loaded EXCEPT ![r] = [k \in Keys |->
                        IF k \in KeysOf(form[r]) THEN setting[k] ELSE NoValue]]
    BY <1>4 DEF Load, Goto, history
  <2>2. loaded' \in [Savers -> Settings]
    BY <2>1, <1>1 DEF SavesOK, Settings
  <2>3. FormInv'
    BY <2>1, <1>1 DEF SavesOK, FormInv
  <2> QED
    BY <2>1, <2>2, <2>3, <1>1 DEF SavesOK, SavePoints
<1>5. CASE Commit(r)
  <2>1. /\ pc[r] = "write" /\ UNCHANGED <<job, form, crossed>>
        /\ setting' = [k \in Keys |-> IF k \in KeysOf(form[r])
                                      THEN Changed(loaded[r][k], ValueOf(form[r], k), setting[k])
                                      ELSE setting[k]]
        /\ loaded' = [loaded EXCEPT ![r] = Unset]
    BY <1>5 DEF Commit
  <2>2. form[r] \in Forms /\ Accepted(form[r])
    BY <2>1 DEF FormInv
  <2>3. setting' \in Settings
    <3>1. \A k \in KeysOf(form[r]) : ValueOf(form[r], k) \in Nat
      BY <2>2, ValueTypes
    <3> QED
      BY <2>1, <3>1, <1>1 DEF SavesOK, Settings, Changed
  <2>4. loaded' \in [Savers -> Settings]
    BY <2>1, <1>1 DEF SavesOK, Settings, Unset
  <2>5. /\ pc' \in [Savers -> SavePoints] /\ alone' \subseteq Savers
        /\ \A q \in Savers : q # r => pc'[q] = pc[q]
        /\ pc'[r] = "reschedule" => form[r] \in IntervalForms
    BY <1>5, <1>1 DEF Commit, Goto, SavesOK, SavePoints
  <2>6. FormInv'
    BY <2>1, <2>2, <2>5 DEF FormInv
  <2> QED
    BY <2>1, <2>3, <2>4, <2>5, <2>6, <1>1 DEF SavesOK
<1>6. CASE CommitFails(r)
  BY <1>6, <1>1, <1>2 DEF CommitFails, history, SavesOK
<1>7. CASE Reschedule(r)
  <2>1. /\ UNCHANGED <<setting, form, loaded>>
        /\ pc[r] = "reschedule" /\ pc' = [pc EXCEPT ![r] = "log"]
        /\ alone' = alone \ {r} /\ crossed' \in BOOLEAN
        /\ job' = IF Expressible(form[r].interval.number) THEN form[r].interval.number ELSE job
    BY <1>7 DEF Reschedule, Goto
  <2>2. form[r] \in IntervalForms /\ form[r] \in Forms /\ Accepted(form[r])
    BY <2>1 DEF FormInv
  <2>3. form[r].interval.number \in Nat \ {0}
    <3>1. IntervalKey \in KeysOf(form[r])
      BY <2>2 DEF KeysOf
    <3> QED
      BY <2>2, <3>1, ValueTypes
  <2>4. job' \in 1..MaxSeconds \cup {NoValue}
    BY <2>1, <2>3, <1>1, PresetAssumption DEF Expressible, SavesOK
  <2>5. FormInv'
    BY <2>1, <2>2, <1>1 DEF FormInv, SavesOK
  <2> QED
    BY <2>1, <2>4, <2>5, <1>1 DEF SavesOK, SavePoints
<1>8. CASE Log(r)
  BY <1>8, <1>1, <1>2 DEF Log, history, SavesOK
<1> QED
  BY <1>3, <1>4, <1>5, <1>6, <1>7, <1>8 DEF SaveStep, Forms

\* The rows and the cleanup, for each kind of step.
LEMMA CleanupTypes ==
  ASSUME TypeOK, FormInv, CleanupStep
  PROVE  RowsOK'
<1>1. RowsOK /\ SavesOK
  BY Halves
<1>2. ASSUME Resolve PROVE RowsOK'
  <2>1. PICK t \in Tables, next \in RunPoints :
          /\ run' = next /\ days' = [days EXCEPT ![t] = ResolveDays(setting, t)]
          /\ UNCHANGED <<outside, table, due, now, transaction, reborn>>
    BY <1>2 DEF Resolve, ResolveTable, Tables, RunPoints
  <2>2. ResolveDays(setting, t) \in Nat
    BY <1>1, ResolveTypes DEF SavesOK
  <2> QED
    BY <2>1, <2>2, <1>1 DEF RowsOK, outside, transaction
<1>3. ASSUME NEW t \in Tables, SelectBatch(t) PROVE RowsOK'
  <2>1. Prunable(t) \subseteq Rows
    BY <1>1 DEF Prunable, Old, Visible, RowsOK
  <2>2. batch' \subseteq Ids
    BY <2>1, <1>3 DEF SelectBatch, Rows
  <2>3. run' \in RunPoints
    BY <1>3 DEF SelectBatch, TableAfter, RunPoints, Tables
  <2> QED
    BY <2>2, <2>3, <1>1, <1>3 DEF SelectBatch, RowsOK, outside
<1>4. ASSUME NEW t \in Tables, DeleteBatch(t) PROVE RowsOK'
  BY <1>1, <1>4 DEF DeleteBatch, RowsOK, outside, Visible
<1>5. CASE CommitCleanup
  <2>1. WithRow(Visible("events"), clock) \in SUBSET Rows /\ Visible("observations") \in SUBSET Rows
    BY <1>1, RowTypes DEF RowsOK, Visible, Tables
  <2>2. table' \in [Tables -> SUBSET Rows]
    <3>1. /\ table' = [observations |-> Visible("observations"),
                       events |-> WithRow(Visible("events"), clock)]
      BY <1>5 DEF CommitCleanup
    <3> QED
      BY <2>1, <3>1 DEF Tables
  <2>3. gone' \in [Tables -> SUBSET Rows] /\ reborn' \in [Tables -> SUBSET Rows]
        /\ batch' \subseteq Ids /\ locked' \in BOOLEAN
    BY <1>5 DEF CommitCleanup, EndTransaction, None
  <2> QED
    BY <2>2, <2>3, <1>1, <1>5 DEF CommitCleanup, RowsOK, outside, RunPoints
<1>6. CASE FailCleanup
  BY <1>1, <1>6 DEF FailCleanup, EndTransaction, None, RowsOK, outside, RunPoints
<1>7. CASE EndCleanup
  BY <1>1, <1>7 DEF EndCleanup, NoDays, RowsOK, RunPoints, transaction
<1> QED
  BY <1>2, <1>3, <1>4, <1>5, <1>6, <1>7 DEF CleanupStep

LEMMA TypeNext ==
  ASSUME TypeOK, FormInv, [Next]_vars
  PROVE  TypeOK' /\ FormInv'
<1>1. SavesOK /\ RowsOK
  BY Halves
<1> SUFFICES SavesOK' /\ RowsOK'
  BY DEF TypeOK, SavesOK, RowsOK
<1>2. ASSUME UNCHANGED <<setting, job, saves, history>> PROVE SavesOK'
  BY <1>1, <1>2 DEF SavesOK, FormInv, saves, history
<1>3. ASSUME UNCHANGED <<phase, clock, table, cleanup>> PROVE RowsOK'
  BY <1>1, <1>3 DEF RowsOK, cleanup, transaction
<1>4. CASE Start
  <2>1. ResolveInterval(setting) \in Nat \ {0}
    BY <1>1, ResolveTypes DEF SavesOK
  <2>2. job' \in 1..MaxSeconds \cup {NoValue}
    BY <2>1, <1>4, PresetAssumption DEF Start, Expressible
  <2>3. SavesOK'
    BY <2>2, <1>1, <1>4 DEF Start, SavesOK, FormInv, saves, history
  <2>4. due' \in Nat /\ phase' \in {"starting", "up"}
        /\ run' \in RunPoints /\ now' \in Nat
    BY <1>1, <1>4 DEF Start, Begin, RowsOK, RunPoints
  <2> QED
    BY <2>3, <2>4, <1>1, <1>4 DEF Start, RowsOK, transaction
<1>5. CASE StartFails
  BY <1>2, <1>3, <1>5 DEF StartFails, vars
<1>6. CASE Crash
  <2>1. Unset \in Settings
    BY DEF Unset, Settings
  <2>2. /\ pc' \in [Savers -> SavePoints] /\ \A r \in Savers : pc'[r] \in {"idle", "done"}
        /\ loaded' \in [Savers -> Settings] /\ form' \in [Savers -> Forms \cup {NoForm}]
    BY <2>1, <1>6 DEF Crash, SavePoints
  <2>3. SavesOK'
    BY <2>2, <1>1, <1>6 DEF Crash, SavesOK, FormInv
  <2> QED
    BY <2>3, <1>1, <1>6 DEF Crash, EndTransaction, None, NoDays, RowsOK, RunPoints
<1>7. CASE Tick
  BY <1>1, <1>2, <1>7 DEF Tick, RowsOK, cleanup, transaction
<1>8. CASE Daily
  BY <1>1, <1>2, <1>8 DEF Daily, Begin, RowsOK, RunPoints, outside, transaction
<1>9. CASE CleanupStep
  <2>1. UNCHANGED <<setting, job, saves, history>>
    BY <1>9 DEF CleanupStep, Resolve, ResolveTable, SelectBatch, DeleteBatch, CommitCleanup,
                FailCleanup, EndCleanup, outside
  <2> QED
    BY <2>1, <1>2, <1>9, CleanupTypes
<1>10. ASSUME NEW r \in Savers, SaveStep(r) PROVE SavesOK' /\ RowsOK'
  <2>1. SavesOK'
    BY <1>10, SaveTypes
  <2>2. /\ UNCHANGED <<phase, clock, untouched>>
        /\ UNCHANGED <<table, reborn>> \/ Insert("events")
    BY <1>10 DEF SaveStep, Submit, Load, Commit, CommitFails, Reschedule, Log, others
  <2>3. table' \in [Tables -> SUBSET Rows] /\ reborn' \in [Tables -> SUBSET Rows]
    BY <2>2, <1>1, InsertTypes DEF RowsOK, Tables
  <2> QED
    BY <2>1, <2>2, <2>3, <1>1 DEF RowsOK, untouched, transaction
<1>11. ASSUME NEW t \in Tables, AddRow(t) PROVE SavesOK' /\ RowsOK'
  <2>1. UNCHANGED <<setting, phase, job, saves, clock, untouched, history>> /\ Insert(t)
    BY <1>11 DEF AddRow
  <2>2. table' \in [Tables -> SUBSET Rows] /\ reborn' \in [Tables -> SUBSET Rows]
    BY <2>1, <1>1, InsertTypes
  <2> QED
    BY <2>1, <2>2, <1>1, <1>2 DEF RowsOK, untouched, transaction
<1>12. ASSUME NEW t \in Tables, NEW xs \in SUBSET table[t], DeleteRows(t, xs)
       PROVE SavesOK' /\ RowsOK'
  <2>1. /\ UNCHANGED <<setting, phase, job, saves, clock, untouched, history>>
        /\ table' = [table EXCEPT ![t] = @ \ xs] /\ reborn' = [reborn EXCEPT ![t] = @ \ xs]
    BY <1>12 DEF DeleteRows
  <2> QED
    BY <2>1, <1>1, <1>2 DEF RowsOK, untouched, transaction
<1>13. CASE UNCHANGED vars
  BY <1>2, <1>3, <1>13 DEF vars
<1> QED
  BY <1>4, <1>5, <1>6, <1>7, <1>8, <1>9, <1>10, <1>11, <1>12, <1>13 DEF Next

-----------------------------------------------------------------------------
(* The job and the setting *)

AloneInv ==
  \A r \in alone :
    /\ r \in Savers /\ pc[r] = "reschedule"
    /\ setting[IntervalKey] = form[r].interval.number
    /\ \A q \in Savers : q # r => pc[q] # "reschedule"

JobInv ==
  phase # "down" /\ ~crossed /\ (\A r \in Savers : pc[r] # "reschedule")
  /\ Expressible(ResolveInterval(setting)) => job = ResolveInterval(setting)

\* There is no cleanup without a process.
RunInv == phase = "down" => run = "idle"

LEMMA CleanupRuns == CleanupStep => run # "idle"
BY DEF CleanupStep, Resolve, ResolveTable, SelectBatch, DeleteBatch, CommitCleanup,
       FailCleanup, EndCleanup, Tables

LEMMA RunNext ==
  ASSUME RunInv, [Next]_vars
  PROVE  RunInv'
<1>1. CASE CleanupStep
  <2>1. phase' \in {phase, "up"} /\ phase # "down"
    BY <1>1, CleanupRuns DEF RunInv, CleanupStep, Resolve, ResolveTable, SelectBatch, DeleteBatch,
       CommitCleanup, FailCleanup, EndCleanup, outside
  <2> QED
    BY <2>1 DEF RunInv
<1>2. CASE Start \/ Crash \/ Daily
  BY <1>2 DEF Start, Crash, Daily, Begin, RunInv, outside
<1>3. CASE ~CleanupStep /\ ~Start /\ ~Crash /\ ~Daily
  <2>1. phase' = phase /\ run' = run
    BY <1>3 DEF Next, StartFails, Tick, SaveStep, Submit, Load, Commit, CommitFails, Reschedule,
       Log, others, AddRow, DeleteRows, cleanup, untouched, vars
  <2> QED
    BY <2>1 DEF RunInv
<1> QED
  BY <1>1, <1>2, <1>3

LEMMA JobNext ==
  ASSUME TypeOK, FormInv, RunInv, AloneInv, JobInv, [Next]_vars
  PROVE  AloneInv' /\ JobInv'
<1>1. ASSUME UNCHANGED <<setting, saves, history>>,
             phase' = "down" \/ job' = ResolveInterval(setting) \/ (phase # "down" /\ job' = job)
      PROVE  AloneInv' /\ JobInv'
  BY <1>1 DEF AloneInv, JobInv, ResolveInterval, saves, history
<1>2. CASE Start \/ StartFails
  <2>1. CASE Start
    BY <2>1, <1>1 DEF Start
  <2>2. CASE StartFails
    BY <2>2, <1>1 DEF StartFails, vars
  <2> QED
    BY <1>2, <2>1, <2>2
<1>3. CASE Crash
  BY <1>3 DEF Crash, AloneInv, JobInv
<1>4. CASE UNCHANGED vars
  BY <1>4 DEF AloneInv, JobInv, ResolveInterval, saves, history, vars
<1>5. CASE \/ Tick \/ Daily
           \/ \E t \in Tables : AddRow(t) \/ \E xs \in SUBSET table[t] : DeleteRows(t, xs)
  BY <1>5 DEF Tick, Daily, AddRow, DeleteRows, outside, saves, history,
              AloneInv, JobInv, ResolveInterval
<1>6. CASE CleanupStep
  <2>1. UNCHANGED <<setting, job, saves, history>>
    BY <1>6 DEF CleanupStep, Resolve, ResolveTable, SelectBatch, DeleteBatch, CommitCleanup,
                FailCleanup, EndCleanup, outside
  <2>2. phase # "down"
    BY <1>6, CleanupRuns DEF RunInv
  <2> QED
    BY <2>1, <2>2, <1>1
<1>7. ASSUME NEW r \in Savers, SaveStep(r) PROVE AloneInv' /\ JobInv'
  <2>1. phase' = phase
    BY <1>7 DEF SaveStep, Submit, Load, Commit, CommitFails, Reschedule, Log, others
  <2>2. ASSUME \A q \in Savers : q # r => pc'[q] = pc[q] /\ form'[q] = form[q],
               pc[r] # "reschedule", pc'[r] # "reschedule",
               UNCHANGED <<job, alone, crossed>>, setting'[IntervalKey] = setting[IntervalKey]
        PROVE  AloneInv' /\ JobInv'
    <3>1. AloneInv'
      BY <2>2 DEF AloneInv
    <3>2. ResolveInterval(setting') = ResolveInterval(setting)
      BY <2>2 DEF ResolveInterval
    <3>3. JobInv'
      BY <2>1, <2>2, <3>2 DEF JobInv
    <3> QED
      BY <3>1, <3>3
  <2>3. CASE (\E f \in Forms : Submit(r, f)) \/ Load(r) \/ CommitFails(r) \/ Log(r)
    <3>1. /\ UNCHANGED <<setting, job, history>> /\ pc[r] # "reschedule"
          /\ \E p \in {"load", "write", "done"} : pc' = [pc EXCEPT ![r] = p]
          /\ \A q \in Savers : q # r => form'[q] = form[q]
      BY <2>3 DEF Submit, Load, CommitFails, Log, Answer, Goto, TypeOK
    <3> QED
      BY <3>1, <2>2 DEF TypeOK, history
  <2>4. CASE Commit(r) /\ form[r] \notin IntervalForms
    <3>1. /\ pc[r] = "write" /\ pc' = [pc EXCEPT ![r] = "log"]
          /\ UNCHANGED <<job, form, alone, crossed>>
          /\ setting' = [k \in Keys |-> IF k \in KeysOf(form[r])
                                        THEN Changed(loaded[r][k], ValueOf(form[r], k), setting[k])
                                        ELSE setting[k]]
      BY <2>4 DEF Commit, Goto
    <3>2. setting'[IntervalKey] = setting[IntervalKey]
      BY <2>4, <3>1 DEF KeysOf, Keys, IntervalKey, ObservationKey, EventKey
    <3> QED
      BY <3>1, <3>2, <2>2 DEF TypeOK
  <2>5. CASE Commit(r) /\ form[r] \in IntervalForms
    <3>1. /\ pc[r] = "write" /\ pc' = [pc EXCEPT ![r] = "reschedule"]
          /\ alone' = {q \in {r} : setting'[IntervalKey] = form[r].interval.number
                                   /\ \A p \in Savers : pc[p] # "reschedule"}
          /\ form' = form
      BY <2>5 DEF Commit, Goto
    <3>2. pc'[r] = "reschedule" /\ \A q \in Savers : q # r => pc'[q] = pc[q]
      BY <3>1 DEF TypeOK
    <3>3. AloneInv'
      BY <3>1, <3>2 DEF AloneInv
    <3>4. JobInv'
      BY <3>2 DEF JobInv
    <3> QED
      BY <3>3, <3>4
  <2>6. CASE Reschedule(r)
    <3>1. /\ UNCHANGED <<setting, form>>
          /\ pc[r] = "reschedule" /\ pc' = [pc EXCEPT ![r] = "log"]
          /\ alone' = alone \ {r} /\ crossed' = (r \notin alone)
          /\ job' = IF Expressible(form[r].interval.number) THEN form[r].interval.number ELSE job
      BY <2>6 DEF Reschedule, Goto
    <3>2. alone' = {} \/ (r \notin alone /\ alone' = alone)
      BY <3>1 DEF AloneInv
    <3>3. AloneInv'
      <4>1. r \notin alone => alone = {}
        BY <3>1 DEF AloneInv
      <4> QED
        BY <3>1, <3>2, <4>1 DEF AloneInv
    <3>4. JobInv'
      <4>1. CASE r \notin alone
        BY <3>1, <4>1 DEF JobInv
      <4>2. CASE r \in alone
        <5>1. setting[IntervalKey] = form[r].interval.number
          BY <4>2 DEF AloneInv
        <5>2. form[r].interval.number \in Nat \ {0}
          <6>1. form[r] \in IntervalForms /\ form[r] \in Forms /\ Accepted(form[r])
            BY <3>1 DEF FormInv
          <6>2. IntervalKey \in KeysOf(form[r])
            BY <6>1 DEF KeysOf
          <6> QED
            BY <6>1, <6>2, ValueTypes
        <5>3. ResolveInterval(setting') = form[r].interval.number
          BY <3>1, <5>1, <5>2, ValueAssumption DEF ResolveInterval
        <5> QED
          BY <3>1, <5>3 DEF JobInv
      <4> QED
        BY <4>1, <4>2
    <3> QED
      BY <3>3, <3>4
  <2> QED
    BY <1>7, <2>3, <2>4, <2>5, <2>6 DEF SaveStep, Forms
<1> QED
  BY <1>2, <1>3, <1>4, <1>5, <1>6, <1>7 DEF Next

-----------------------------------------------------------------------------
(* The rows and the cleanup *)

\* Too old for the retention the cleanup has resolved.
TooOld(t, x) == days[t] # 0 /\ x.at < now - days[t]

Past(t) == run = "commit" \/ (t = "observations" /\ run = "events")

UniqueIds(xs) == \A a, b \in xs : a.id = b.id => a = b

\* One table, as the cleanup sees it.
RowInv(t) ==
  /\ UniqueIds(table[t])
  /\ gone[t] \subseteq table[t] /\ reborn[t] \subseteq table[t]
  /\ gone[t] # {} => locked
  /\ \A x \in gone[t] : x \in reborn[t] \/ TooOld(t, x)
  /\ run = t => \A x \in table[t] : x.id \in batch => x \in reborn[t] \/ TooOld(t, x)
  /\ run = t => \A x \in reborn[t] : x.id \in batch \/ x \in gone[t]
  /\ run # t => reborn[t] \subseteq gone[t]
  /\ Past(t) => \A x \in table[t] \ gone[t] : ~TooOld(t, x)

RowsInv ==
  /\ now <= clock
  /\ run \notin Tables => batch = {}
  /\ run \notin Tables \cup {"commit"} => gone = None /\ reborn = None /\ ~locked
  /\ \A t \in Tables : RowInv(t)

LEMMA WithRowUnique ==
  ASSUME NEW xs \in SUBSET Rows, NEW at, UniqueIds(xs)
  PROVE  /\ UniqueIds(WithRow(xs, at)) /\ xs \subseteq WithRow(xs, at)
         /\ \A x \in WithRow(xs, at) \ xs : x.at = at
<1>1. ASSUME NEW a \in WithRow(xs, at), NEW b \in WithRow(xs, at), a.id = b.id PROVE a = b
  <2>1. \A i \in NextIds(xs) : \A x \in xs : x.id # i
    BY DEF NextIds, Ids, Rows
  <2> QED
    BY <1>1, <2>1 DEF WithRow, UniqueIds
<1> QED
  BY <1>1 DEF WithRow, UniqueIds

\* What other transactions do to the rows leaves the cleanup's part alone.
LEMMA InsertRows ==
  ASSUME TypeOK, RowsInv, NEW t \in Tables, Insert(t), UNCHANGED <<clock, untouched>>
  PROVE  RowsInv'
<1>1. /\ ~locked /\ UNCHANGED <<clock, run, now, days, batch, gone, locked>>
      /\ table' = [table EXCEPT ![t] = WithRow(@, clock)]
      /\ reborn' = IF run = t
                   THEN [reborn EXCEPT ![t] = @ \cup {x \in table'[t] \ table[t] : x.id \in batch}]
                   ELSE reborn
  BY DEF Insert, untouched, transaction
<1>2. /\ table \in [Tables -> SUBSET Rows] /\ reborn \in [Tables -> SUBSET Rows]
      /\ clock \in Nat /\ now \in Nat /\ days \in [Tables -> Nat] /\ now <= clock
  BY DEF TypeOK, RowsInv
<1>3. ASSUME NEW u \in Tables PROVE RowInv(u)'
  <2>1. RowInv(u)
    BY DEF RowsInv
  <2>2. gone[u] = {}
    BY <1>1, <2>1 DEF RowInv
  <2>3. CASE u # t
    <3>1. table'[u] = table[u] /\ reborn'[u] = reborn[u]
      BY <1>1, <1>2, <2>3
    <3> QED
      BY <1>1, <2>1, <3>1 DEF RowInv, TooOld, Past
  <2>4. CASE u = t
    <3>1. /\ table'[u] = WithRow(table[u], clock) /\ UniqueIds(table[u])
          /\ table[u] \in SUBSET Rows
      BY <1>1, <1>2, <2>1, <2>4 DEF RowInv
    <3>2. /\ UniqueIds(table'[u]) /\ table[u] \subseteq table'[u]
          /\ \A x \in table'[u] \ table[u] : x.at = clock
      BY <3>1, WithRowUnique
    <3>3. ASSUME NEW x \in table'[u] \ table[u] PROVE ~TooOld(u, x)
      <4>1. x.at = clock /\ days[u] \in Nat
        BY <3>2, <1>2
      <4> QED
        BY <4>1, <1>2 DEF TooOld
    <3>4. CASE run = u
      <4>1. reborn'[u] = reborn[u] \cup {x \in table'[u] \ table[u] : x.id \in batch}
        BY <1>1, <1>2, <3>4, <2>4
      <4>2. ~Past(u)
        BY <3>4 DEF Past, Tables
      <4> QED
        BY <1>1, <2>1, <2>2, <3>2, <3>4, <4>1, <4>2 DEF RowInv, TooOld, Past
    <3>5. CASE run # u
      <4>1. reborn'[u] = reborn[u]
        BY <1>1, <3>5, <2>4
      <4> QED
        BY <1>1, <2>1, <2>2, <3>2, <3>3, <3>5, <4>1 DEF RowInv, TooOld, Past
    <3> QED
      BY <3>4, <3>5
  <2> QED
    BY <2>3, <2>4
<1>4. run \notin Tables \cup {"commit"} => reborn' = reborn
  BY <1>1
<1> QED
  BY <1>1, <1>3, <1>4 DEF RowsInv

LEMMA DeletedRows ==
  ASSUME TypeOK, RowsInv, NEW t \in Tables, NEW xs \in SUBSET table[t], DeleteRows(t, xs)
  PROVE  RowsInv'
<1>1. /\ ~locked /\ UNCHANGED <<clock, run, now, days, batch, gone, locked>>
      /\ table' = [table EXCEPT ![t] = @ \ xs] /\ reborn' = [reborn EXCEPT ![t] = @ \ xs]
  BY DEF DeleteRows, untouched, transaction
<1>2. table \in [Tables -> SUBSET Rows] /\ reborn \in [Tables -> SUBSET Rows]
  BY DEF TypeOK
<1>3. ASSUME NEW u \in Tables PROVE RowInv(u)'
  <2>1. RowInv(u)
    BY DEF RowsInv
  <2>2. gone[u] = {}
    BY <1>1, <2>1 DEF RowInv
  <2>3. CASE u # t
    <3>1. table'[u] = table[u] /\ reborn'[u] = reborn[u]
      BY <1>1, <1>2, <2>3
    <3> QED
      BY <1>1, <2>1, <3>1 DEF RowInv, TooOld, Past
  <2>4. CASE u = t
    <3>1. table'[u] = table[u] \ xs /\ reborn'[u] = reborn[u] \ xs
      BY <1>1, <1>2, <2>4
    <3> QED
      BY <1>1, <2>1, <2>2, <3>1 DEF RowInv, TooOld, Past, UniqueIds
  <2> QED
    BY <2>3, <2>4
<1>4. reborn = None => reborn' = None
  BY <1>1 DEF None, Tables
<1> QED
  BY <1>1, <1>3, <1>4 DEF RowsInv

\* A batch holds ids of rows that are too old, and a cleanup leaves a table when
\* there are none left.
LEMMA SelectedRows ==
  ASSUME TypeOK, RowsInv, NEW t \in Tables, SelectBatch(t)
  PROVE  RowsInv'
<1>1. PICK xs \in SUBSET Prunable(t) :
        /\ Cardinality(xs) <= BatchSize
        /\ Cardinality(xs) = BatchSize \/ xs = Prunable(t)
        /\ batch' = {x.id : x \in xs}
        /\ run' = IF xs = {} THEN TableAfter(t) ELSE t
  BY DEF SelectBatch
<1>2. run = t /\ batch = {} /\ UNCHANGED <<clock, table, now, days, gone, locked, reborn>>
  BY DEF SelectBatch, outside
<1>3. Prunable(t) = {x \in table[t] \ gone[t] : TooOld(t, x)}
  BY DEF Prunable, Old, Visible, TooOld
<1>4. xs = {} => Prunable(t) = {}
  BY <1>1, FS_EmptySet, BoundAssumption
<1>5. ASSUME NEW u \in Tables PROVE RowInv(u)'
  <2>1. RowInv(u)
    BY DEF RowsInv
  <2>2. CASE u = t
    <3>1. ASSUME NEW x \in table[u], x.id \in batch' PROVE TooOld(u, x)
      <4>1. PICK y \in xs : x.id = y.id
        BY <1>1, <3>1
      <4>2. y \in table[u] /\ TooOld(u, y)
        BY <1>3, <2>2
      <4> QED
        BY <4>1, <4>2, <3>1, <2>1 DEF RowInv, UniqueIds
    <3>2. reborn[u] \subseteq gone[u]
      BY <1>2, <2>1, <2>2 DEF RowInv
    <3>3. CASE xs = {}
      <4>1. \A x \in table[u] \ gone[u] : ~TooOld(u, x)
        BY <1>3, <1>4, <2>2, <3>3
      <4>2. run' # u
        BY <1>1, <2>2, <3>3 DEF TableAfter, Tables
      <4> QED
        BY <1>2, <2>1, <3>2, <4>1, <4>2 DEF RowInv, TooOld
    <3>4. CASE xs # {}
      <4>1. run' = u /\ ~Past(u)'
        BY <1>1, <2>2, <3>4 DEF Past, Tables
      <4> QED
        BY <1>2, <2>1, <3>1, <3>2, <4>1 DEF RowInv, TooOld
    <3> QED
      BY <3>3, <3>4
  <2>3. CASE u # t
    <3>1. reborn[u] \subseteq gone[u]
      BY <1>2, <2>1, <2>3 DEF RowInv
    <3>2. CASE xs = {}
      <4>1. batch' = {}
        BY <1>1, <3>2
      <4>2. Past(u)' => Past(u)
        BY <1>1, <1>2, <2>3, <3>2 DEF Past, Tables, TableAfter
      <4> QED
        BY <1>2, <2>1, <3>1, <4>1, <4>2 DEF RowInv, TooOld
    <3>3. CASE xs # {}
      <4>1. run' = t /\ (Past(u)' <=> Past(u))
        BY <1>1, <1>2, <3>3 DEF Past
      <4> QED
        BY <1>2, <2>1, <2>3, <3>1, <4>1 DEF RowInv, TooOld
    <3> QED
      BY <3>2, <3>3
  <2> QED
    BY <2>2, <2>3
<1>6. run' \in Tables \cup {"commit"} /\ (run' \notin Tables => batch' = {})
  BY <1>1 DEF TableAfter, Tables
<1> QED
  BY <1>2, <1>5, <1>6 DEF RowsInv

LEMMA BatchDeleted ==
  ASSUME TypeOK, RowsInv, NEW t \in Tables, DeleteBatch(t)
  PROVE  RowsInv'
<1>1. /\ run = t /\ batch' = {} /\ locked' = TRUE
      /\ gone' = [gone EXCEPT ![t] = @ \cup {x \in Visible(t) : x.id \in batch}]
      /\ UNCHANGED <<clock, table, run, now, days, reborn>>
  BY DEF DeleteBatch, outside
<1>2. gone \in [Tables -> SUBSET Rows]
  BY DEF TypeOK
<1>3. ASSUME NEW u \in Tables PROVE RowInv(u)'
  <2>1. RowInv(u)
    BY DEF RowsInv
  <2>2. CASE u = t
    <3>1. gone'[u] = gone[u] \cup {x \in table[u] \ gone[u] : x.id \in batch}
      BY <1>1, <1>2, <2>2 DEF Visible
    <3>2. ~Past(u)
      BY <1>1, <2>2 DEF Past, Tables
    <3> QED
      BY <1>1, <2>1, <2>2, <3>1, <3>2 DEF RowInv, TooOld, Past
  <2>3. CASE u # t
    <3>1. gone'[u] = gone[u]
      BY <1>1, <1>2, <2>3
    <3> QED
      BY <1>1, <2>1, <2>3, <3>1 DEF RowInv, TooOld, Past
  <2> QED
    BY <2>2, <2>3
<1> QED
  BY <1>1, <1>3 DEF RowsInv

\* The commit takes what the cleanup has deleted, which is what it should.
LEMMA Committed ==
  ASSUME TypeOK, RowsInv, CommitCleanup
  PROVE  /\ table'["observations"] = Kept("observations")
         /\ table'["events"] = WithRow(Kept("events"), clock)
         /\ RowsInv'
<1>1. /\ run = "commit" /\ run' = "committed"
      /\ table' = [observations |-> Visible("observations"),
                   events |-> WithRow(Visible("events"), clock)]
      /\ batch' = {} /\ gone' = None /\ locked' = FALSE /\ reborn' = None
      /\ clock' = clock /\ now' = now
  BY DEF CommitCleanup, EndTransaction, outside
<1>2. ASSUME NEW t \in Tables
      PROVE  Visible(t) = Kept(t) /\ UniqueIds(Visible(t)) /\ Visible(t) \in SUBSET Rows
  <2>1. RowInv(t) /\ Past(t) /\ run # t
    BY <1>1 DEF RowsInv, Past, Tables
  <2>2. ASSUME NEW x \in table[t]
        PROVE  TooOld(t, x) <=> ~(days[t] = 0 \/ x.at >= now - days[t])
    <3>1. x.at \in Nat /\ now \in Nat /\ days[t] \in Nat
      BY DEF TypeOK, Rows
    <3> QED
      BY <3>1 DEF TooOld
  <2>3. Visible(t) = Kept(t)
    BY <2>1, <2>2 DEF RowInv, Visible, Kept
  <2> QED
    BY <2>1, <2>3 DEF RowInv, UniqueIds, Visible, TypeOK
<1>3. /\ table'["observations"] = Visible("observations")
      /\ table'["events"] = WithRow(Visible("events"), clock)
  BY <1>1
<1>4. UniqueIds(table'["observations"]) /\ UniqueIds(table'["events"])
  BY <1>2, <1>3, WithRowUnique DEF Tables
<1>5. ASSUME NEW t \in Tables PROVE RowInv(t)'
  <2>1. UniqueIds(table'[t]) /\ gone'[t] = {} /\ reborn'[t] = {} /\ ~Past(t)' /\ run' # t
    BY <1>1, <1>4 DEF Tables, None, Past
  <2> QED
    BY <2>1 DEF RowInv
<1>6. now <= clock
  BY DEF RowsInv
<1> QED
  BY <1>1, <1>2, <1>3, <1>5, <1>6 DEF RowsInv, Tables

\* Before a cleanup has looked up its first batch, and after its end.
LEMMA NothingDeleted ==
  ASSUME RowsInv, table' = table, batch' = {}, gone' = None, locked' = FALSE, reborn' = None,
         run' \notin {"events", "commit"}, now' <= clock'
  PROVE  RowsInv'
<1>1. ASSUME NEW t \in Tables PROVE RowInv(t)'
  <2>1. UniqueIds(table[t])
    BY DEF RowsInv, RowInv
  <2>2. gone'[t] = {} /\ reborn'[t] = {} /\ ~Past(t)'
    BY DEF None, Past
  <2> QED
    BY <2>1, <2>2 DEF RowInv
<1> QED
  BY <1>1 DEF RowsInv

LEMMA RowsNext ==
  ASSUME TypeOK, RunInv, RowsInv, [Next]_vars
  PROVE  RowsInv'
<1>1. now <= clock /\ now \in Nat /\ clock \in Nat
  BY DEF RowsInv, TypeOK
<1>2. ASSUME run \notin Tables \cup {"commit"}, UNCHANGED <<clock, table, transaction, reborn>>,
             run' \notin {"events", "commit"}, now' \in {0, now, clock}
      PROVE  RowsInv'
  <2>1. batch = {} /\ gone = None /\ reborn = None /\ locked = FALSE
    BY <1>2 DEF RowsInv, TypeOK
  <2>2. now' <= clock'
    BY <1>1, <1>2
  <2> QED
    BY <2>1, <2>2, <1>2, NothingDeleted DEF transaction
<1>3. ASSUME UNCHANGED <<table, cleanup>>, clock' \in {clock, clock + 1} PROVE RowsInv'
  <2>1. now' <= clock'
    BY <1>1, <1>3 DEF cleanup
  <2> QED
    BY <2>1, <1>3 DEF cleanup, transaction, RowsInv, RowInv, TooOld, Past
<1>4. CASE Start
  <2>1. run = "idle"
    BY <1>4 DEF Start, RunInv
  <2> QED
    BY <2>1, <1>2, <1>4 DEF Start, Begin, Tables
<1>5. CASE Crash \/ FailCleanup
  <2>1. now' <= clock' /\ UNCHANGED <<clock, table>> /\ EndTransaction /\ run' \in {"idle", "failed"}
    BY <1>1, <1>5 DEF Crash, FailCleanup, outside
  <2> QED
    BY <2>1, NothingDeleted DEF EndTransaction
<1>6. CASE Daily
  BY <1>2, <1>6 DEF Daily, Begin, outside, Tables
<1>7. CASE Resolve
  BY <1>2, <1>7 DEF Resolve, ResolveTable, outside, Tables
<1>8. CASE EndCleanup
  BY <1>2, <1>8 DEF EndCleanup, Tables
<1>9. ASSUME NEW t \in Tables, SelectBatch(t) \/ DeleteBatch(t) PROVE RowsInv'
  BY <1>9, SelectedRows, BatchDeleted
<1>10. CASE CommitCleanup
  BY <1>10, Committed
<1>11. CASE StartFails \/ Tick
  BY <1>3, <1>11 DEF StartFails, Tick, vars
<1>12. ASSUME NEW r \in Savers, SaveStep(r) PROVE RowsInv'
  <2>1. /\ UNCHANGED <<clock, untouched>>
        /\ UNCHANGED <<table, reborn>> \/ Insert("events")
    BY <1>12 DEF SaveStep, Submit, Load, Commit, CommitFails, Reschedule, Log, others
  <2>2. CASE UNCHANGED <<table, reborn>>
    BY <2>1, <2>2, <1>3 DEF cleanup, untouched
  <2>3. CASE Insert("events")
    BY <2>1, <2>3, InsertRows DEF Tables
  <2> QED
    BY <2>1, <2>2, <2>3
<1>13. ASSUME NEW t \in Tables, AddRow(t) PROVE RowsInv'
  BY <1>13, InsertRows DEF AddRow
<1>14. ASSUME NEW t \in Tables, NEW xs \in SUBSET table[t], DeleteRows(t, xs) PROVE RowsInv'
  BY <1>14, DeletedRows
<1>15. CASE UNCHANGED vars
  BY <1>3, <1>15 DEF vars
<1> QED
  BY <1>4, <1>5, <1>6, <1>7, <1>8, <1>9, <1>10, <1>11, <1>12, <1>13, <1>14, <1>15
     DEF Next, CleanupStep

-----------------------------------------------------------------------------
(* The way of a cleanup *)

\* Under the lock a batch holds what a row that is too old goes by.
BatchInv ==
  locked /\ batch # {} => run \in Tables /\ \A i \in batch : \E x \in Prunable(run) : x.id = i

LEMMA Positions ==
  /\ Position["observation_days"] = 1 /\ Position["event_days"] = 2
  /\ Position["observations"] = 3 /\ Position["events"] = 4 /\ Position["commit"] = 5
  /\ Position["committed"] = 6 /\ Position["failed"] = 7 /\ Position["idle"] = 8
BY DEF Position, RunPoints

LEMMA PrunableRows ==
  ASSUME RowsOK, NEW t \in Tables
  PROVE  /\ Prunable(t) \subseteq Visible(t) /\ Visible(t) \subseteq Rows
         /\ \A x \in Visible(t) : x \in Prunable(t) <=> TooOld(t, x)
BY DEF Prunable, Visible, Old, TooOld, RowsOK

\* Other transactions bring no row that is too old.
LEMMA OthersPrune ==
  ASSUME RowsOK, RowsInv, NEW t \in Tables, UNCHANGED untouched,
         \/ UNCHANGED table
         \/ UNCHANGED clock /\ \E u \in Tables : Insert(u)
         \/ \E u \in Tables : \E xs \in SUBSET table[u] : DeleteRows(u, xs)
  PROVE  /\ Prunable(t)' \subseteq Prunable(t)
         /\ locked => UNCHANGED table
<1>1. UNCHANGED <<run, now, days, batch, gone, locked>>
  BY DEF untouched, transaction
<1>2. /\ table \in [Tables -> SUBSET Rows] /\ clock \in Nat /\ now \in Nat /\ now <= clock
      /\ days \in [Tables -> Nat]
  BY DEF RowsOK, RowsInv
<1>3. CASE UNCHANGED table
  BY <1>1, <1>3 DEF Prunable, Visible
<1>4. ASSUME UNCHANGED clock, NEW u \in Tables, Insert(u)
      PROVE  Prunable(t)' \subseteq Prunable(t) /\ ~locked
  <2>1. ~locked /\ table' = [table EXCEPT ![u] = WithRow(@, clock)]
    BY <1>4 DEF Insert
  <2>2. /\ table[t] \in SUBSET Rows /\ UniqueIds(table[t])
    BY <1>2 DEF RowsInv, RowInv
  <2>3. \A x \in table'[t] : x \in table[t] \/ x.at = clock
    BY <2>1, <2>2, <1>2, WithRowUnique
  <2>4. ASSUME days[t] # 0, NEW x \in Visible(t)', x.at < now - days[t] PROVE x \in Visible(t)
    <3>1. x \in table[t]
      BY <2>3, <2>4, <1>2, <1>1 DEF Visible
    <3> QED
      BY <3>1, <2>4, <1>1 DEF Visible
  <2> QED
    BY <2>1, <2>4, <1>1 DEF Prunable, Old
<1>5. ASSUME NEW u \in Tables, NEW xs \in SUBSET table[u], DeleteRows(u, xs)
      PROVE  Prunable(t)' \subseteq Prunable(t) /\ ~locked
  <2>1. ~locked /\ table'[t] \subseteq table[t]
    BY <1>5, <1>2 DEF DeleteRows
  <2> QED
    BY <2>1, <1>1 DEF Prunable, Visible, Old
<1> QED
  BY <1>3, <1>4, <1>5

LEMMA SelectAdvances ==
  ASSUME RowsOK, NEW t \in Tables, SelectBatch(t)
  PROVE  /\ run = t /\ batch = {} /\ (run' = t \/ run' = TableAfter(t))
         /\ Prunable(t)' = Prunable(t) /\ locked' = locked /\ BatchInv'
<1>1. PICK xs \in SUBSET Prunable(t) :
        batch' = {x.id : x \in xs} /\ run' = IF xs = {} THEN TableAfter(t) ELSE t
  BY DEF SelectBatch
<1>2. run = t /\ batch = {} /\ UNCHANGED <<table, now, days, gone, locked>>
  BY DEF SelectBatch, outside
<1>3. Prunable(t)' = Prunable(t)
  BY <1>2 DEF Prunable, Visible
<1>4. ASSUME batch' # {} PROVE run' = t /\ \A i \in batch' : \E x \in Prunable(t) : x.id = i
  BY <1>1, <1>4
<1> QED
  BY <1>1, <1>2, <1>3, <1>4 DEF BatchInv

LEMMA DeleteAdvances ==
  ASSUME RowsOK, BatchInv, NEW t \in Tables, DeleteBatch(t)
  PROVE  /\ run = t /\ run' = t /\ batch # {} /\ batch' = {} /\ locked'
         /\ Prunable(t)' \subseteq Prunable(t)
         /\ locked => Prunable(t)' # Prunable(t)
<1>1. /\ run = t /\ batch # {} /\ batch' = {} /\ locked' = TRUE
      /\ gone' = [gone EXCEPT ![t] = @ \cup {x \in Visible(t) : x.id \in batch}]
      /\ UNCHANGED <<table, run, now, days>>
  BY DEF DeleteBatch, outside
<1>2. Visible(t)' = Visible(t) \ {x \in Visible(t) : x.id \in batch}
  BY <1>1 DEF Visible, RowsOK
<1>3. Prunable(t)' \subseteq Prunable(t)
  BY <1>1, <1>2 DEF Prunable, Old
<1>4. ASSUME locked PROVE Prunable(t)' # Prunable(t)
  <2>1. PICK i \in batch : TRUE
    BY <1>1
  <2>2. PICK x \in Prunable(t) : x.id = i
    BY <1>1, <1>4, <2>1 DEF BatchInv
  <2>3. x \in Visible(t) /\ Prunable(t)' \subseteq Visible(t)'
    BY <2>2, <1>1 DEF Prunable, Old
  <2> QED
    BY <1>2, <2>1, <2>2, <2>3
<1> QED
  BY <1>1, <1>3, <1>4

\* Whatever only other transactions do.
LEMMA OthersAdvance ==
  ASSUME RowsOK, RowsInv, BatchInv, UNCHANGED untouched,
         \/ UNCHANGED table
         \/ UNCHANGED clock /\ \E u \in Tables : Insert(u)
         \/ \E u \in Tables : \E xs \in SUBSET table[u] : DeleteRows(u, xs)
  PROVE  Advances /\ BatchInv'
<1>1. UNCHANGED <<run, now, days, batch, gone, locked>>
  BY DEF untouched, transaction
<1>2. \A t \in Tables : Prunable(t)' \subseteq Prunable(t) /\ (locked => UNCHANGED table)
  BY OthersPrune
<1>3. Advances
  BY <1>1, <1>2 DEF Advances
<1>4. locked => \A t \in Tables : Prunable(t)' = Prunable(t)
  BY <1>1, <1>2 DEF Prunable, Visible, Tables
<1> QED
  BY <1>1, <1>3, <1>4 DEF BatchInv

LEMMA AdvanceNext ==
  ASSUME TypeOK, FormInv, RunInv, RowsInv, BatchInv, [Next]_vars
  PROVE  Advances /\ BatchInv'
<1>1. RowsOK
  BY Halves
<1>2. ASSUME run = "idle", UNCHANGED batch PROVE Advances /\ BatchInv'
  <2>1. batch = {} /\ run \notin Tables
    BY <1>2 DEF RowsInv, Tables
  <2> QED
    BY <1>2, <2>1 DEF Advances, BatchInv
<1>3. ASSUME run # "idle", run' # run, Position[run'] > Position[run], batch' = {}
      PROVE  Advances /\ BatchInv'
  BY <1>3 DEF Advances, BatchInv
<1>4. CASE Start \/ Daily
  BY <1>2, <1>4 DEF Start, Daily, RunInv, transaction
<1>5. CASE Crash
  <2>1. run' = "idle" /\ batch' = {}
    BY <1>5 DEF Crash, EndTransaction
  <2>2. run # "idle" => Position[run'] > Position[run]
    BY <2>1, <1>1, Positions DEF RowsOK, RunPoints
  <2> QED
    BY <2>1, <2>2 DEF Advances, BatchInv, Tables
<1>6. CASE Resolve
  <2>1. batch' = batch /\ run \notin Tables /\ batch = {}
    BY <1>6 DEF Resolve, ResolveTable, transaction, RowsInv, Tables
  <2>2. Position[run'] > Position[run] /\ run' # run
    BY <1>6, Positions DEF Resolve, ResolveTable
  <2> QED
    BY <2>1, <2>2 DEF Advances, BatchInv
<1>7. ASSUME NEW t \in Tables, SelectBatch(t) PROVE Advances /\ BatchInv'
  <2>1. /\ run = t /\ batch = {} /\ (run' = t \/ run' = TableAfter(t))
        /\ Prunable(t)' = Prunable(t) /\ locked' = locked /\ BatchInv'
    BY <1>7, <1>1, SelectAdvances
  <2>2. run' # run => Position[run'] > Position[run]
    BY <2>1, Positions DEF TableAfter, Tables
  <2> QED
    BY <2>1, <2>2 DEF Advances
<1>8. ASSUME NEW t \in Tables, DeleteBatch(t) PROVE Advances /\ BatchInv'
  BY <1>8, <1>1, DeleteAdvances DEF Advances, BatchInv
<1>9. CASE CommitCleanup \/ FailCleanup \/ EndCleanup
  <2>1. batch' = {}
    BY <1>9 DEF CommitCleanup, FailCleanup, EndCleanup, EndTransaction, transaction, RowsInv,
                Tables
  <2>2. Position[run'] > Position[run] /\ run' # run
    BY <1>1, <1>9, Positions DEF CommitCleanup, FailCleanup, EndCleanup, RowsOK, RunPoints
  <2> QED
    BY <2>1, <2>2 DEF Advances, BatchInv
<1>10. CASE StartFails \/ Tick \/ UNCHANGED vars
  BY <1>1, <1>10, OthersAdvance DEF StartFails, Tick, vars, cleanup, untouched
<1>11. ASSUME NEW r \in Savers, SaveStep(r) PROVE Advances /\ BatchInv'
  <2>1. /\ UNCHANGED <<clock, untouched>>
        /\ UNCHANGED table \/ Insert("events")
    BY <1>11 DEF SaveStep, Submit, Load, Commit, CommitFails, Reschedule, Log, others
  <2> QED
    BY <2>1, <1>1, OthersAdvance DEF Tables
<1>12. ASSUME NEW t \in Tables, AddRow(t) PROVE Advances /\ BatchInv'
  BY <1>1, <1>12, OthersAdvance DEF AddRow
<1>13. ASSUME NEW t \in Tables, NEW xs \in SUBSET table[t], DeleteRows(t, xs)
       PROVE  Advances /\ BatchInv'
  <2>1. UNCHANGED untouched
    BY <1>13 DEF DeleteRows
  <2> QED
    BY <2>1, <1>1, <1>13, OthersAdvance
<1> QED
  BY <1>4, <1>5, <1>6, <1>7, <1>8, <1>9, <1>10, <1>11, <1>12, <1>13 DEF Next, CleanupStep

-----------------------------------------------------------------------------
(* The theorems *)

ScheduleInv == TypeOK /\ FormInv /\ RunInv /\ AloneInv /\ JobInv /\ RowsInv

LEMMA ScheduleInit == Init => ScheduleInv
<1> SUFFICES ASSUME Init PROVE ScheduleInv
  OBVIOUS
<1>1. /\ clock \in Nat
      /\ table \in [Tables -> {s \in SUBSET [id: Ids, at: 0..clock] :
                                 \A a, b \in s : a.id = b.id => a = b}]
  BY BoundAssumption DEF Init
<1>2. \A t \in Tables : table[t] \in SUBSET Rows /\ UniqueIds(table[t])
  BY <1>1 DEF UniqueIds, Rows
<1>3. table \in [Tables -> SUBSET Rows]
  BY <1>1, <1>2
<1>4. Unset \in Settings
  BY DEF Unset, Settings
<1>5. TypeOK
  BY <1>1, <1>3, <1>4 DEF Init, TypeOK, SavePoints, RunPoints, NoDays, None
<1>6. FormInv /\ RunInv /\ AloneInv /\ JobInv
  BY DEF Init, FormInv, RunInv, AloneInv, JobInv
<1>7. \A t \in Tables : RowInv(t)
  BY <1>2 DEF Init, RowInv, None, Past, Tables
<1>8. RowsInv
  BY <1>1, <1>7 DEF Init, RowsInv
<1> QED
  BY <1>5, <1>6, <1>8 DEF ScheduleInv

LEMMA ScheduleStep == ScheduleInv /\ [Next]_vars => ScheduleInv'
BY TypeNext, RunNext, JobNext, RowsNext DEF ScheduleInv

\* Settings, job, saves and rows keep to their columns: no save stores a value
\* the page would not accept, and no job gets an interval no date can express.
THEOREM ScheduleTypes == Spec => []TypeOK
<1>1. ScheduleInv => TypeOK
  BY DEF ScheduleInv
<1> QED
  BY <1>1, ScheduleInit, ScheduleStep, PTL DEF Spec

\* save_scan_interval and reschedule_scan_job: the job runs at the stored
\* interval, whichever saves failed, crashed or came before.
THEOREM JobIsRight == Spec => []JobFollowsSetting
<1>1. ScheduleInv => JobFollowsSetting
  BY DEF ScheduleInv, JobInv, JobFollowsSetting
<1> QED
  BY <1>1, ScheduleInit, ScheduleStep, PTL DEF Spec

\* run_retention: all batches together delete what is too old, and of the rows
\* that came meanwhile only those under an id of a batch.
THEOREM CleanupIsExact == Spec => RetentionExact
<1>1. ScheduleInv /\ [Next]_vars
        => (run = "commit" /\ run' = "committed" =>
              /\ table'["observations"] = Kept("observations")
              /\ table'["events"] = WithRow(Kept("events"), clock))
  <2> SUFFICES ASSUME ScheduleInv, [Next]_vars, run = "commit", run' = "committed"
               PROVE  /\ table'["observations"] = Kept("observations")
                      /\ table'["events"] = WithRow(Kept("events"), clock)
    OBVIOUS
  <2>1. CommitCleanup
    BY DEF Next, Start, StartFails, Crash, Tick, Daily, Begin, CleanupStep, Resolve, ResolveTable,
           SelectBatch, DeleteBatch, TableAfter, FailCleanup, EndCleanup, SaveStep, Submit, Load,
           Commit, CommitFails, Reschedule, Log, others, AddRow, DeleteRows, untouched, cleanup,
           vars, Tables, ScheduleInv, RunInv
  <2> QED
    BY <2>1, Committed DEF ScheduleInv
<1> QED
  BY <1>1, ScheduleInit, ScheduleStep, PTL DEF Spec, RetentionExact

\* run_retention: a cleanup only goes forward, with less to prune after every
\* DELETE but the first; what is left of RetentionEnds is that its steps are taken.
THEOREM CleanupGoesOn == Spec => CleanupAdvances
<1>1. Init => BatchInv
  BY DEF Init, BatchInv
<1>2. ScheduleInv /\ BatchInv /\ [Next]_vars => Advances /\ BatchInv'
  BY AdvanceNext DEF ScheduleInv
<1> QED
  BY <1>1, <1>2, ScheduleInit, ScheduleStep, PTL DEF Spec, CleanupAdvances

=============================================================================
