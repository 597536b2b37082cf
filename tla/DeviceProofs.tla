----------------------------- MODULE DeviceProofs -----------------------------
(***************************************************************************)
(* Safety of DeviceActions for any number of requests, devices and files,  *)
(* and the refinement: DeviceActions implements DeviceTable.               *)
(*                                                                         *)
(* DeviceInv adds to the types that a request that was started has a form  *)
(* (FormInv), that an id without a row has the status and the audit of a   *)
(* row to come (FreeInv), and where a request stands with its command      *)
(* (CommandInv): the three facts the steps of a commit rest on.  AgreeInv  *)
(* says what holds of row and controller in the middle of a command, with  *)
(* MACs that are unique (UniqueInv) and what its request saw (SeenInv).    *)
(***************************************************************************)
EXTENDS DeviceActions, TLAPS, FiniteSetTheorems, SequenceTheorems, WellFoundedInduction

FormInv == \A r \in Requests : pc[r] # "idle" => form[r] \in Forms

FreeInv == \A i \in Ids \ Live : status[i] = "unknown" /\ told[i] = "unknown"

CommandInv ==
  \A r \in Requests :
    /\ sent[r] \in {0, 1}
    /\ pc[r] \notin {"write", "done"} => sent[r] = 0
    /\ At(r, "write") /\ Op(r) \in Commands /\ ~dry => sent[r] = 1
    /\ result[r] # "none" => At(r, "done")
    /\ At(r, "done") /\ result[r] \in Saved /\ Op(r) \in Commands /\ ~dry => sent[r] = 1

-----------------------------------------------------------------------------
(* Forms and files *)

LEMMA FormFields ==
  ASSUME NEW f \in Forms
  PROVE  /\ f.ids \subseteq Ids /\ f.name \in Names \cup {NoName} /\ f.lines \in Seq(Lines)
         /\ f.op \in Commands => \E i \in Ids : f.ids = {i}
<1>1. <<>> \in Seq(Lines)
  OBVIOUS
<1> QED
  BY <1>1, FileAssumption DEF Forms, Single, Commands

LEMMA Targets ==
  /\ \A o \in DOMAIN Target : Target[o] \in Statuses
  /\ "import" \in DOMAIN Target /\ Target["import"] = "trusted"
  /\ Commands \subseteq DOMAIN Target
  /\ "delete" \notin DOMAIN Target /\ "rename" \notin DOMAIN Target
BY DEF Target, Statuses, Commands

LEMMA Smallest ==
  ASSUME NEW S \in SUBSET Nat, S # {} PROVE \E n \in S : \A m \in S : n <= m
<1>1. PICK n \in S : \A m \in S : <<m, n>> \notin OpToRel(<, Nat)
  BY NatLessThanWellFounded, WFMin
<1>2. \A m \in S : ~(m < n)
  BY <1>1 DEF OpToRel
<1> QED
  BY <1>2

LEMMA FileTypes ==
  ASSUME NEW lines \in Seq(Lines), NEW m
  PROVE  MacsIn(lines) \subseteq Macs /\ NoteFor(lines, m) \in Names \cup {NoName}
<1>1. \A k \in DOMAIN lines : lines[k] \in Lines /\ k \in Nat
  OBVIOUS
<1>2. MacsIn(lines) \subseteq Macs
  BY <1>1 DEF MacsIn, Lines
<1> DEFINE noted == {k \in DOMAIN lines : lines[k].mac = m /\ lines[k].note # NoName}
<1>3. CASE noted = {}
  BY <1>2, <1>3 DEF NoteFor
<1>4. CASE noted # {}
  <2>1. \E k \in noted : \A j \in noted : k <= j
    <3>1. noted \in SUBSET Nat
      BY <1>1
    <3> QED
      BY <3>1, <1>4, Smallest
  <2>2. NoteFor(lines, m) = lines[CHOOSE k \in noted : \A j \in noted : k <= j].note
    BY <1>4 DEF NoteFor
  <2>3. PICK k \in noted : NoteFor(lines, m) = lines[k].note
    <3> HIDE DEF noted
    <3> QED
      BY <2>1, <2>2
  <2> QED
    BY <1>1, <1>2, <2>3 DEF Lines
<1> QED
  BY <1>3, <1>4

\* Of two MACs of a file one comes first.
LEMMA OneComesFirst ==
  ASSUME NEW lines \in Seq(Lines), NEW m \in MacsIn(lines), NEW n \in MacsIn(lines), m # n
  PROVE  ComesBefore(lines, m, n) \/ ComesBefore(lines, n, m)
<1> DEFINE S == {k \in DOMAIN lines : lines[k].mac \in {m, n}}
<1>1. S \in SUBSET Nat /\ S # {}
  BY DEF MacsIn
<1>2. PICK k \in S : \A j \in S : k <= j
  <2> HIDE DEF S
  <2> QED
    BY <1>1, Smallest
<1>3. \A j \in 1..k : j # k => lines[j].mac \notin {m, n}
  <2> SUFFICES ASSUME NEW j \in 1..k, j # k, lines[j].mac \in {m, n} PROVE FALSE
    OBVIOUS
  <2>1. j \in S /\ j < k
    OBVIOUS
  <2> QED
    BY <2>1, <1>2
<1>4. lines[k].mac = m \/ lines[k].mac = n
  OBVIOUS
<1> QED
  BY <1>3, <1>4 DEF ComesBefore

-----------------------------------------------------------------------------
(* The requests *)

\* A step of a request leaves the others alone.
Only(r) ==
  \A q \in Requests : q # r =>
    /\ pc'[q] = pc[q] /\ result'[q] = result[q] /\ seen'[q] = seen[q]
    /\ form'[q] = form[q] /\ todo'[q] = todo[q] /\ sent'[q] = sent[q]

Elsewhere == UNCHANGED <<pc, form, todo, seen, result, sent, dry>>

LEMMA OneRequest ==
  ASSUME TypeOK, NEW r \in Requests, Serve(r) \/ \E f \in Forms : Start(r, f)
  PROVE  Only(r) /\ dry' = dry
<1>1. ASSUME NEW f \in Forms, Start(r, f) PROVE Only(r) /\ dry' = dry
  BY <1>1 DEF Start, Answer, Continue, Goto, Only, TypeOK
<1>2. ASSUME NEW i \in Ids, LoadRow(r, i) PROVE Only(r) /\ dry' = dry
  BY <1>2 DEF LoadRow, Answer, Goto, Only, TypeOK
<1>3. CASE LoadFile(r)
  BY <1>3 DEF LoadFile, Goto, Only, TypeOK
<1>4. CASE Command(r) \/ LogIn(r) \/ LogInFails(r)
  BY <1>4 DEF Command, LogIn, LogInFails, commanding, Continue, Answer, Goto, Only, TypeOK
<1>5. CASE Execute(r) \/ PostFails(r) \/ Unauthorized(r)
  BY <1>5 DEF Execute, PostFails, Unauthorized, commanding, Continue, Answer, Goto, Only, TypeOK
<1>6. CASE Save(r)
  <2>1. (Answer(r, "ok") \/ Answer(r, "unread")) /\ UNCHANGED <<unifi, dry, form, todo, sent>>
    BY <1>6 DEF Save
  <2> QED
    BY <2>1 DEF Answer, Goto, Only, TypeOK
<1>7. CASE SaveFails(r) \/ DeleteDevice(r)
  BY <1>7 DEF SaveFails, DeleteDevice, Answer, Goto, Only, TypeOK
<1> QED
  BY <1>1, <1>2, <1>3, <1>4, <1>5, <1>6, <1>7 DEF Serve

\* What the steps do to the record of their request.
LEMMA OneForm ==
  ASSUME TypeOK, FormInv, [Next]_vars
  PROVE  FormInv' /\ form' \in [Requests -> Forms \cup {NoForm}]
<1>1. ASSUME NEW r \in Requests, NEW f \in Forms, Start(r, f)
      PROVE  FormInv' /\ form' \in [Requests -> Forms \cup {NoForm}]
  <2>1. form' = [form EXCEPT ![r] = f] /\ Only(r)
    BY <1>1, OneRequest DEF Start
  <2> QED
    BY <2>1 DEF Only, FormInv, TypeOK
<1>2. ASSUME NEW r \in Requests, Serve(r)
      PROVE  FormInv' /\ form' \in [Requests -> Forms \cup {NoForm}]
  <2>1. form' = form /\ pc[r] # "idle"
    BY <1>2 DEF Serve, LoadRow, LoadFile, Command, LogIn, LogInFails, Execute, PostFails,
                Unauthorized, Save, SaveFails, DeleteDevice, At, commanding
  <2>2. Only(r)
    BY <1>2, OneRequest
  <2> QED
    BY <2>1, <2>2 DEF Only, FormInv, TypeOK
<1>3. CASE Elsewhere
  BY <1>3 DEF Elsewhere, FormInv, TypeOK
<1> QED
  BY <1>1, <1>2, <1>3 DEF Next, Elsewhere, ScanInserts, ScanLogsIn, SessionEnds, vars

-----------------------------------------------------------------------------
(* Types *)

\* The fields of a loaded row.
LEMMA SeenFields ==
  ASSUME TypeOK, NEW r \in Requests, NEW i \in SeenIds(r)
  PROVE  /\ i \in Ids /\ seen[r][i] \in Rows
         /\ seen[r][i].mac \in Macs /\ seen[r][i].status \in Statuses
         /\ seen[r][i].name \in Names \cup {NoName}
BY DEF TypeOK, SeenIds, Rows

LEMMA RowAtType ==
  ASSUME TypeOK, NEW i \in Live PROVE RowAt(i) \in Rows /\ RowAt(i).mac = macOf[i]
BY DEF TypeOK, Live, RowAt, Rows

LEMMA NewColumns ==
  ASSUME TypeOK, FormInv, NEW r \in Requests, pc[r] # "idle", NEW i \in SeenIds(r)
  PROVE  NewStatus(r, i) \in Statuses /\ NewName(r, i) \in Names \cup {NoName}
<1>1. form[r].name \in Names \cup {NoName} /\ form[r].lines \in Seq(Lines)
  BY FormFields DEF FormInv
<1>2. NoteFor(form[r].lines, seen[r][i].mac) \in Names \cup {NoName}
  BY <1>1, FileTypes
<1> QED
  BY <1>1, <1>2, SeenFields, Targets DEF NewStatus, NewName

LEMMA SaveTypes ==
  ASSUME TypeOK, FormInv, NEW r \in Requests, Save(r)
  PROVE  /\ macOf' \in [Ids -> Macs \cup {NoMac}] /\ status' \in [Ids -> Statuses]
         /\ name' \in [Ids -> Names \cup {NoName}] /\ told' \in [Ids -> Statuses]
         /\ blind' \subseteq Ids /\ apart' \subseteq Macs
<1>1. PICK row \in [NewMacs(r) -> Ids] :
        LET lines == form[r].lines
            IsNew(i) == \E m \in NewMacs(r) : row[m] = i
            MacAt(i) == CHOOSE m \in NewMacs(r) : row[m] = i
        IN
        /\ macOf' = [i \in Ids |-> IF IsNew(i) THEN MacAt(i) ELSE macOf[i]]
        /\ status' = [i \in Ids |-> IF IsNew(i) THEN "trusted" ELSE StatusAfter(r, i)]
        /\ name' = [i \in Ids |-> IF IsNew(i) THEN NoteFor(lines, MacAt(i)) ELSE NameAfter(r, i)]
        /\ told' = [i \in Ids |-> IF IsNew(i) THEN "trusted"
                                  ELSE IF i \in Logged(r) THEN Told(r, i) ELSE told[i]]
        /\ blind' = blind \cup Blinds(r)
        /\ apart' = apart \cup Parted(r)
  BY DEF Save
<1> DEFINE IsNew(i) == \E m \in NewMacs(r) : row[m] = i
           MacAt(i) == CHOOSE m \in NewMacs(r) : row[m] = i
<1>2. pc[r] # "idle" /\ form[r].lines \in Seq(Lines)
  BY FormFields DEF Save, At, FormInv
<1>3. NewMacs(r) \subseteq Macs
  BY <1>2, FileTypes DEF NewMacs
<1>4. \A i \in Ids : IsNew(i) => MacAt(i) \in Macs
  BY <1>3
<1>5. \A m : NoteFor(form[r].lines, m) \in Names \cup {NoName}
  BY <1>2, FileTypes
<1>6. \A i \in SeenIds(r) : NewStatus(r, i) \in Statuses /\ NewName(r, i) \in Names \cup {NoName}
  BY <1>2, NewColumns
<1>7. Updated(r) \subseteq SeenIds(r) /\ Logged(r) \subseteq SeenIds(r)
  BY DEF Updated, Logged
<1>8. \A i \in Ids : StatusAfter(r, i) \in Statuses /\ NameAfter(r, i) \in Names \cup {NoName}
  BY <1>6, <1>7 DEF StatusAfter, NameAfter, Changed, TypeOK
<1>9. \A i \in Logged(r) : Told(r, i) \in Statuses
  <2>1. \A i \in SeenIds(r) : i \in Ids
    BY DEF SeenIds
  <2> QED
    BY <2>1, <1>6, <1>7 DEF Told, Changed, TypeOK
<1>10. Blinds(r) \subseteq Ids
  BY <1>7 DEF Blinds, SeenIds
<1>11. Parted(r) \subseteq Macs
  <2>1. \A i \in Live : macOf[i] \in Macs
    BY DEF Live, TypeOK
  <2> QED
    BY <2>1, <1>7, SeenFields DEF Parted
<1>12. "trusted" \in Statuses
  BY DEF Statuses
<1>13. macOf' \in [Ids -> Macs \cup {NoMac}]
  BY <1>1, <1>4 DEF TypeOK
<1>14. status' \in [Ids -> Statuses]
  BY <1>1, <1>8, <1>12
<1>15. name' \in [Ids -> Names \cup {NoName}]
  BY <1>1, <1>5, <1>8
<1>16. told' \in [Ids -> Statuses]
  BY <1>1, <1>9, <1>12 DEF TypeOK
<1> QED
  BY <1>1, <1>10, <1>11, <1>13, <1>14, <1>15, <1>16 DEF TypeOK

LEMMA AnswerTypes ==
  ASSUME TypeOK, NEW r \in Requests, NEW a \in Results, Answer(r, a)
  PROVE  /\ pc' \in [Requests -> Points] /\ result' \in [Requests -> Results]
         /\ seen' \in [Requests -> [Ids -> Rows \cup {NoRow}]]
BY DEF TypeOK, Answer, Goto, Points, NoRows

LEMMA ContinueTypes ==
  ASSUME TypeOK, NEW r \in Requests, NEW p \in Points, Continue(r, p)
  PROVE  /\ pc' \in [Requests -> Points] /\ result' \in [Requests -> Results]
         /\ seen' \in [Requests -> [Ids -> Rows \cup {NoRow}]]
BY DEF TypeOK, Continue, Goto

LEMMA TypeNext == TypeOK /\ FormInv /\ FreeInv /\ [Next]_vars => TypeOK'
<1> SUFFICES ASSUME TypeOK, FormInv, FreeInv, [Next]_vars PROVE TypeOK'
  OBVIOUS
<1>1. form' \in [Requests -> Forms \cup {NoForm}]
  BY OneForm
<1> DEFINE Served == /\ pc' \in [Requests -> Points] /\ result' \in [Requests -> Results]
                     /\ seen' \in [Requests -> [Ids -> Rows \cup {NoRow}]]
           Outside == /\ UNCHANGED <<rows, dry, audit>>
                      /\ blocked' \subseteq Macs /\ session' \in BOOLEAN /\ loggedIn' \in BOOLEAN
                      /\ apart' \subseteq Macs
           Kept == todo' \in [Requests -> SUBSET Ids] /\ sent' \in [Requests -> Nat]
<1>2. ASSUME Served, Outside, Kept PROVE TypeOK'
  BY <1>1, <1>2 DEF TypeOK, rows, audit
<1>3. /\ \A a \in Results : \A r \in Requests : Answer(r, a) => Served
      /\ \A p \in Points : \A r \in Requests : Continue(r, p) => Served
  BY AnswerTypes, ContinueTypes
<1>4. /\ {"ok", "unread", "not_found", "refused", "controller", "failed"} \subseteq Results
      /\ {"load", "command", "login", "post", "relogin", "repost", "write"} \subseteq Points
  BY DEF Results, Points
<1>5. ASSUME NEW r \in Requests, NEW f \in Forms, Start(r, f) PROVE TypeOK'
  <2>1. Served
    BY <1>3, <1>4, <1>5 DEF Start
  <2>2. f.ids \subseteq Ids
    BY FormFields
  <2>3. Outside /\ Kept
    BY <2>2, <1>5 DEF Start, TypeOK, unifi
  <2> QED
    BY <1>2, <2>1, <2>3
<1>6. ASSUME NEW r \in Requests, NEW i \in Ids, LoadRow(r, i) PROVE TypeOK'
  <2>1. Served
    <3>1. CASE Answer(r, "not_found")
      BY <3>1, <1>3, <1>4
    <3>2. CASE ~Answer(r, "not_found")
      <4>1. /\ Goto(r, IF Op(r) \in Commands THEN "command"
                       ELSE IF todo[r] = {i} THEN "write" ELSE "load")
            /\ seen' = IF i \in Live THEN [seen EXCEPT ![r][i] = RowAt(i)] ELSE seen
            /\ UNCHANGED result
        BY <3>2, <1>6 DEF LoadRow
      <4> QED
        BY <4>1, RowAtType DEF TypeOK, Goto, Points
    <3> QED
      BY <3>1, <3>2
  <2>2. apart' \subseteq Macs
    BY <1>6 DEF LoadRow, TypeOK, Live
  <2>3. Outside /\ Kept
    BY <2>2, <1>6 DEF LoadRow, TypeOK, unifi
  <2> QED
    BY <1>2, <2>1, <2>3
<1>7. ASSUME NEW r \in Requests, LoadFile(r) PROVE TypeOK'
  <2>1. ASSUME NEW i \in Ids, macOf[i] \in MacsIn(form[r].lines) PROVE RowAt(i) \in Rows
    <3>1. i \in Live
      BY <2>1 DEF MacsIn, Live
    <3> QED
      BY <3>1, RowAtType
  <2>2. Served
    BY <2>1, <1>7 DEF LoadFile, Goto, TypeOK, Points
  <2>3. Outside /\ Kept
    BY <1>7 DEF LoadFile, TypeOK, unifi
  <2> QED
    BY <1>2, <2>2, <2>3
<1>8. ASSUME NEW r \in Requests, Command(r) \/ LogIn(r) \/ LogInFails(r) PROVE TypeOK'
  <2>1. Served
    BY <1>3, <1>4, <1>8 DEF Command, LogIn, LogInFails
  <2>2. Outside /\ Kept
    BY <1>8 DEF Command, LogIn, LogInFails, commanding, TypeOK, unifi
  <2> QED
    BY <1>2, <2>1, <2>2
<1>9. ASSUME NEW r \in Requests, Execute(r) PROVE TypeOK'
  <2>1. Served
    BY <1>3, <1>4, <1>9 DEF Execute
  <2>2. Outside
    BY <1>9, SeenFields DEF Execute, commanding, TypeOK
  <2>3. Kept
    BY <1>9 DEF Execute, commanding, TypeOK
  <2> QED
    BY <1>2, <2>1, <2>2, <2>3
<1>10. ASSUME NEW r \in Requests, PostFails(r) \/ Unauthorized(r) PROVE TypeOK'
  <2>1. Served
    BY <1>3, <1>4, <1>10 DEF PostFails, Unauthorized
  <2>2. Outside /\ Kept
    BY <1>10 DEF PostFails, Unauthorized, commanding, TypeOK, unifi
  <2> QED
    BY <1>2, <2>1, <2>2
<1>11. ASSUME NEW r \in Requests, Save(r) PROVE TypeOK'
  <2>1. Served
    <3>1. Answer(r, "ok") \/ Answer(r, "unread")
      BY <1>11 DEF Save
    <3> QED
      BY <3>1, <1>3, <1>4
  <2>2. UNCHANGED <<unifi, dry, form, todo, sent>>
    BY <1>11 DEF Save
  <2> QED
    BY <1>1, <2>1, <2>2, <1>11, SaveTypes DEF TypeOK, unifi
<1>12. ASSUME NEW r \in Requests, SaveFails(r) PROVE TypeOK'
  <2>1. Served
    BY <1>3, <1>4, <1>12 DEF SaveFails
  <2>2. Outside /\ Kept
    BY <1>12, SeenFields DEF SaveFails, TypeOK, unifi
  <2> QED
    BY <1>2, <2>1, <2>2
<1>13. ASSUME NEW r \in Requests, DeleteDevice(r) PROVE TypeOK'
  <2>1. Served
    BY <1>3, <1>4, <1>13 DEF DeleteDevice
  <2>2. PICK i \in SeenIds(r) :
          /\ macOf' = [macOf EXCEPT ![i] = NoMac]
          /\ status' = [status EXCEPT ![i] = "unknown"]
          /\ name' = [name EXCEPT ![i] = NoName]
          /\ told' = [told EXCEPT ![i] = "unknown"]
          /\ blind' = blind \ {i}
          /\ apart' = IF status[i] = "blocked" THEN apart \cup {macOf[i]} ELSE apart
    BY <1>13 DEF DeleteDevice
  <2>3. apart' \subseteq Macs
    <3>1. i \in Ids /\ apart \subseteq Macs
      BY DEF SeenIds, TypeOK
    <3>2. CASE i \in Live
      BY <2>2, <3>1, <3>2 DEF Live, TypeOK
    <3>3. CASE i \notin Live
      <4>1. status[i] # "blocked"
        BY <3>1, <3>3 DEF FreeInv
      <4> QED
        BY <2>2, <4>1, <3>1
    <3> QED
      BY <3>2, <3>3
  <2>4. UNCHANGED <<unifi, dry, form, todo, sent>>
    BY <1>13 DEF DeleteDevice
  <2> QED
    BY <1>1, <2>1, <2>2, <2>3, <2>4 DEF TypeOK, unifi, Statuses
<1>14. CASE (\E m \in Macs : ScanInserts(m)) \/ ScanLogsIn \/ SessionEnds
  BY <1>14 DEF ScanInserts, ScanLogsIn, SessionEnds, TypeOK, unifi, rows, audit
<1>15. CASE UNCHANGED vars
  BY <1>15 DEF TypeOK, vars, rows, unifi, audit
<1> QED
  BY <1>5, <1>6, <1>7, <1>8, <1>9, <1>10, <1>11, <1>12, <1>13, <1>14, <1>15 DEF Next, Serve

-----------------------------------------------------------------------------
(* The commit *)

\* The rows after the commit of a request, the new ones being at row.
Stored(r, row) ==
  /\ row \in [NewMacs(r) -> Ids]
  /\ \A m \in NewMacs(r) : row[m] \notin Live
  /\ \A m, n \in NewMacs(r) : row[m] = row[n] => m = n
  /\ macOf' = [i \in Ids |-> IF \E m \in NewMacs(r) : row[m] = i
                             THEN CHOOSE m \in NewMacs(r) : row[m] = i ELSE macOf[i]]
  /\ status' = [i \in Ids |-> IF \E m \in NewMacs(r) : row[m] = i
                              THEN "trusted" ELSE StatusAfter(r, i)]
  /\ told' = [i \in Ids |-> IF \E m \in NewMacs(r) : row[m] = i THEN "trusted"
                            ELSE IF i \in Logged(r) THEN Told(r, i) ELSE told[i]]
  /\ blind' = blind \cup Blinds(r)

LEMMA SaveStores ==
  ASSUME TypeOK, FormInv, NEW r \in Requests, Save(r)
  PROVE  /\ \E row : Stored(r, row)
         /\ pc[r] = "write" /\ Op(r) # "delete" /\ (Answer(r, "ok") \/ Answer(r, "unread"))
         /\ Updated(r) \subseteq Live /\ \A m \in NewMacs(r) : ~HasRow(m)
<1>1. PICK row \in [NewMacs(r) -> Ids] :
        LET lines == form[r].lines
            IsNew(i) == \E m \in NewMacs(r) : row[m] = i
            MacAt(i) == CHOOSE m \in NewMacs(r) : row[m] = i
        IN
        /\ FreshIds(row, lines)
        /\ macOf' = [i \in Ids |-> IF IsNew(i) THEN MacAt(i) ELSE macOf[i]]
        /\ status' = [i \in Ids |-> IF IsNew(i) THEN "trusted" ELSE StatusAfter(r, i)]
        /\ told' = [i \in Ids |-> IF IsNew(i) THEN "trusted"
                                  ELSE IF i \in Logged(r) THEN Told(r, i) ELSE told[i]]
        /\ blind' = blind \cup Blinds(r)
  BY DEF Save
<1>2. FreshIds(row, form[r].lines)
  BY <1>1
<1>3. \A m \in NewMacs(r) : row[m] \in Ids /\ row[m] \notin Live
  BY <1>1, <1>2 DEF FreshIds, Ids, Live
<1>4. ASSUME NEW m \in NewMacs(r), NEW n \in NewMacs(r), row[m] = row[n], m # n PROVE FALSE
  <2>1. /\ m \in MacsIn(form[r].lines) /\ n \in MacsIn(form[r].lines)
        /\ form[r].lines \in Seq(Lines)
    BY FormFields DEF NewMacs, Save, At, FormInv
  <2>2. ComesBefore(form[r].lines, m, n) \/ ComesBefore(form[r].lines, n, m)
    BY <2>1, <1>4, OneComesFirst
  <2>3. /\ row[m] < row[n] <=> ComesBefore(form[r].lines, m, n)
        /\ row[n] < row[m] <=> ComesBefore(form[r].lines, n, m)
    BY <1>1, <1>2, <1>4 DEF FreshIds
  <2>4. row[m] \in Int
    BY <1>3 DEF Ids
  <2> QED
    BY <2>2, <2>3, <2>4, <1>4
<1>5. Stored(r, row)
  BY <1>1, <1>3, <1>4 DEF Stored
<1>6. /\ pc[r] = "write" /\ Op(r) # "delete" /\ (Answer(r, "ok") \/ Answer(r, "unread"))
      /\ Updated(r) \subseteq Live /\ \A m \in NewMacs(r) : ~HasRow(m)
  BY DEF Save, At, Saveable
<1> QED
  BY <1>5, <1>6

\* A commit frees no id and takes only those of the new rows.
LEMMA LiveAfterSave ==
  ASSUME TypeOK, NEW r \in Requests, NEW row, Stored(r, row)
  PROVE  \A i \in Ids : i \in Live' <=> i \in Live \/ \E m \in NewMacs(r) : row[m] = i
<1>1. NoMac \notin NewMacs(r)
  BY DEF NewMacs, MacsIn
<1>2. ASSUME NEW i \in Ids, NEW m \in NewMacs(r), row[m] = i PROVE macOf'[i] # NoMac
  <2>1. macOf'[i] \in NewMacs(r)
    BY <1>2 DEF Stored
  <2> QED
    BY <2>1, <1>1
<1>3. ASSUME NEW i \in Ids, ~(\E m \in NewMacs(r) : row[m] = i) PROVE macOf'[i] = macOf[i]
  BY <1>3 DEF Stored
<1> QED
  BY <1>2, <1>3 DEF Live

\* A deletion empties an id, and the other steps of a request leave the rows.
LEMMA DeleteEmpties ==
  ASSUME TypeOK, NEW r \in Requests, DeleteDevice(r)
  PROVE  \E d \in Ids : /\ macOf' = [macOf EXCEPT ![d] = NoMac]
                        /\ status' = [status EXCEPT ![d] = "unknown"]
                        /\ told' = [told EXCEPT ![d] = "unknown"]
                        /\ blind' = blind \ {d}
BY DEF DeleteDevice, SeenIds

LEMMA RowsStay ==
  ASSUME NEW r \in Requests,
         (Serve(r) /\ ~Save(r) /\ ~DeleteDevice(r)) \/ \E f \in Forms : Start(r, f)
  PROVE  UNCHANGED <<rows, audit>>
BY DEF Serve, Start, LoadRow, LoadFile, Command, LogIn, LogInFails, Execute, PostFails,
       Unauthorized, SaveFails, commanding

LEMMA FreeNext ==
  ASSUME TypeOK, FormInv, FreeInv, [Next]_vars
  PROVE  FreeInv'
<1>1. ASSUME NEW r \in Requests, Save(r) PROVE FreeInv'
  <2>1. PICK row : Stored(r, row)
    BY <1>1, SaveStores
  <2>2. Updated(r) \subseteq Live /\ pc[r] # "idle"
    BY <1>1, SaveStores
  <2>3. ASSUME NEW i \in Ids \ Live' PROVE status'[i] = "unknown" /\ told'[i] = "unknown"
    <3>1. i \notin Live /\ ~(\E m \in NewMacs(r) : row[m] = i)
      BY <2>1, <2>3, LiveAfterSave
    <3>2. status[i] = "unknown" /\ told[i] = "unknown"
      BY <3>1 DEF FreeInv
    <3>3. status'[i] = status[i]
      BY <2>1, <2>2, <3>1 DEF Stored, StatusAfter
    <3>4. told'[i] \in {told[i], "unknown"}
      <4>1. CASE i \in Logged(r)
        <5>1. i \in SeenIds(r) /\ i \notin Updated(r)
          BY <2>2, <3>1, <4>1 DEF Logged
        <5>2. FALSE
          BY <5>1, <4>1 DEF Updated, Logged
        <5> QED
          BY <5>2
      <4>2. CASE i \notin Logged(r)
        BY <2>1, <3>1, <4>2 DEF Stored
      <4> QED
        BY <4>1, <4>2
    <3> QED
      BY <3>2, <3>3, <3>4
  <2> QED
    BY <2>3 DEF FreeInv
<1>2. ASSUME NEW r \in Requests, DeleteDevice(r) PROVE FreeInv'
  BY <1>2, DeleteEmpties DEF FreeInv, Live, TypeOK
<1>3. ASSUME NEW m \in Macs, ScanInserts(m) PROVE FreeInv'
  BY <1>3, NothingAssumption DEF ScanInserts, FreeInv, Live, TypeOK, audit
<1>4. CASE UNCHANGED <<rows, audit>>
  BY <1>4 DEF FreeInv, Live, rows, audit
<1> QED
  BY <1>1, <1>2, <1>3, <1>4, RowsStay DEF Next, ScanLogsIn, SessionEnds, vars

\* AuditTellsStatus is inductive with FreeInv: a commit writes status and audit
\* from the same loaded row, and each leaves out what the other leaves out.
LEMMA AuditNext ==
  ASSUME TypeOK, FormInv, FreeInv, AuditTellsStatus, [Next]_vars
  PROVE  AuditTellsStatus'
<1>1. ASSUME NEW r \in Requests, Save(r) PROVE AuditTellsStatus'
  <2>1. PICK row : Stored(r, row)
    BY <1>1, SaveStores
  <2>2. Updated(r) \subseteq Live /\ pc[r] # "idle"
    BY <1>1, SaveStores
  <2>3. ASSUME NEW i \in Ids, i \in Live', i \notin blind' PROVE told'[i] = status'[i]
    <3>1. CASE \E m \in NewMacs(r) : row[m] = i
      BY <2>1, <3>1 DEF Stored
    <3>2. CASE ~(\E m \in NewMacs(r) : row[m] = i)
      <4>1. i \in Live
        BY <2>1, <2>3, <3>2, LiveAfterSave
      <4>2. told[i] = status[i] /\ i \notin Blinds(r)
        BY <2>1, <2>3, <4>1 DEF AuditTellsStatus, Stored
      <4>3. /\ status'[i] = StatusAfter(r, i)
            /\ told'[i] = IF i \in Logged(r) THEN Told(r, i) ELSE told[i]
        BY <2>1, <3>2 DEF Stored
      <4>4. CASE i \in Logged(r)
        <5>1. i \in SeenIds(r) /\ i \in Updated(r)
          BY <4>4 DEF Logged, Updated
        <5>2. StatusAfter(r, i) = Changed(seen[r][i].status, NewStatus(r, i), status[i])
          BY <5>1 DEF StatusAfter
        <5>3. Op(r) \in Commands => NewStatus(r, i) # seen[r][i].status
          BY <4>2, <4>4 DEF Blinds
        <5> QED
          BY <4>2, <4>3, <4>4, <5>2, <5>3 DEF Told, Changed
      <4>5. CASE i \notin Logged(r)
        <5>1. i \in SeenIds(r) => NewStatus(r, i) = seen[r][i].status
          BY <4>5, Targets DEF Logged, NewStatus
        <5>2. StatusAfter(r, i) = status[i]
          BY <5>1 DEF StatusAfter, Changed, Updated
        <5> QED
          BY <4>2, <4>3, <4>5, <5>2
      <4> QED
        BY <4>4, <4>5
    <3> QED
      BY <3>1, <3>2
  <2> QED
    BY <2>3 DEF AuditTellsStatus, Live
<1>2. ASSUME NEW r \in Requests, DeleteDevice(r) PROVE AuditTellsStatus'
  BY <1>2, DeleteEmpties DEF AuditTellsStatus, Live, TypeOK
<1>3. ASSUME NEW m \in Macs, ScanInserts(m) PROVE AuditTellsStatus'
  BY <1>3 DEF ScanInserts, AuditTellsStatus, FreeInv, Live, TypeOK, audit
<1>4. CASE UNCHANGED <<rows, audit>>
  BY <1>4 DEF AuditTellsStatus, Live, rows, audit
<1> QED
  BY <1>1, <1>2, <1>3, <1>4, RowsStay DEF Next, ScanLogsIn, SessionEnds, vars

-----------------------------------------------------------------------------
(* The commands *)

LEMMA CommandNext ==
  ASSUME TypeOK, FormInv, CommandInv, [Next]_vars
  PROVE  CommandInv'
<1> DEFINE Good(r) ==
      /\ sent[r] \in {0, 1}
      /\ pc[r] \notin {"write", "done"} => sent[r] = 0
      /\ pc[r] = "write" /\ form[r].op \in Commands /\ ~dry => sent[r] = 1
      /\ result[r] # "none" => pc[r] = "done"
      /\ pc[r] = "done" /\ result[r] \in Saved /\ form[r].op \in Commands /\ ~dry => sent[r] = 1
<1> USE DEF Saved
<1>1. \A r \in Requests : Good(r)
  BY DEF CommandInv, At, Op
<1>2. ASSUME Elsewhere PROVE CommandInv'
  BY <1>1, <1>2 DEF CommandInv, At, Op, Elsewhere
<1>3. ASSUME NEW r \in Requests, Only(r), dry' = dry, Good(r)' PROVE CommandInv'
  <2> SUFFICES ASSUME NEW q \in Requests PROVE Good(q)'
    BY DEF CommandInv, At, Op
  <2>1. CASE q = r
    BY <1>3, <2>1
  <2>2. CASE q # r
    BY <1>1, <1>3, <2>2 DEF Only
  <2> QED
    BY <2>1, <2>2
<1>4. ASSUME NEW r \in Requests, NEW f \in Forms, Start(r, f) PROVE Good(r)'
  <2>1. Good(r)
    BY <1>1
  <2> QED
    BY <2>1, <1>4 DEF Start, Answer, Continue, Goto, At, TypeOK
<1>5. ASSUME NEW r \in Requests, NEW i \in Ids, LoadRow(r, i) PROVE Good(r)'
  <2>1. Good(r)
    BY <1>1
  <2> QED
    BY <2>1, <1>5 DEF LoadRow, Answer, Goto, At, Op, TypeOK
<1>6. ASSUME NEW r \in Requests, LoadFile(r) PROVE Good(r)'
  <2>1. Good(r)
    BY <1>1
  <2> QED
    BY <2>1, <1>6 DEF LoadFile, Goto, At, Op, TypeOK, Commands
<1>7. ASSUME NEW r \in Requests, Command(r) \/ LogIn(r) \/ LogInFails(r) PROVE Good(r)'
  <2>1. Good(r)
    BY <1>1
  <2> QED
    BY <2>1, <1>7 DEF Command, LogIn, LogInFails, commanding, Answer, Continue, Goto, At, TypeOK
<1>8. ASSUME NEW r \in Requests, Execute(r) PROVE Good(r)'
  <2>1. Good(r) /\ sent'[r] = sent[r] + 1 /\ form' = form
    BY <1>1, <1>8 DEF Execute, commanding, TypeOK
  <2>2. sent'[r] = 1 /\ pc[r] \in {"post", "repost"}
    BY <2>1, <1>8 DEF Execute
  <2>3. Continue(r, "write") \/ Answer(r, "controller")
    BY <1>8 DEF Execute
  <2> QED
    BY <2>1, <2>2, <2>3 DEF Answer, Continue, Goto, TypeOK
<1>9. ASSUME NEW r \in Requests, PostFails(r) \/ Unauthorized(r) PROVE Good(r)'
  <2>1. Good(r)
    BY <1>1
  <2> QED
    BY <2>1, <1>9 DEF PostFails, Unauthorized, commanding, Answer, Continue, Goto, At, TypeOK
<1>10. ASSUME NEW r \in Requests, Save(r) \/ SaveFails(r) \/ DeleteDevice(r) PROVE Good(r)'
  <2>1. /\ Answer(r, "ok") \/ Answer(r, "unread") \/ Answer(r, "failed")
        /\ UNCHANGED <<dry, form, sent>> /\ Good(r) /\ At(r, "write")
    BY <1>1, <1>10 DEF Save, SaveFails, DeleteDevice
  <2> QED
    BY <2>1 DEF Answer, Goto, At, TypeOK
<1> QED
  BY <1>2, <1>3, <1>4, <1>5, <1>6, <1>7, <1>8, <1>9, <1>10, OneRequest
     DEF Next, Serve, Elsewhere, ScanInserts, ScanLogsIn, SessionEnds, vars

-----------------------------------------------------------------------------
(* What a step does to its request *)

LEMMA AppliedNext ==
  ASSUME TypeOK, FormInv, CommandInv, [Next]_vars
  PROVE  Applied
<1> SUFFICES ASSUME NEW r \in Requests, result[r] \notin Saved, result'[r] \in Saved, Op(r) # "delete",
                    NEW i \in Live
             PROVE  IF i \in SeenIds(r) /\ Op(r) \in DOMAIN Target
                    THEN status'[i] = Target[Op(r)] \/ seen[r][i].status = Target[Op(r)]
                    ELSE status'[i] = status[i]
  BY DEF Applied
<1>1. Serve(r) \/ \E f \in Forms : Start(r, f)
  BY OneRequest DEF Next, Only, ScanInserts, ScanLogsIn, SessionEnds, vars
<1>2. Save(r)
  BY <1>1 DEF Serve, Start, LoadRow, LoadFile, Command, LogIn, LogInFails, Execute, PostFails,
              Unauthorized, SaveFails, DeleteDevice, Answer, Continue, Goto, TypeOK, Saved
<1>3. PICK row : Stored(r, row)
  BY <1>2, SaveStores
<1>4. i \in Ids /\ status'[i] = StatusAfter(r, i)
  BY <1>3 DEF Stored, Live
<1>5. CASE i \in SeenIds(r) /\ Op(r) \in DOMAIN Target
  BY <1>4, <1>5 DEF StatusAfter, NewStatus, Changed, Updated
<1>6. CASE i \in SeenIds(r) /\ Op(r) \notin DOMAIN Target
  BY <1>4, <1>6 DEF StatusAfter, NewStatus, Changed, Updated
<1>7. CASE i \notin SeenIds(r)
  BY <1>4, <1>7 DEF StatusAfter, Updated
<1> QED
  BY <1>5, <1>6, <1>7

LEMMA Stages ==
  /\ \A p \in Points \ {"idle"} : Stage[p] > Stage["idle"]
  /\ \A p \in Points \ {"idle", "load"} : Stage[p] > Stage["load"]
  /\ \A p \in {"login", "post", "write"} : Stage[p] > Stage["command"]
  /\ Stage["post"] > Stage["login"] /\ Stage["relogin"] > Stage["post"]
  /\ Stage["repost"] > Stage["relogin"] /\ Stage["write"] > Stage["repost"]
  /\ Stage["write"] > Stage["post"]
  /\ \A p \in Points \ {"done"} : Stage["done"] > Stage[p]
BY DEF Stage, Points

LEMMA AdvanceNext ==
  ASSUME TypeOK, [Next]_vars
  PROVE  Advance
<1> DEFINE Moves(r) == \/ UNCHANGED <<pc[r], todo[r], seen[r], result[r], sent[r]>>
                       \/ Stage[pc'[r]] > Stage[pc[r]]
                       \/ pc'[r] = pc[r] /\ todo'[r] \subseteq todo[r] /\ todo'[r] # todo[r]
<1>1. ASSUME Elsewhere PROVE Advance
  BY <1>1 DEF Elsewhere, Advance
<1>2. ASSUME NEW r \in Requests, Only(r), Moves(r) PROVE Advance
  BY <1>2 DEF Only, Advance
<1>3. ASSUME NEW r \in Requests, NEW a, Answer(r, a), pc[r] # "done" PROVE Moves(r)
  BY <1>3, Stages DEF Answer, Goto, TypeOK
<1>4. ASSUME NEW r \in Requests, NEW p \in Points, Continue(r, p), Stage[p] > Stage[pc[r]]
      PROVE  Moves(r)
  BY <1>4 DEF Continue, Goto, TypeOK
<1>5. ASSUME NEW r \in Requests, NEW f \in Forms, Start(r, f) PROVE Moves(r)
  <2>1. pc[r] = "idle" /\ (Continue(r, "load") \/ Answer(r, "refused"))
    BY <1>5 DEF Start, At
  <2> QED
    BY <2>1, <1>3, <1>4, Stages DEF Points
<1>6. ASSUME NEW r \in Requests, NEW i \in Ids, LoadRow(r, i) PROVE Moves(r)
  <2>1. pc[r] = "load" /\ i \in todo[r] /\ todo' = [todo EXCEPT ![r] = @ \ {i}]
    BY <1>6 DEF LoadRow, At
  <2>2. CASE Answer(r, "not_found")
    BY <2>1, <2>2, <1>3
  <2>3. CASE Goto(r, "command") \/ Goto(r, "write")
    BY <2>1, <2>3, Stages DEF Goto, TypeOK, Points
  <2>4. CASE Goto(r, "load")
    BY <2>1, <2>4 DEF Goto, TypeOK
  <2> QED
    BY <1>6, <2>2, <2>3, <2>4 DEF LoadRow
<1>7. ASSUME NEW r \in Requests, LoadFile(r) PROVE Moves(r)
  BY <1>7, Stages DEF LoadFile, At, Goto, TypeOK, Points
<1>8. ASSUME NEW r \in Requests, Command(r) \/ LogIn(r) \/ LogInFails(r) PROVE Moves(r)
  <2>1. CASE Command(r)
    BY <2>1, <1>4, Stages DEF Command, At, Points
  <2>2. CASE LogIn(r)
    BY <2>2, <1>4, Stages DEF LogIn, At, Points
  <2>3. CASE LogInFails(r)
    BY <2>3, <1>3 DEF LogInFails
  <2> QED
    BY <1>8, <2>1, <2>2, <2>3
<1>9. ASSUME NEW r \in Requests, Execute(r) PROVE Moves(r)
  <2>1. pc[r] \in {"post", "repost"} /\ (Continue(r, "write") \/ Answer(r, "controller"))
    BY <1>9 DEF Execute
  <2> QED
    BY <2>1, <1>3, <1>4, Stages DEF Points
<1>10. ASSUME NEW r \in Requests, PostFails(r) \/ Unauthorized(r) PROVE Moves(r)
  <2>1. pc[r] \in {"post", "repost"}
    BY <1>10 DEF PostFails, Unauthorized
  <2>2. Answer(r, "controller") \/ (pc[r] = "post" /\ Continue(r, "relogin"))
    BY <1>10 DEF PostFails, Unauthorized, At
  <2> QED
    BY <2>1, <2>2, <1>3, <1>4, Stages DEF Points
<1>11. ASSUME NEW r \in Requests, Save(r) \/ SaveFails(r) \/ DeleteDevice(r) PROVE Moves(r)
  <2>1. pc[r] = "write" /\ \E a \in {"ok", "unread", "failed"} : Answer(r, a)
    BY <1>11 DEF Save, SaveFails, DeleteDevice, At
  <2> QED
    BY <2>1, <1>3
<1>12. \/ \E r \in Requests : (Serve(r) \/ \E f \in Forms : Start(r, f)) /\ Moves(r)
       \/ Elsewhere
  <2>1. ASSUME NEW r \in Requests, Serve(r) \/ \E f \in Forms : Start(r, f) PROVE Moves(r)
    <3> HIDE DEF Moves
    <3> QED
      BY <2>1, <1>5, <1>6, <1>7, <1>8, <1>9, <1>10, <1>11 DEF Serve
  <2>2. (\E r \in Requests : Serve(r) \/ \E f \in Forms : Start(r, f)) \/ Elsewhere
    BY DEF Next, Elsewhere, ScanInserts, ScanLogsIn, SessionEnds, vars
  <2> QED
    BY <2>1, <2>2
<1> QED
  BY <1>1, <1>2, <1>12, OneRequest

-----------------------------------------------------------------------------
(* The refinement *)

LEMMA TableInit == Init => Table!Init
BY DEF Init, Live, Table!Init, Table!LiveIds, Ids, Table!Ids, Statuses

\* A commit is one Decide, or one Add when a file brings new devices.
LEMMA SaveIsOneStep ==
  ASSUME TypeOK, FormInv, NEW r \in Requests, Save(r)
  PROVE  Table!Next
<1>1. PICK row : Stored(r, row)
  BY SaveStores
<1>2. /\ pc[r] # "idle" /\ Updated(r) \subseteq Live
      /\ \A m \in NewMacs(r) : ~HasRow(m)
  BY SaveStores
<1>3. Live = Table!LiveIds(macOf) /\ Ids = Table!Ids
  BY DEF Live, Table!LiveIds, Ids, Table!Ids
<1> DEFINE ds == {i \in Updated(r) : NewStatus(r, i) # seen[r][i].status}
           s == IF Op(r) \in DOMAIN Target THEN Target[Op(r)] ELSE "unknown"
<1>4. ds \in SUBSET Live /\ s \in Statuses
  BY <1>2, Targets DEF Statuses
<1>5. \A i \in Ids : StatusAfter(r, i) = IF i \in ds THEN s ELSE status[i]
  BY DEF StatusAfter, Changed, NewStatus
<1>6. CASE Op(r) # "import"
  <2>1. NewMacs(r) = {}
    BY <1>6 DEF NewMacs
  <2>2. macOf' = macOf /\ status' = [i \in Ids |-> IF i \in ds THEN s ELSE status[i]]
    BY <2>1, <1>1, <1>5 DEF Stored, TypeOK
  <2>3. Table!Decide(ds, s)
    BY <2>2, <1>3 DEF Table!Decide
  <2> HIDE DEF ds, s
  <2> QED
    BY <2>3, <1>3, <1>4 DEF Table!Next
<1>7. CASE Op(r) = "import"
  <2>1. s = "trusted"
    BY <1>7, Targets
  <2>2. NewMacs(r) \in SUBSET Macs
    BY <1>2, FormFields, FileTypes DEF FormInv, NewMacs
  <2>3. DOMAIN row = NewMacs(r) /\ row \in [NewMacs(r) -> Ids]
    BY <1>1 DEF Stored
  <2>4. \A m \in NewMacs(r) : ~Table!HasRow(macOf, m) /\ macOf[row[m]] = NoMac
    <3>1. \A m \in NewMacs(r) : row[m] \in Ids /\ row[m] \notin Live
      BY <1>1 DEF Stored
    <3> QED
      BY <3>1, <1>2, <1>3 DEF Table!HasRow, HasRow, Live
  <2>5. status' = [i \in Ids |-> IF i \in ds \/ \E m \in NewMacs(r) : row[m] = i
                                 THEN s ELSE status[i]]
    BY <1>1, <1>5, <2>1 DEF Stored
  <2>6. Table!Add(row, ds, s)
    <3> HIDE DEF ds, s
    <3> QED
      BY <1>1, <1>3, <2>3, <2>4, <2>5 DEF Table!Add, Stored
  <2> HIDE DEF ds, s
  <2> QED
    BY <2>1, <2>2, <2>3, <2>6, <1>3, <1>4 DEF Table!Next
<1> QED
  BY <1>6, <1>7

LEMMA TableNext ==
  ASSUME TypeOK, FormInv, FreeInv, [Next]_vars
  PROVE  [Table!Next]_(Table!table)
<1>1. ASSUME NEW r \in Requests, Save(r) PROVE Table!Next
  BY <1>1, SaveIsOneStep
<1>2. ASSUME NEW r \in Requests, DeleteDevice(r) PROVE [Table!Next]_(Table!table)
  <2>1. PICK d \in Ids : /\ macOf' = [macOf EXCEPT ![d] = NoMac]
                         /\ status' = [status EXCEPT ![d] = "unknown"]
    BY <1>2, DeleteEmpties
  <2>2. CASE d \in Live
    <3>1. d \in Table!LiveIds(macOf) /\ Table!Remove(d)
      BY <2>1, <2>2 DEF Live, Ids, Table!LiveIds, Table!Ids, Table!Remove
    <3> QED
      BY <3>1 DEF Table!Next
  <2>3. CASE d \notin Live
    <3>1. macOf[d] = NoMac /\ status[d] = "unknown"
      BY <2>1, <2>3 DEF Live, FreeInv
    <3>2. macOf' = macOf /\ status' = status
      BY <2>1, <3>1 DEF TypeOK
    <3> QED
      BY <3>2 DEF Table!table
  <2> QED
    BY <2>2, <2>3
<1>3. ASSUME NEW m \in Macs, ScanInserts(m) PROVE Table!Next
  <2>1. PICK i \in Ids : (\A j \in Live : j < i) /\ macOf' = [macOf EXCEPT ![i] = m]
    BY <1>3 DEF ScanInserts
  <2>2. i \notin Live /\ macOf[i] = NoMac /\ status' = status /\ ~HasRow(m)
    BY <2>1, <1>3 DEF ScanInserts, Live, Ids
  <2>3. status[i] = "unknown"
    BY <2>1, <2>2 DEF FreeInv
  <2> DEFINE row == [k \in {m} |-> i]
  <2>4. DOMAIN row = {m} /\ row[m] = i /\ row \in [{m} -> Ids]
    OBVIOUS
  <2>5. macOf' = [j \in Ids |-> IF \E k \in {m} : row[k] = j
                                THEN CHOOSE k \in {m} : row[k] = j ELSE macOf[j]]
    BY <2>1, <2>4 DEF TypeOK
  <2>6. status' = [j \in Ids |-> IF j \in {} \/ \E k \in {m} : row[k] = j
                                 THEN "unknown" ELSE status[j]]
    BY <2>2, <2>3, <2>4 DEF TypeOK
  <2>7. Table!Add(row, {}, "unknown")
    <3> HIDE DEF row
    <3> QED
      BY <2>2, <2>4, <2>5, <2>6 DEF Table!Add, Table!HasRow, HasRow, Ids, Table!Ids
  <2> HIDE DEF row
  <2>8. {m} \in SUBSET Macs /\ row \in [{m} -> Table!Ids] /\ {} \in SUBSET Table!LiveIds(macOf)
    BY <2>4 DEF Ids, Table!Ids
  <2> QED
    BY <2>7, <2>8 DEF Table!Next
<1>4. CASE UNCHANGED <<rows, audit>>
  BY <1>4 DEF rows, Table!table
<1> QED
  BY <1>1, <1>2, <1>3, <1>4, RowsStay DEF Next, ScanLogsIn, SessionEnds, vars

-----------------------------------------------------------------------------
(* The controller *)

UniqueInv == \A i, j \in Live : macOf[i] = macOf[j] => i = j

\* A request that talks to the controller has loaded one row.
Talking == {"command", "login", "post", "relogin", "repost"}
SeenInv ==
  \A r \in Requests :
    /\ pc[r] = "idle" \/ (pc[r] = "load" /\ Op(r) \in Commands) => seen[r] = NoRows
    /\ pc[r] \in Talking => Op(r) \in Commands
    /\ pc[r] \in Talking \cup {"write"} /\ Op(r) \in Commands => \E i \in Ids : SeenIds(r) = {i}

BlockedRow(m) == \E i \in Ids : macOf[i] = m /\ status[i] = "blocked"

\* Row and controller agree about m, and while a request commands it, it is the
\* only one, has seen what the row still says, and knows what the controller has.
AgreeAt(m) ==
  /\ \A q, r \in Requests : Commanding(q, m) /\ Commanding(r, m) => q = r
  /\ (\A r \in Requests : ~Commanding(r, m)) => (m \in blocked <=> BlockedRow(m))
  /\ \A r \in Requests : Commanding(r, m) =>
       /\ \A i \in SeenIds(r) : seen[r][i].status = "blocked" <=> BlockedRow(m)
       /\ m \in blocked <=> IF sent[r] = 0 THEN BlockedRow(m) ELSE Op(r) = "block"
AgreeInv == ~dry => \A m \in Macs \ apart : AgreeAt(m)

\* Every step on the table keeps the MACs apart.
LEMMA UniqueNext ==
  ASSUME TypeOK, FormInv, FreeInv, UniqueInv, [Next]_vars
  PROVE  UniqueInv'
<1>1. [Table!Next]_(Table!table)
  BY TableNext
<1>2. ASSUME NEW d \in Ids, macOf' = [macOf EXCEPT ![d] = NoMac] PROVE UniqueInv'
  BY <1>2 DEF UniqueInv, Live, TypeOK
<1>3. ASSUME NEW row, NEW ds, NEW s, Table!Add(row, ds, s) PROVE UniqueInv'
  <2> DEFINE IsNew(i) == \E m \in DOMAIN row : row[m] = i
  <2>1. \A m \in DOMAIN row : \A i \in Ids : macOf[i] # m
    BY <1>3 DEF Table!Add, Table!HasRow, Ids, Table!Ids
  <2>2. ASSUME NEW i \in Ids, IsNew(i)
        PROVE  macOf'[i] \in DOMAIN row /\ row[macOf'[i]] = i
    <3>1. macOf'[i] = CHOOSE m \in DOMAIN row : row[m] = i
      BY <2>2, <1>3 DEF Table!Add, Ids, Table!Ids
    <3> QED
      BY <2>2, <3>1
  <2>3. ASSUME NEW i \in Ids, ~IsNew(i) PROVE macOf'[i] = macOf[i]
    BY <2>3, <1>3 DEF Table!Add, Ids, Table!Ids
  <2> HIDE DEF IsNew
  <2> SUFFICES ASSUME NEW i \in Live', NEW j \in Live', macOf'[i] = macOf'[j] PROVE i = j
    BY DEF UniqueInv
  <2>4. i \in Ids /\ j \in Ids /\ macOf'[i] # NoMac /\ macOf'[j] # NoMac
    BY DEF Live
  <2>5. CASE IsNew(i) /\ IsNew(j)
    BY <2>2, <2>4, <2>5
  <2>6. CASE IsNew(i) /\ ~IsNew(j)
    BY <2>1, <2>2, <2>3, <2>4, <2>6
  <2>7. CASE ~IsNew(i) /\ IsNew(j)
    BY <2>1, <2>2, <2>3, <2>4, <2>7
  <2>8. CASE ~IsNew(i) /\ ~IsNew(j)
    BY <2>3, <2>4, <2>8 DEF UniqueInv, Live
  <2> QED
    BY <2>5, <2>6, <2>7, <2>8
<1>4. CASE macOf' = macOf
  BY <1>4 DEF UniqueInv, Live
<1> QED
  BY <1>1, <1>2, <1>3, <1>4
     DEF Table!Next, Table!table, Table!Decide, Table!Remove, Table!LiveIds, Ids, Table!Ids

LEMMA SeenNext ==
  ASSUME TypeOK, FormInv, SeenInv, [Next]_vars
  PROVE  SeenInv'
<1> DEFINE Good(r) ==
      /\ pc[r] = "idle" \/ (pc[r] = "load" /\ form[r].op \in Commands) => seen[r] = NoRows
      /\ pc[r] \in Talking => form[r].op \in Commands
      /\ pc[r] \in Talking \cup {"write"} /\ form[r].op \in Commands =>
           \E i \in Ids : {j \in Ids : seen[r][j] # NoRow} = {i}
<1>1. \A r \in Requests : Good(r)
  BY DEF SeenInv, Op, SeenIds
<1>2. ASSUME Elsewhere PROVE SeenInv'
  BY <1>1, <1>2 DEF SeenInv, Op, SeenIds, Elsewhere
<1>3. ASSUME NEW r \in Requests, Only(r), Good(r)' PROVE SeenInv'
  <2> SUFFICES ASSUME NEW q \in Requests PROVE Good(q)'
    BY DEF SeenInv, Op, SeenIds
  <2>1. CASE q = r
    BY <1>3, <2>1
  <2>2. CASE q # r
    BY <1>1, <1>3, <2>2 DEF Only
  <2> QED
    BY <2>1, <2>2
<1>4. ASSUME NEW r \in Requests, NEW f \in Forms, Start(r, f) PROVE Good(r)'
  <2>1. Good(r) /\ pc[r] = "idle" /\ (pc'[r] = "done" \/ (pc'[r] = "load" /\ seen' = seen))
    BY <1>1, <1>4 DEF Start, Answer, Continue, Goto, At, TypeOK
  <2> QED
    BY <2>1 DEF Talking
<1>5. ASSUME NEW r \in Requests, NEW i \in Ids, LoadRow(r, i) PROVE Good(r)'
  <2>1. Good(r) /\ pc[r] = "load" /\ form' = form
    BY <1>1, <1>5 DEF LoadRow, At
  <2>2. CASE pc'[r] = "done"
    BY <2>2 DEF Talking
  <2>3. CASE pc'[r] # "done" /\ form[r].op \in Commands
    <3>1. pc'[r] = "command" /\ i \in Live /\ seen' = [seen EXCEPT ![r][i] = RowAt(i)]
      BY <1>5, <2>3 DEF LoadRow, Answer, Goto, Op, TypeOK, Commands
    <3>2. \A j \in Ids : seen[r][j] = NoRow
      BY <2>1, <2>3 DEF NoRows
    <3>3. RowAt(i) # NoRow
      BY <3>1, RowAtType, NothingAssumption
    <3>4. \A j \in Ids : seen'[r][j] # NoRow <=> j = i
      BY <3>1, <3>2, <3>3 DEF TypeOK
    <3> QED
      BY <2>1, <2>3, <3>1, <3>4 DEF Talking
  <2>4. CASE pc'[r] # "done" /\ form[r].op \notin Commands
    <3>1. pc'[r] \in {"load", "write"}
      BY <1>5, <2>4 DEF LoadRow, Answer, Goto, Op, TypeOK
    <3> QED
      BY <2>1, <2>4, <3>1 DEF Talking
  <2> QED
    BY <2>2, <2>3, <2>4
<1>6. ASSUME NEW r \in Requests, LoadFile(r) PROVE Good(r)'
  BY <1>6 DEF LoadFile, Goto, At, Op, TypeOK, Commands, Talking
<1>7. ASSUME NEW r \in Requests,
             Command(r) \/ LogIn(r) \/ LogInFails(r) \/ Execute(r) \/ PostFails(r) \/ Unauthorized(r)
      PROVE  Good(r)'
  <2>1. Good(r) /\ pc[r] \in Talking /\ form' = form
    BY <1>1, <1>7 DEF Command, LogIn, LogInFails, Execute, PostFails, Unauthorized, commanding, At,
                      Talking
  <2>2. \/ \E a \in Results : Answer(r, a)
        \/ \E p \in Talking \cup {"write"} : Continue(r, p)
    BY <1>7 DEF Command, LogIn, LogInFails, Execute, PostFails, Unauthorized, Results, Talking
  <2>3. pc'[r] = "done" \/ (pc'[r] \in Talking \cup {"write"} /\ seen' = seen)
    BY <2>2 DEF Answer, Continue, Goto, TypeOK
  <2> QED
    BY <2>1, <2>3 DEF Talking
<1>8. ASSUME NEW r \in Requests, Save(r) \/ SaveFails(r) \/ DeleteDevice(r) PROVE Good(r)'
  <2>1. pc'[r] = "done"
    BY <1>8 DEF Save, SaveFails, DeleteDevice, Answer, Goto, TypeOK
  <2> QED
    BY <2>1 DEF Talking
<1> QED
  BY <1>2, <1>3, <1>4, <1>5, <1>6, <1>7, <1>8, OneRequest
     DEF Next, Serve, Elsewhere, ScanInserts, ScanLogsIn, SessionEnds, vars

\* Who is blocked by his row changes only by a commit of block or unblock for
\* him, or as apart says.
LEMMA BlockedAfterSave ==
  ASSUME TypeOK, FormInv, SeenInv, NEW r \in Requests, Save(r), NEW m \in Macs, m \notin apart',
         ~Commanding(r, m)
  PROVE  BlockedRow(m)' <=> BlockedRow(m)
<1>1. PICK row : Stored(r, row)
  BY SaveStores
<1>2. pc[r] = "write" /\ Parted(r) \subseteq apart'
  BY SaveStores DEF Save
<1> DEFINE IsNew(i) == \E n \in NewMacs(r) : row[n] = i
<1>3. SUFFICES ASSUME NEW i \in Ids
               PROVE  (macOf'[i] = m /\ status'[i] = "blocked") <=> (macOf[i] = m /\ status[i] = "blocked")
  BY DEF BlockedRow
<1>4. CASE IsNew(i)
  <2>1. status'[i] = "trusted" /\ i \notin Live
    BY <1>1, <1>4 DEF Stored
  <2> QED
    BY <2>1, NothingAssumption DEF Live
<1>5. CASE ~IsNew(i)
  <2>1. macOf'[i] = macOf[i] /\ status'[i] = StatusAfter(r, i)
    BY <1>1, <1>5 DEF Stored
  <2> SUFFICES ASSUME macOf[i] = m PROVE StatusAfter(r, i) = "blocked" <=> status[i] = "blocked"
    BY <2>1
  <2>2. i \in Live
    BY NothingAssumption DEF Live
  <2>3. CASE i \notin Updated(r)
    BY <2>3 DEF StatusAfter
  <2>4. CASE i \in Updated(r) /\ Op(r) \in Commands
    <3>1. i \in SeenIds(r) /\ seen[r][i].mac # m
      BY <1>2, <2>4 DEF Updated, Commanding
    <3>2. m \in Parted(r)
      BY <2>2, <2>4, <3>1 DEF Parted
    <3> QED
      BY <1>2, <3>2
  <2>5. CASE i \in Updated(r) /\ Op(r) \notin Commands
    <3>1. ASSUME status[i] = "blocked", StatusAfter(r, i) # "blocked" PROVE FALSE
      <4>1. m \in Parted(r)
        BY <2>2, <2>5, <3>1 DEF Parted
      <4> QED
        BY <1>2, <4>1
    <3>2. ASSUME status[i] # "blocked", StatusAfter(r, i) = "blocked" PROVE FALSE
      <4>1. NewStatus(r, i) = "blocked" /\ NewStatus(r, i) # seen[r][i].status
        BY <3>2 DEF StatusAfter, Changed
      <4>2. Op(r) \in DOMAIN Target /\ Target[Op(r)] = "blocked"
        BY <4>1 DEF NewStatus
      <4> QED
        BY <4>2, <2>5 DEF Target, Commands
    <3> QED
      BY <3>1, <3>2
  <2> QED
    BY <2>3, <2>4, <2>5
<1> QED
  BY <1>4, <1>5

LEMMA BlockedStays ==
  ASSUME TypeOK, FormInv, FreeInv, SeenInv, [Next]_vars, NEW m \in Macs, m \notin apart',
         \A r \in Requests : Save(r) => ~Commanding(r, m)
  PROVE  BlockedRow(m)' <=> BlockedRow(m)
<1>1. ASSUME NEW r \in Requests, Save(r) PROVE BlockedRow(m)' <=> BlockedRow(m)
  BY <1>1, BlockedAfterSave
<1>2. ASSUME NEW r \in Requests, DeleteDevice(r) PROVE BlockedRow(m)' <=> BlockedRow(m)
  <2>1. PICK d \in Ids : /\ macOf' = [macOf EXCEPT ![d] = NoMac]
                         /\ status' = [status EXCEPT ![d] = "unknown"]
                         /\ status[d] = "blocked" => macOf[d] \in apart'
    BY <1>2 DEF DeleteDevice, SeenIds
  <2> QED
    BY <2>1, NothingAssumption DEF BlockedRow, TypeOK
<1>3. ASSUME NEW n \in Macs, ScanInserts(n) PROVE BlockedRow(m)' <=> BlockedRow(m)
  <2>1. PICK d \in Ids : (\A j \in Live : j < d) /\ macOf' = [macOf EXCEPT ![d] = n]
    BY <1>3 DEF ScanInserts
  <2>2. d \notin Live /\ status' = status
    BY <2>1, <1>3 DEF ScanInserts, Ids
  <2>3. status[d] = "unknown" /\ macOf[d] = NoMac
    BY <2>2 DEF FreeInv, Live
  <2> QED
    BY <2>1, <2>2, <2>3, NothingAssumption DEF BlockedRow, TypeOK
<1>4. CASE UNCHANGED <<rows, audit>>
  BY <1>4 DEF BlockedRow, rows
<1> QED
  BY <1>1, <1>2, <1>3, <1>4, RowsStay DEF Next, ScanLogsIn, SessionEnds, vars

\* A step that neither begins nor executes a command for m, and commits none.
Passive(m) ==
  /\ m \in blocked' <=> m \in blocked
  /\ \A q \in Requests :
       /\ Commanding(q, m)' => /\ Commanding(q, m)
                               /\ sent'[q] = sent[q] /\ seen'[q] = seen[q] /\ form'[q] = form[q]
       /\ Commanding(q, m) /\ ~Commanding(q, m)' => sent[q] = 0

LEMMA AgreeKept ==
  ASSUME NEW m \in Macs, AgreeAt(m), Passive(m), BlockedRow(m)' <=> BlockedRow(m)
  PROVE  AgreeAt(m)'
<1>1. ASSUME NEW q \in Requests, NEW r \in Requests, Commanding(q, m)', Commanding(r, m)' PROVE q = r
  BY <1>1 DEF AgreeAt, Passive
<1>2. ASSUME \A r \in Requests : ~Commanding(r, m)' PROVE m \in blocked' <=> BlockedRow(m)'
  <2>1. CASE \A r \in Requests : ~Commanding(r, m)
    BY <2>1 DEF AgreeAt, Passive
  <2>2. CASE \E r \in Requests : Commanding(r, m)
    <3>1. PICK r \in Requests : Commanding(r, m)
      BY <2>2
    <3>2. sent[r] = 0
      BY <1>2, <3>1 DEF Passive
    <3> QED
      BY <3>1, <3>2 DEF AgreeAt, Passive
  <2> QED
    BY <2>1, <2>2
<1>3. ASSUME NEW r \in Requests, Commanding(r, m)'
      PROVE  /\ \A i \in SeenIds(r)' : seen'[r][i].status = "blocked" <=> BlockedRow(m)'
             /\ m \in blocked' <=> IF sent'[r] = 0 THEN BlockedRow(m)' ELSE Op(r)' = "block"
  <2>1. Commanding(r, m) /\ sent'[r] = sent[r] /\ SeenIds(r)' = SeenIds(r) /\ seen'[r] = seen[r]
        /\ Op(r)' = Op(r) /\ (m \in blocked' <=> m \in blocked)
    BY <1>3 DEF Passive, SeenIds, Op
  <2>2. /\ \A i \in SeenIds(r) : seen[r][i].status = "blocked" <=> BlockedRow(m)
        /\ m \in blocked <=> IF sent[r] = 0 THEN BlockedRow(m) ELSE Op(r) = "block"
    BY <2>1 DEF AgreeAt
  <2> QED
    BY <2>1, <2>2
<1> QED
  BY <1>1, <1>2, <1>3 DEF AgreeAt

LEMMA OnePassive ==
  ASSUME NEW r \in Requests, Only(r), NEW m, m \in blocked' <=> m \in blocked,
         Commanding(r, m)' => /\ Commanding(r, m)
                              /\ sent'[r] = sent[r] /\ seen'[r] = seen[r] /\ form'[r] = form[r],
         Commanding(r, m) /\ ~Commanding(r, m)' => sent[r] = 0
  PROVE  Passive(m)
<1>1. ASSUME NEW q \in Requests, q # r
      PROVE  /\ Commanding(q, m)' <=> Commanding(q, m)
             /\ sent'[q] = sent[q] /\ seen'[q] = seen[q] /\ form'[q] = form[q]
  BY <1>1 DEF Only, Commanding, SeenIds, Op
<1> QED
  BY <1>1 DEF Passive

\* The steps of a request that has no command, or does not get on with it.
LEMMA MostArePassive ==
  ASSUME TypeOK, SeenInv, CommandInv, ~dry, NEW r \in Requests, NEW m, m \notin apart',
         \/ \E f \in Forms : Start(r, f)
         \/ LoadFile(r) \/ Command(r) \/ LogIn(r) \/ LogInFails(r) \/ PostFails(r) \/ Unauthorized(r)
         \/ SaveFails(r) \/ DeleteDevice(r)
  PROVE  Passive(m)
<1>1. Only(r) /\ (m \in blocked' <=> m \in blocked)
  <2>1. blocked' = blocked
    BY DEF Start, LoadFile, Command, LogIn, LogInFails, PostFails, Unauthorized, SaveFails,
           DeleteDevice, unifi
  <2> QED
    BY <2>1, OneRequest DEF Serve
<1> DEFINE Own == /\ Commanding(r, m)' =>
                       /\ Commanding(r, m)
                       /\ sent'[r] = sent[r] /\ seen'[r] = seen[r] /\ form'[r] = form[r]
                  /\ Commanding(r, m) /\ ~Commanding(r, m)' => sent[r] = 0
<1>2. SUFFICES Own
  BY <1>1, OnePassive
<1>3. pc[r] \in Talking => sent[r] = 0
  BY DEF CommandInv, Talking
<1>4. ASSUME NEW f \in Forms, Start(r, f) PROVE Own
  <2>1. pc[r] = "idle" /\ pc'[r] \in {"done", "load"}
    BY <1>4 DEF Start, Answer, Continue, Goto, At, TypeOK
  <2> QED
    BY <2>1 DEF Commanding
<1>5. CASE LoadFile(r)
  <2>1. pc[r] = "load" /\ Op(r)' \notin Commands
    BY <1>5 DEF LoadFile, At, Op, Commands
  <2> QED
    BY <2>1 DEF Commanding
<1>6. CASE Command(r) \/ LogIn(r) \/ LogInFails(r) \/ PostFails(r) \/ Unauthorized(r)
  <2>1. pc[r] \in Talking /\ form' = form /\ sent' = sent
    BY <1>6 DEF Command, LogIn, LogInFails, PostFails, Unauthorized, At, commanding, Talking
  <2>2. Answer(r, "controller") \/ \E p \in Talking : Continue(r, p)
    BY <1>6 DEF Command, LogIn, LogInFails, PostFails, Unauthorized, Talking
  <2>3. CASE Answer(r, "controller")
    <3>1. ~Commanding(r, m)'
      BY <2>3 DEF Answer, Goto, Commanding, TypeOK
    <3> QED
      BY <1>3, <2>1, <3>1
  <2>4. CASE \E p \in Talking : Continue(r, p)
    <3>1. pc'[r] \in Talking /\ seen' = seen
      BY <2>4 DEF Continue, Goto, TypeOK
    <3>2. Commanding(r, m)' <=> Commanding(r, m)
      BY <2>1, <3>1 DEF Commanding, SeenIds, Op, Talking
    <3> QED
      BY <2>1, <3>1, <3>2
  <2> QED
    BY <2>2, <2>3, <2>4
<1>7. CASE SaveFails(r)
  <2>1. ~Commanding(r, m)'
    BY <1>7 DEF SaveFails, Answer, Goto, Commanding, TypeOK
  <2>2. ~Commanding(r, m)
    BY <1>7 DEF SaveFails, Commanding
  <2> QED
    BY <2>1, <2>2
<1>8. CASE DeleteDevice(r)
  <2>1. ~Commanding(r, m)' /\ ~Commanding(r, m)
    BY <1>8 DEF DeleteDevice, Answer, Goto, Commanding, Commands, TypeOK
  <2> QED
    BY <2>1
<1> QED
  BY <1>4, <1>5, <1>6, <1>7, <1>8

LEMMA AgreeAfterLoad ==
  ASSUME TypeOK, CommandInv, UniqueInv, SeenInv, NEW m \in Macs, m \notin apart', AgreeAt(m),
         NEW r \in Requests, NEW i \in Ids, LoadRow(r, i), BlockedRow(m)' <=> BlockedRow(m)
  PROVE  AgreeAt(m)'
<1>1. pc[r] = "load" /\ Only(r) /\ blocked' = blocked /\ sent' = sent /\ form' = form
  BY OneRequest DEF LoadRow, At, Serve, unifi
<1>2. ~Commanding(r, m)
  BY <1>1 DEF Commanding
<1>3. CASE ~Commanding(r, m)'
  BY <1>1, <1>2, <1>3, OnePassive, AgreeKept
<1>4. CASE Commanding(r, m)'
  <2>1. Op(r) \in Commands /\ pc'[r] # "done"
    BY <1>1, <1>4 DEF Commanding, Op
  <2>2. i \in Live /\ seen' = [seen EXCEPT ![r][i] = RowAt(i)]
    <3>1. ~Answer(r, "not_found")
      BY <2>1 DEF Answer, Goto, TypeOK
    <3>2. i \in Live
      BY <2>1, <3>1 DEF LoadRow, Commands
    <3> QED
      BY <3>1, <3>2 DEF LoadRow
  <2>3. \A j \in Ids : seen[r][j] = NoRow
    BY <1>1, <2>1 DEF SeenInv, NoRows
  <2>4. seen'[r][i] = RowAt(i) /\ \A j \in Ids : j # i => seen'[r][j] = NoRow
    BY <2>2, <2>3 DEF TypeOK
  <2>5. \A j \in SeenIds(r)' : j = i
    BY <2>4 DEF SeenIds
  <2>6. macOf[i] = m /\ seen'[r][i].status = status[i]
    <3>1. RowAt(i).mac = macOf[i] /\ RowAt(i).status = status[i]
      BY DEF RowAt
    <3> QED
      BY <1>4, <2>4, <2>5, <3>1 DEF Commanding
  <2>7. \A q \in Requests : ~Commanding(q, m)
    BY <2>1, <2>2, <2>6 DEF LoadRow
  <2>8. \A q \in Requests : Commanding(q, m)' => q = r
    BY <1>1, <2>7 DEF Only, Commanding, SeenIds, Op
  <2>9. (m \in blocked <=> BlockedRow(m)) /\ sent[r] = 0
    BY <1>1, <2>7 DEF AgreeAt, CommandInv
  <2>10. status[i] = "blocked" <=> BlockedRow(m)
    BY <2>2, <2>6, NothingAssumption DEF BlockedRow, UniqueInv, Live
  <2> QED
    BY <1>1, <1>4, <2>5, <2>6, <2>8, <2>9, <2>10 DEF AgreeAt
<1> QED
  BY <1>3, <1>4

LEMMA AgreeAfterExecute ==
  ASSUME TypeOK, CommandInv, SeenInv, NEW m \in Macs, m \notin apart', AgreeAt(m),
         NEW r \in Requests, Execute(r), BlockedRow(m)' <=> BlockedRow(m)
  PROVE  AgreeAt(m)'
<1>1. /\ pc[r] \in {"post", "repost"} /\ Only(r) /\ form' = form
      /\ sent' = [sent EXCEPT ![r] = @ + 1]
  BY OneRequest DEF Execute, Serve, commanding
<1>2. Op(r) \in Commands /\ sent'[r] = 1
  BY <1>1 DEF SeenInv, Talking, CommandInv, TypeOK
<1>3. PICK i \in SeenIds(r) :
        /\ blocked' = IF Op(r) = "block" THEN blocked \cup {seen[r][i].mac} ELSE blocked \ {seen[r][i].mac}
        /\ \/ Continue(r, "write") /\ UNCHANGED apart
           \/ Answer(r, "controller") /\ apart' = apart \cup {seen[r][i].mac}
  BY DEF Execute
<1>4. SeenIds(r) = {i}
  BY <1>1, <1>2, <1>3 DEF SeenInv, Talking
<1>5. CASE seen[r][i].mac # m
  <2>1. ~Commanding(r, m)
    BY <1>4, <1>5 DEF Commanding
  <2>2. ~Commanding(r, m)'
    <3>1. CASE Continue(r, "write")
      BY <1>1, <1>4, <1>5, <3>1 DEF Commanding, Continue, SeenIds, Op
    <3>2. CASE Answer(r, "controller")
      BY <3>2 DEF Commanding, Answer, Goto, TypeOK
    <3> QED
      BY <1>3, <3>1, <3>2
  <2>3. m \in blocked' <=> m \in blocked
    BY <1>3, <1>5
  <2> QED
    BY <1>1, <2>1, <2>2, <2>3, OnePassive, AgreeKept
<1>6. CASE seen[r][i].mac = m
  <2>1. Continue(r, "write")
    BY <1>3, <1>6
  <2>2. Commanding(r, m)
    BY <1>1, <1>2, <1>3, <1>6 DEF Commanding
  <2>3. \A q \in Requests : Commanding(q, m)' => q = r
    BY <1>1, <2>2 DEF AgreeAt, Only, Commanding, SeenIds, Op
  <2>4. SeenIds(r)' = SeenIds(r) /\ seen' = seen /\ Op(r)' = Op(r) /\ Commanding(r, m)'
    BY <1>1, <1>2, <1>3, <1>6, <2>1 DEF Continue, Goto, SeenIds, Op, Commanding, TypeOK
  <2>5. m \in blocked' <=> Op(r) = "block"
    BY <1>3, <1>6
  <2>6. \A j \in SeenIds(r) : seen[r][j].status = "blocked" <=> BlockedRow(m)
    BY <2>2 DEF AgreeAt
  <2> QED
    BY <1>2, <2>3, <2>4, <2>5, <2>6 DEF AgreeAt
<1> QED
  BY <1>5, <1>6

LEMMA AgreeAfterSave ==
  ASSUME TypeOK, FormInv, CommandInv, UniqueInv, SeenInv, ~dry, NEW m \in Macs, m \notin apart',
         AgreeAt(m), NEW r \in Requests, Save(r)
  PROVE  AgreeAt(m)'
<1>1. /\ pc[r] = "write" /\ pc'[r] = "done" /\ Only(r) /\ blocked' = blocked
      /\ Parted(r) \subseteq apart' /\ Updated(r) \subseteq Live
  <2>1. /\ At(r, "write") /\ (Answer(r, "ok") \/ Answer(r, "unread")) /\ blocked' = blocked
        /\ Parted(r) \subseteq apart' /\ Saveable(r)
    BY DEF Save, unifi
  <2> QED
    BY <2>1, OneRequest DEF At, Answer, Goto, Saveable, Serve, TypeOK
<1>2. ~Commanding(r, m)'
  BY <1>1 DEF Commanding
<1>3. CASE ~Commanding(r, m)
  BY <1>1, <1>2, <1>3, BlockedAfterSave, OnePassive, AgreeKept
<1>4. CASE Commanding(r, m)
  <2>1. Op(r) \in Commands /\ sent[r] = 1
    BY <1>1, <1>4 DEF Commanding, CommandInv, At
  <2>2. PICK i \in Ids : SeenIds(r) = {i} /\ seen[r][i].mac = m
    <3>1. PICK i \in Ids : SeenIds(r) = {i}
      BY <1>1, <2>1 DEF SeenInv
    <3> QED
      BY <1>4, <3>1 DEF Commanding
  <2>3. i \in Updated(r) /\ i \in Live
    BY <1>1, <2>1, <2>2 DEF Updated, Commands
  <2>4. macOf[i] = m
    <3>1. ASSUME macOf[i] # m PROVE m \in Parted(r)
      BY <2>1, <2>2, <2>3, <3>1 DEF Parted
    <3> QED
      BY <1>1, <3>1
  <2>5. PICK row : Stored(r, row)
    BY SaveStores
  <2>6. NewMacs(r) = {}
    BY <2>1 DEF NewMacs, Commands
  <2>7. macOf' = macOf /\ status'[i] = Changed(seen[r][i].status, Target[Op(r)], status[i])
    <3>1. macOf' = macOf /\ status'[i] = StatusAfter(r, i)
      BY <2>5, <2>6 DEF Stored, TypeOK
    <3>2. NewStatus(r, i) = Target[Op(r)]
      BY <2>1, Targets DEF NewStatus
    <3> QED
      BY <2>3, <3>1, <3>2 DEF StatusAfter
  <2>8. /\ seen[r][i].status = "blocked" <=> BlockedRow(m)
        /\ m \in blocked <=> Op(r) = "block"
    BY <1>4, <2>1, <2>2 DEF AgreeAt
  <2>9. /\ BlockedRow(m) <=> status[i] = "blocked"
        /\ BlockedRow(m)' <=> status'[i] = "blocked"
    <3>1. \A j \in Ids : macOf[j] = m => j = i
      BY <2>3, <2>4, NothingAssumption DEF UniqueInv, Live
    <3> QED
      BY <2>4, <2>7, <3>1 DEF BlockedRow
  <2>10. Target[Op(r)] = "blocked" <=> Op(r) = "block"
    BY <2>1 DEF Target, Commands
  <2>11. m \in blocked' <=> BlockedRow(m)'
    BY <1>1, <2>7, <2>8, <2>9, <2>10 DEF Changed
  <2>12. \A q \in Requests : ~Commanding(q, m)'
    BY <1>1, <1>2, <1>4 DEF AgreeAt, Only, Commanding, SeenIds, Op
  <2> QED
    BY <2>11, <2>12 DEF AgreeAt
<1> QED
  BY <1>3, <1>4

LEMMA AgreeNext ==
  ASSUME TypeOK, FormInv, FreeInv, CommandInv, UniqueInv, SeenInv, AgreeInv, [Next]_vars
  PROVE  AgreeInv'
<1>1. dry' = dry
  BY OneRequest DEF Next, ScanInserts, ScanLogsIn, SessionEnds, vars
<1>2. apart \subseteq apart'
  BY DEF Next, Serve, Start, LoadRow, LoadFile, Command, LogIn, LogInFails, Execute, PostFails,
         Unauthorized, Save, SaveFails, DeleteDevice, ScanInserts, ScanLogsIn, SessionEnds, vars
<1> SUFFICES ASSUME ~dry, NEW m \in Macs, m \notin apart', AgreeAt(m) PROVE AgreeAt(m)'
  BY <1>1, <1>2 DEF AgreeInv
<1>3. ASSUME NEW r \in Requests, Save(r) PROVE AgreeAt(m)'
  BY <1>3, AgreeAfterSave
<1>4. ASSUME \A r \in Requests : ~Save(r) PROVE AgreeAt(m)'
  <2>1. BlockedRow(m)' <=> BlockedRow(m)
    BY <1>4, BlockedStays
  <2>2. CASE Elsewhere /\ blocked' = blocked
    <3>1. Passive(m)
      BY <2>2 DEF Passive, Elsewhere, Commanding, SeenIds, Op
    <3> QED
      BY <2>1, <3>1, AgreeKept
  <2>3. ASSUME NEW r \in Requests, NEW i \in Ids, LoadRow(r, i) PROVE AgreeAt(m)'
    BY <2>1, <2>3, AgreeAfterLoad
  <2>4. ASSUME NEW r \in Requests, Execute(r) PROVE AgreeAt(m)'
    BY <2>1, <2>4, AgreeAfterExecute
  <2>5. ASSUME NEW r \in Requests,
               \/ \E f \in Forms : Start(r, f)
               \/ LoadFile(r) \/ Command(r) \/ LogIn(r) \/ LogInFails(r) \/ PostFails(r)
               \/ Unauthorized(r) \/ SaveFails(r) \/ DeleteDevice(r)
        PROVE  AgreeAt(m)'
    BY <2>1, <2>5, MostArePassive, AgreeKept
  <2> QED
    BY <1>4, <2>2, <2>3, <2>4, <2>5
       DEF Next, Serve, Elsewhere, ScanInserts, ScanLogsIn, SessionEnds, unifi, vars
<1> QED
  BY <1>3, <1>4

-----------------------------------------------------------------------------
(* The theorems *)

DeviceInv ==
  /\ TypeOK /\ FormInv /\ FreeInv /\ CommandInv /\ AuditTellsStatus
  /\ UniqueInv /\ SeenInv /\ AgreeInv

LEMMA DeviceInit == Init => DeviceInv
<1> SUFFICES ASSUME Init PROVE DeviceInv
  OBVIOUS
<1>1. TypeOK
  BY DEF Init, TypeOK, Points, Results, NoRows
<1>2. FormInv /\ FreeInv /\ CommandInv /\ AuditTellsStatus
  BY DEF Init, FormInv, FreeInv, CommandInv, AuditTellsStatus, At, Live
<1>3. UniqueInv /\ SeenInv
  BY DEF Init, UniqueInv, SeenInv, Talking
<1>4. AgreeInv
  <2> SUFFICES ASSUME NEW m \in Macs PROVE AgreeAt(m)
    BY DEF AgreeInv
  <2>1. \A r \in Requests : ~Commanding(r, m)
    BY DEF Init, Commanding
  <2>2. m \in blocked <=> BlockedRow(m)
    BY DEF Init, BlockedRow
  <2> QED
    BY <2>1, <2>2 DEF AgreeAt
<1> QED
  BY <1>1, <1>2, <1>3, <1>4 DEF DeviceInv

LEMMA DeviceStep == DeviceInv /\ [Next]_vars => DeviceInv'
<1> SUFFICES ASSUME DeviceInv, [Next]_vars PROVE DeviceInv'
  OBVIOUS
<1>1. TypeOK' /\ FormInv' /\ FreeInv' /\ CommandInv' /\ AuditTellsStatus'
  BY TypeNext, OneForm, FreeNext, CommandNext, AuditNext DEF DeviceInv
<1>2. UniqueInv' /\ SeenInv' /\ AgreeInv'
  BY UniqueNext, SeenNext, AgreeNext DEF DeviceInv
<1> QED
  BY <1>1, <1>2 DEF DeviceInv

\* Rows, requests and the audit log hold only what their columns and points
\* allow, whatever a request commits over.
THEOREM DeviceTypes == Spec => []TypeOK
<1>1. DeviceInv => TypeOK
  BY DEF DeviceInv
<1> QED
  BY <1>1, DeviceInit, DeviceStep, PTL DEF Spec

\* DeviceService._set_status and log_device_action: the audit log tells the
\* status in force, although an UPDATE leaves out a column that has not changed.
THEOREM AuditIsTrue == Spec => []AuditTellsStatus
<1>1. DeviceInv => AuditTellsStatus
  BY DEF DeviceInv
<1> QED
  BY <1>1, DeviceInit, DeviceStep, PTL DEF Spec

\* DeviceService.block and unblock send the command before they commit: but for
\* the cases that apart lists, rows and controller name the same clients.
THEOREM RowsAndController == Spec => []ControllerAgrees
<1>1. DeviceInv => ControllerAgrees
  <2> SUFFICES ASSUME DeviceInv, ~dry, NEW m \in Macs \ apart,
                      \A r \in Requests : ~Commanding(r, m)
               PROVE  m \in blocked <=> \E i \in Ids : macOf[i] = m /\ status[i] = "blocked"
    BY DEF ControllerAgrees
  <2> QED
    BY DEF DeviceInv, AgreeInv, AgreeAt, BlockedRow
<1> QED
  BY <1>1, DeviceInit, DeviceStep, PTL DEF Spec

\* UnifiClient._stamgr_cmd: one execution for a success, never two.
THEOREM OneCommand == Spec => []CommandsOnce
<1>1. DeviceInv => CommandsOnce
  BY DEF DeviceInv, CommandInv, CommandsOnce
<1> QED
  BY <1>1, DeviceInit, DeviceStep, PTL DEF Spec

\* A bulk action or an import is applied to all its devices or to none.
THEOREM AllOrNone == Spec => AppliedAsWhole
<1>1. DeviceInv /\ [Next]_vars => Applied
  BY AppliedNext DEF DeviceInv
<1> QED
  BY <1>1, DeviceInit, DeviceStep, PTL DEF Spec, AppliedAsWhole

\* No step of a request leads back: its answer is a bounded number of steps away.
THEOREM NoStepBack == Spec => RequestsAdvance
<1>1. DeviceInv /\ [Next]_vars => Advance
  BY AdvanceNext DEF DeviceInv
<1> QED
  BY <1>1, DeviceInit, DeviceStep, PTL DEF Spec, RequestsAdvance

\* With sessions, lost rows and reused ids, a request is still one step on the
\* table, which is what the model of the scan takes for granted.
THEOREM Refinement == Spec => ImplementsTable
<1>1. DeviceInv /\ [Next]_vars => [Table!Next]_(Table!table)
  BY TableNext DEF DeviceInv
<1> QED
  BY <1>1, TableInit, DeviceInit, DeviceStep, PTL DEF Spec, ImplementsTable, Table!Spec

=============================================================================
