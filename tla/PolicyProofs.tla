---------------------------- MODULE PolicyProofs ----------------------------
(***************************************************************************)
(* Safety of SecurityPolicy for any number of requests, forms and saves.   *)
(*                                                                         *)
(* PolicyInv adds two parts to the types.  HistoryInv: the row, the cache  *)
(* and whatever a request has loaded were committed once.  FlagInv: every  *)
(* committed row is honest about the default credentials, and the flag     *)
(* never comes back.  The second half is what lets two saves merge: a save *)
(* that has loaded a row without the flag does not write the column, and   *)
(* relies on the row not having it either.                                 *)
(*                                                                         *)
(* Two promises do not hold for overlapping requests.  The last section    *)
(* proves them for the behaviours without the overlap that breaks them.    *)
(***************************************************************************)
EXTENDS SecurityPolicy, TLAPS

Honest(s) == s.default <=> s.password = DefaultPassword

HistoryInv ==
  /\ row = NoRow => committed = {}
  /\ row # NoRow => row \in committed
  /\ cache \in committed \cup {NoPolicy}
  /\ \A r \in Requests : loaded[r] \in committed \cup {NoRow}

FlagInv ==
  /\ \A s \in committed : Honest(s)
  /\ row # NoRow /\ row.default => \A s \in committed : s.default

PolicyInv == TypeOK /\ HistoryInv /\ FlagInv

-----------------------------------------------------------------------------
(* Helpers *)

\* No entry is an allowlist.
LEMMA EmptyIsList == ASSUME NEW S PROVE <<>> \in Lists(S)
<1>1. <<>> \in [1..0 -> S]
  OBVIOUS
<1>2. 0 \in 0..MaxEntries
  BY SaveBoundAssumption
<1>3. <<>> \in UNION {[1..n -> S] : n \in 0..MaxEntries}
  BY <1>1, <1>2
<1>4. DOMAIN <<>> = {}
  OBVIOUS
<1> QED
  BY <1>3, <1>4 DEF Lists

\* The row of a new database is a row, and tells the truth.
LEMMA DefaultIsHonest == Default \in Settings /\ Honest(Default) /\ Default.default
<1>1. /\ Default.cidrs \in Lists(Networks)
      /\ Default.hosts \in Lists(Names)
  BY EmptyIsList DEF Default
<1>2. Default \in Settings
  BY <1>1, NameAssumption DEF Default, Settings, Passwords
<1> QED
  BY <1>2 DEF Default, Honest

\* A request past its SELECT has a committed row, and the database has one.
LEMMA LoadedIsCommitted ==
  ASSUME PolicyInv, NEW r \in Requests, up, pc[r] # "idle"
  PROVE  /\ loaded[r] \in committed
         /\ row \in committed
         /\ loaded[r] \in Settings
         /\ row \in Settings
  BY DEF PolicyInv, TypeOK, HistoryInv

-----------------------------------------------------------------------------
(* Steps *)

LEMMA InitEstablishes == Init => PolicyInv
<1> SUFFICES ASSUME Init PROVE PolicyInv
  OBVIOUS
<1>1. TypeOK
  <2>1. saves \in 0..MaxSaves
    BY SaveBoundAssumption DEF Init
  <2>2. pc \in [Requests -> Points] /\ \A r \in Requests : pc[r] = "idle"
    BY DEF Init, Points
  <2>3. /\ loaded \in [Requests -> Settings \cup {NoRow}]
        /\ asked \in [Requests -> AuthForms \cup {NoForm}]
    BY DEF Init
  <2> QED
    BY <2>1, <2>2, <2>3 DEF Init, TypeOK
<1>2. HistoryInv
  BY DEF Init, HistoryInv
<1>3. FlagInv
  BY DEF Init, FlagInv
<1> QED
  BY <1>1, <1>2, <1>3 DEF PolicyInv

LEMMA StartPreserves == PolicyInv /\ Start => PolicyInv'
<1> SUFFICES ASSUME PolicyInv, Start PROVE PolicyInv'
  OBVIOUS
<1>1. row' \in Settings /\ row' # NoRow
  BY DefaultIsHonest, AbsentAssumption DEF Start, PolicyInv, TypeOK
<1>2. TypeOK'
  BY <1>1 DEF PolicyInv, TypeOK, Start
<1>3. HistoryInv'
  BY <1>1 DEF PolicyInv, HistoryInv, Start
<1>4. Honest(row')
  <2>1. CASE row = NoRow
    BY <2>1, DefaultIsHonest DEF Start
  <2>2. CASE row # NoRow
    BY <2>2 DEF Start, PolicyInv, HistoryInv, FlagInv
  <2> QED
    BY <2>1, <2>2
<1>5. FlagInv'
  <2>1. CASE row = NoRow
    <3>1. committed' = {Default} /\ row' = Default
      BY <2>1 DEF Start, PolicyInv, HistoryInv
    <3> QED
      BY <3>1, DefaultIsHonest DEF FlagInv
  <2>2. CASE row # NoRow
    <3>1. committed' = committed /\ row' = row
      BY <2>2 DEF Start, PolicyInv, HistoryInv
    <3> QED
      BY <3>1 DEF PolicyInv, FlagInv
  <2> QED
    BY <2>1, <2>2
<1> QED
  BY <1>2, <1>3, <1>5 DEF PolicyInv

LEMMA StopPreserves == PolicyInv /\ Stop => PolicyInv'
<1> SUFFICES ASSUME PolicyInv, Stop PROVE PolicyInv'
  OBVIOUS
<1>1. TypeOK'
  BY DEF PolicyInv, TypeOK, Stop, Points
<1>2. HistoryInv'
  BY DEF PolicyInv, HistoryInv, Stop
<1>3. FlagInv'
  BY DEF PolicyInv, FlagInv, Stop
<1> QED
  BY <1>1, <1>2, <1>3 DEF PolicyInv

\* A commit keeps the invariant if it commits an honest row and does not bring
\* the flag back.
LEMMA CommitPreserves ==
  ASSUME PolicyInv, NEW r \in Requests, NEW new, NEW form, Commit(r, new, form),
         new \in Settings, form \in AuthForms \cup {NoForm},
         Honest(new), new.default => row.default
  PROVE  PolicyInv'
<1>1. row # NoRow /\ new # NoRow
  BY AbsentAssumption DEF Commit, Step, PolicyInv, TypeOK
<1>2. TypeOK'
  <2>1. saves' \in 0..MaxSaves
    BY SaveBoundAssumption DEF Commit, PolicyInv, TypeOK
  <2>2. pc' \in [Requests -> Points]
    BY DEF Commit, Step, PolicyInv, TypeOK, Points
  <2>3. \A q \in Requests : pc'[q] # "idle" => loaded'[q] # NoRow
    BY DEF Commit, Step, PolicyInv, TypeOK
  <2>4. asked' \in [Requests -> AuthForms \cup {NoForm}]
    BY DEF Commit, PolicyInv, TypeOK
  <2> QED
    BY <1>1, <2>1, <2>2, <2>3, <2>4 DEF Commit, Step, PolicyInv, TypeOK
<1>3. HistoryInv'
  BY <1>1 DEF Commit, PolicyInv, HistoryInv
<1>4. FlagInv'
  BY <1>1 DEF Commit, PolicyInv, FlagInv
<1> QED
  BY <1>2, <1>3, <1>4 DEF PolicyInv

LEMMA SaveAuthenticationPreserves ==
  ASSUME PolicyInv, NEW r \in Requests, SaveAuthentication(r)
  PROVE  PolicyInv'
<1> DEFINE New(f) ==
      [row EXCEPT !.username = Changed(loaded[r].username, f.username, @),
                  !.auth = Changed(loaded[r].auth, f.on, @),
                  !.password = IF f.new = NoPassword THEN @ ELSE f.new,
                  !.default = IF f.new = NoPassword THEN @
                              ELSE Changed(loaded[r].default, FALSE, @)]
<1>1. PICK f \in AuthForms : AuthAccepted(loaded[r], f) /\ Commit(r, New(f), f)
  BY DEF SaveAuthentication
<1>2. /\ loaded[r] \in committed /\ row \in committed
      /\ loaded[r] \in Settings /\ row \in Settings
  BY <1>1, LoadedIsCommitted DEF Commit, Step
<1>3. f.new = NoPassword \/ f.new \in LongPasswords
  BY <1>1 DEF AuthAccepted
<1>4. New(f) \in Settings
  <2>1. Changed(loaded[r].username, f.username, row.username) \in Usernames
    BY <1>2 DEF Settings, AuthForms, Changed
  <2>2. Changed(loaded[r].auth, f.on, row.auth) \in BOOLEAN
    BY <1>2 DEF Settings, AuthForms, Changed
  <2>3. (IF f.new = NoPassword THEN row.password ELSE f.new) \in Passwords
    BY <1>2, <1>3 DEF Settings, Passwords
  <2>4. (IF f.new = NoPassword THEN row.default
         ELSE Changed(loaded[r].default, FALSE, row.default)) \in BOOLEAN
    BY <1>2 DEF Settings, Changed
  <2> QED
    BY <1>2, <2>1, <2>2, <2>3, <2>4 DEF Settings
<1>5. Honest(New(f)) /\ (New(f).default => row.default)
  <2>1. CASE f.new = NoPassword
    <3>1. New(f).default = row.default /\ New(f).password = row.password
      BY <2>1, <1>2 DEF Settings
    <3>2. Honest(row)
      BY <1>2 DEF PolicyInv, FlagInv
    <3> QED
      BY <3>1, <3>2 DEF Honest
  <2>2. CASE f.new # NoPassword
    <3>1. New(f).password = f.new /\ New(f).default = Changed(loaded[r].default, FALSE, row.default)
      BY <2>2, <1>2 DEF Settings
    <3>2. f.new # DefaultPassword
      BY <2>2, <1>3, PasswordAssumption
    <3>3. row.default => loaded[r].default
      BY <1>2, AbsentAssumption DEF PolicyInv, FlagInv
    <3>4. row.default \in BOOLEAN /\ loaded[r].default \in BOOLEAN
      BY <1>2 DEF Settings
    <3>5. New(f).default = FALSE
      BY <3>1, <3>3, <3>4 DEF Changed
    <3> QED
      BY <3>1, <3>2, <3>5 DEF Honest
  <2> QED
    BY <2>1, <2>2
<1> HIDE DEF New
<1> QED
  BY <1>1, <1>4, <1>5, CommitPreserves

LEMMA SaveCidrPreserves ==
  ASSUME PolicyInv, NEW r \in Requests, SaveCidr(r)
  PROVE  PolicyInv'
<1> DEFINE New(f) == [row EXCEPT !.cidrOn = Changed(loaded[r].cidrOn, f.on, @),
                                 !.cidrs = Changed(loaded[r].cidrs, f.list, @)]
<1>1. PICK f \in CidrForms : Commit(r, New(f), NoForm)
  BY DEF SaveCidr
<1>2. row \in committed /\ loaded[r] \in Settings /\ row \in Settings
  BY <1>1, LoadedIsCommitted DEF Commit, Step
<1>3. New(f) \in Settings
  BY <1>2 DEF Settings, CidrForms, Changed
<1>4. New(f).default = row.default /\ New(f).password = row.password
  BY <1>2 DEF Settings
<1>5. Honest(New(f))
  BY <1>2, <1>4 DEF Honest, PolicyInv, FlagInv
<1> HIDE DEF New
<1> QED
  BY <1>1, <1>3, <1>4, <1>5, CommitPreserves

LEMMA SaveHostsPreserves ==
  ASSUME PolicyInv, NEW r \in Requests, SaveHosts(r)
  PROVE  PolicyInv'
<1> DEFINE New(f) == [row EXCEPT !.hostOn = Changed(loaded[r].hostOn, f.on, @),
                                 !.hosts = Changed(loaded[r].hosts, f.list, @)]
<1>1. PICK f \in HostForms : Commit(r, New(f), NoForm)
  BY DEF SaveHosts
<1>2. row \in committed /\ loaded[r] \in Settings /\ row \in Settings
  BY <1>1, LoadedIsCommitted DEF Commit, Step
<1>3. New(f) \in Settings
  BY <1>2 DEF Settings, HostForms, Changed
<1>4. New(f).default = row.default /\ New(f).password = row.password
  BY <1>2 DEF Settings
<1>5. Honest(New(f))
  BY <1>2, <1>4 DEF Honest, PolicyInv, FlagInv
<1> HIDE DEF New
<1> QED
  BY <1>1, <1>3, <1>4, <1>5, CommitPreserves

\* The steps that do not commit: what they load or cache was committed.
LEMMA OtherStepPreserves ==
  ASSUME PolicyInv, NEW r \in Requests,
         \/ Load(r) \/ BindLoaded(r) \/ AnswerUnsaved(r) \/ SaveFails(r)
         \/ Refresh(r) \/ Invalidate(r) \/ BindSaved(r)
  PROVE  PolicyInv'
<1> USE DEF Step, Finish
<1>1. pc' \in [Requests -> Points]
  BY DEF Load, BindLoaded, AnswerUnsaved, SaveFails, Refresh, Invalidate, BindSaved,
         PolicyInv, TypeOK, Points
<1>2. up /\ row \in Settings /\ row \in committed /\ row # NoRow
  BY AbsentAssumption
     DEF Load, BindLoaded, AnswerUnsaved, SaveFails, Refresh, Invalidate, BindSaved,
         PolicyInv, TypeOK, HistoryInv
<1>3. UNCHANGED <<row, up, saves, committed>>
  BY DEF Load, BindLoaded, AnswerUnsaved, SaveFails, Refresh, Invalidate, BindSaved
<1>4. asked' \in [Requests -> AuthForms \cup {NoForm}]
  BY DEF Load, BindLoaded, AnswerUnsaved, SaveFails, Refresh, Invalidate, BindSaved,
         PolicyInv, TypeOK
<1>5. /\ loaded' \in [Requests -> committed \cup {NoRow}]
      /\ \A q \in Requests : pc'[q] # "idle" => loaded'[q] # NoRow
  <2>1. loaded \in [Requests -> committed \cup {NoRow}]
    BY DEF PolicyInv, TypeOK, HistoryInv
  <2>2. \A q \in Requests : pc[q] # "idle" => loaded[q] # NoRow
    BY DEF PolicyInv, TypeOK
  <2>3. pc \in [Requests -> Points]
    BY DEF PolicyInv, TypeOK
  <2>4. CASE Load(r) \/ Refresh(r)
    BY <2>1, <2>2, <2>3, <2>4, <1>2 DEF Load, Refresh
  <2>5. CASE BindLoaded(r) \/ Invalidate(r)
    BY <2>1, <2>2, <2>3, <2>5 DEF BindLoaded, Invalidate
  <2>6. CASE AnswerUnsaved(r) \/ SaveFails(r) \/ BindSaved(r)
    BY <2>1, <2>2, <2>3, <2>6 DEF AnswerUnsaved, SaveFails, BindSaved
  <2> QED
    BY <2>4, <2>5, <2>6
<1>6. cache' \in committed \cup {NoPolicy}
  <2>1. cache \in committed \cup {NoPolicy}
    BY DEF PolicyInv, HistoryInv
  <2>2. CASE BindLoaded(r) \/ BindSaved(r)
    BY <2>2, LoadedIsCommitted DEF BindLoaded, BindSaved
  <2>3. CASE Load(r) \/ AnswerUnsaved(r) \/ SaveFails(r) \/ Refresh(r) \/ Invalidate(r)
    BY <2>1, <2>3 DEF Load, AnswerUnsaved, SaveFails, Refresh, Invalidate
  <2> QED
    BY <2>2, <2>3
<1>7. committed \subseteq Settings
  BY DEF PolicyInv, TypeOK
<1>8. TypeOK'
  BY <1>1, <1>2, <1>3, <1>4, <1>5, <1>6, <1>7 DEF PolicyInv, TypeOK
<1>9. HistoryInv'
  BY <1>2, <1>3, <1>5, <1>6 DEF PolicyInv, HistoryInv
<1>10. FlagInv'
  BY <1>3 DEF PolicyInv, FlagInv
<1> QED
  BY <1>8, <1>9, <1>10 DEF PolicyInv

\* The inductive step.
LEMMA NextPreserves == PolicyInv /\ [Next]_vars => PolicyInv'
<1> SUFFICES ASSUME PolicyInv, [Next]_vars PROVE PolicyInv'
  OBVIOUS
<1>1. CASE Start
  BY <1>1, StartPreserves
<1>2. CASE Stop
  BY <1>2, StopPreserves
<1>3. CASE \E r \in Requests : Request(r)
  <2>1. PICK r \in Requests : Request(r)
    BY <1>3
  <2>2. CASE SaveAuthentication(r)
    BY <2>2, SaveAuthenticationPreserves
  <2>3. CASE SaveCidr(r)
    BY <2>3, SaveCidrPreserves
  <2>4. CASE SaveHosts(r)
    BY <2>4, SaveHostsPreserves
  <2>5. CASE \/ Load(r) \/ BindLoaded(r) \/ AnswerUnsaved(r) \/ SaveFails(r)
             \/ Refresh(r) \/ Invalidate(r) \/ BindSaved(r)
    BY <2>5, OtherStepPreserves
  <2> QED
    BY <2>1, <2>2, <2>3, <2>4, <2>5 DEF Request
<1>4. CASE UNCHANGED vars
  <2>1. TypeOK'
    BY <1>4 DEF PolicyInv, TypeOK, vars
  <2>2. HistoryInv' /\ FlagInv'
    BY <1>4 DEF PolicyInv, HistoryInv, FlagInv, vars
  <2> QED
    BY <2>1, <2>2 DEF PolicyInv
<1> QED
  BY <1>1, <1>2, <1>3, <1>4 DEF Next

-----------------------------------------------------------------------------
(* Theorems *)

LEMMA PolicyInvariant == Spec => []PolicyInv
  BY InitEstablishes, NextPreserves, PTL DEF Spec

\* Rows, cache and requests keep their types, and the row exists whenever
\* requests are served (service.py, ensure_security_settings).
THEOREM PolicyTypesCorrect == Spec => []TypeOK
<1>1. PolicyInv => TypeOK
  BY DEF PolicyInv
<1> QED
  BY <1>1, PolicyInvariant, PTL

\* The cached policy was committed as a whole, whatever fails and however the
\* requests interleave (service.py, _bind_cache and its callers).
THEOREM OnlyCommittedPolicies == Spec => []PolicyWasCommitted
<1>1. PolicyInv => PolicyWasCommitted
  BY DEF PolicyInv, HistoryInv, PolicyWasCommitted
<1> QED
  BY <1>1, PolicyInvariant, PTL

\* The flag behind the banner is exact in the row and in the cache (service.py,
\* update_authentication).
THEOREM FlagIsHonest == Spec => []DefaultFlagHonest
<1>1. PolicyInv => DefaultFlagHonest
  <2> SUFFICES ASSUME PolicyInv, NEW s \in {row, cache} \cap Settings
               PROVE  s.default <=> s.password = DefaultPassword
    BY DEF DefaultFlagHonest
  <2>1. s \in committed
    BY AbsentAssumption DEF PolicyInv, HistoryInv
  <2> QED
    BY <2>1 DEF PolicyInv, FlagInv, Honest
<1> QED
  BY <1>1, PolicyInvariant, PTL

\* User name, password and the switch change only as an accepted form asks.
THEOREM ProtectedChangesAreAsked == Spec => ProtectedChangesAsked
<1> DEFINE Off == row.auth /\ ~row'.auth
           Step1 == row # NoRow =>
                      (Off \/ row'.username # row.username \/ row'.password # row.password =>
                         \E r \in Requests :
                           /\ asked'[r] # NoForm
                           /\ asked'[r].current = loaded[r].password
                           /\ Off => ~asked'[r].on /\ asked'[r].confirmed)
<1>1. PolicyInv /\ [Next]_vars => Step1 \/ UNCHANGED vars
  <2> SUFFICES ASSUME PolicyInv, [Next]_vars, row # NoRow,
                      Off \/ row'.username # row.username \/ row'.password # row.password
               PROVE  \E r \in Requests :
                           /\ asked'[r] # NoForm
                           /\ asked'[r].current = loaded[r].password
                           /\ Off => ~asked'[r].on /\ asked'[r].confirmed
    OBVIOUS
  <2>1. row \in Settings
    BY DEF PolicyInv, TypeOK
  <2>2. row' # row
    OBVIOUS
  <2>3. PICK r \in Requests : SaveAuthentication(r) \/ SaveCidr(r) \/ SaveHosts(r)
    BY <2>2 DEF Next, Request, Start, Stop, Load, BindLoaded, AnswerUnsaved, SaveFails,
                Refresh, Invalidate, BindSaved, vars
  <2>4. loaded[r] \in Settings
    BY <2>3, LoadedIsCommitted DEF SaveAuthentication, SaveCidr, SaveHosts, Commit, Step
  <2>5. CASE SaveAuthentication(r)
    <3>1. PICK f \in AuthForms :
            /\ AuthAccepted(loaded[r], f)
            /\ row'.auth = Changed(loaded[r].auth, f.on, row.auth)
            /\ row'.username = Changed(loaded[r].username, f.username, row.username)
            /\ row'.password = IF f.new = NoPassword THEN row.password ELSE f.new
            /\ asked' = [asked EXCEPT ![r] = f]
      BY <2>1, <2>5 DEF SaveAuthentication, Commit, Settings
    <3>2. asked'[r] = f /\ f # NoForm
      BY <3>1, AbsentAssumption DEF PolicyInv, TypeOK
    <3>3. f.on \in BOOLEAN /\ loaded[r].auth \in BOOLEAN /\ row.auth \in BOOLEAN
      BY <2>1, <2>4 DEF Settings, AuthForms
    <3>4. Off => loaded[r].auth /\ ~f.on
      BY <3>1, <3>3 DEF Changed
    <3>5. f.current = loaded[r].password
      BY <3>1, <3>4 DEF AuthAccepted, Changed
    <3>6. Off => ~f.on /\ f.confirmed
      BY <3>1, <3>4 DEF AuthAccepted
    <3> QED
      BY <3>2, <3>5, <3>6
  <2>6. CASE SaveCidr(r) \/ SaveHosts(r)
    <3>1. row'.auth = row.auth /\ row'.username = row.username /\ row'.password = row.password
      BY <2>1, <2>6 DEF SaveCidr, SaveHosts, Commit, Settings
    <3> QED
      BY <3>1
  <2> QED
    BY <2>3, <2>5, <2>6
<1>2. PolicyInv /\ [Next]_vars => [Step1]_vars
  BY <1>1
<1>3. Spec => [][Step1]_vars
  BY <1>2, PolicyInvariant, PTL DEF Spec
<1> QED
  BY <1>3, PTL DEF ProtectedChangesAsked

-----------------------------------------------------------------------------
(* What the saves promise while they do not overlap *)

\* A commit finds the CIDR columns as its SELECT did, whatever else has changed.
FreshSaves ==
  \A r \in Requests :
    pc[r] = "bound" /\ pc'[r] = "committed" =>
      loaded[r].cidrOn = row.cidrOn /\ loaded[r].cidrs = row.cidrs

\* What is cached is the row that is saved.
FreshBinds == cache' # cache => cache' \in {row', NoPolicy}

\* The requests about the policy are served one after the other.
OneAtATime == \A q, r \in Requests : pc[q] # "idle" /\ pc[r] # "idle" => q = r

\* A row other than the cached one is of a save that has yet to drop the cache.
BindInv ==
  cache \in {row, NoPolicy} \/ \E r \in Requests : pc[r] \in {"committed", "refreshed"}

\* The rows in the hands of the requests are the saved one.
CurrentInv ==
  \A r \in Requests :
    pc[r] \in {"loaded", "bound", "refreshed", "invalidated"} => loaded[r] = row

LEMMA RowFrame ==
  ASSUME [Next]_vars, row' # row, row # NoRow
  PROVE  \E r \in Requests : SaveAuthentication(r) \/ SaveCidr(r) \/ SaveHosts(r)
BY DEF Next, Start, Stop, Request, Load, BindLoaded, AnswerUnsaved, SaveFails, Refresh,
       Invalidate, BindSaved, vars

LEMMA CommitFrame ==
  ASSUME PolicyInv, NEW r \in Requests, SaveAuthentication(r) \/ SaveCidr(r) \/ SaveHosts(r)
  PROVE  /\ pc[r] = "bound" /\ pc' = [pc EXCEPT ![r] = "committed"]
         /\ up /\ cache' = cache /\ loaded' = loaded /\ pc'[r] = "committed"
BY DEF SaveAuthentication, SaveCidr, SaveHosts, Commit, Step, PolicyInv, TypeOK

LEMMA CidrStep ==
  ASSUME PolicyInv, CidrNeverEmpty, FreshSaves, [Next]_vars
  PROVE  CidrNeverEmpty'
<1>1. CASE row' = row
  BY <1>1 DEF CidrNeverEmpty
<1>2. CASE row = NoRow /\ row' # row
  <2>1. ASSUME NEW r \in Requests, Request(r) PROVE FALSE
    BY <2>1, <1>2, CommitFrame, LoadedIsCommitted, AbsentAssumption
       DEF Request, Load, BindLoaded, AnswerUnsaved, SaveFails, Refresh, Invalidate, BindSaved
  <2>2. Start
    BY <2>1, <1>2 DEF Next, Stop, vars
  <2> QED
    BY <2>2, <1>2 DEF Start, Default, CidrNeverEmpty
<1>3. CASE row # NoRow /\ row' # row
  <2>1. PICK r \in Requests : SaveAuthentication(r) \/ SaveCidr(r) \/ SaveHosts(r)
    BY <1>3, RowFrame
  <2>2. up /\ pc[r] = "bound" /\ pc'[r] = "committed"
    BY <2>1, CommitFrame
  <2>3. row \in Settings /\ loaded[r] \in Settings
    BY <2>2, LoadedIsCommitted
  <2>4. loaded[r].cidrOn = row.cidrOn /\ loaded[r].cidrs = row.cidrs
    BY <2>2 DEF FreshSaves
  <2>5. CASE SaveAuthentication(r) \/ SaveHosts(r)
    <3>1. row'.cidrOn = row.cidrOn /\ row'.cidrs = row.cidrs
      BY <2>3, <2>5 DEF SaveAuthentication, SaveHosts, Commit, Settings
    <3> QED
      BY <3>1, <1>3 DEF CidrNeverEmpty
  <2>6. CASE SaveCidr(r)
    <3>1. PICK f \in CidrForms :
            /\ CidrAccepted(f)
            /\ row' = [row EXCEPT !.cidrOn = Changed(loaded[r].cidrOn, f.on, @),
                                  !.cidrs = Changed(loaded[r].cidrs, f.list, @)]
      BY <2>6 DEF SaveCidr, Commit
    <3>2. row'.cidrOn = f.on /\ row'.cidrs = f.list
      BY <2>3, <2>4, <3>1 DEF Changed, Settings
    <3>3. f.on => f.list # <<>>
      BY <3>1 DEF CidrAccepted
    <3> QED
      BY <3>2, <3>3 DEF CidrNeverEmpty
  <2> QED
    BY <2>1, <2>5, <2>6
<1> QED
  BY <1>1, <1>2, <1>3

LEMMA BindStep ==
  ASSUME PolicyInv, BindInv, FreshBinds, [Next]_vars
  PROVE  BindInv'
<1>1. CASE cache' # cache
  BY <1>1 DEF FreshBinds, BindInv
<1>2. CASE cache' = cache /\ row' # row /\ row # NoRow
  BY <1>2, RowFrame, CommitFrame DEF BindInv
<1>3. CASE cache' = cache /\ row' # row /\ row = NoRow
  <2>1. cache = NoPolicy
    BY <1>3 DEF PolicyInv, HistoryInv
  <2> QED
    BY <1>3, <2>1 DEF BindInv
<1>4. CASE cache' = cache /\ row' = row
  <2>1. CASE cache \in {row, NoPolicy}
    BY <1>4, <2>1 DEF BindInv
  <2>2. CASE cache \notin {row, NoPolicy}
    <3>1. PICK q \in Requests : pc[q] \in {"committed", "refreshed"}
      BY <2>2 DEF BindInv
    <3>2. pc \in [Requests -> Points]
      BY DEF PolicyInv, TypeOK
    <3>3. ASSUME NEW r \in Requests, Request(r) PROVE pc'[q] \in {"committed", "refreshed"}
      BY <1>4, <2>2, <3>1, <3>2, <3>3, CommitFrame
         DEF Request, Load, BindLoaded, AnswerUnsaved, SaveFails, Refresh, Invalidate, BindSaved,
             Step
    <3>4. ASSUME Start \/ UNCHANGED vars PROVE pc' = pc
      BY <3>4 DEF Start, vars
    <3>5. ~Stop
      BY <1>4, <2>2 DEF Stop
    <3>6. pc'[q] \in {"committed", "refreshed"}
      BY <3>1, <3>3, <3>4, <3>5 DEF Next
    <3> QED
      BY <3>6 DEF BindInv
  <2> QED
    BY <2>1, <2>2
<1> QED
  BY <1>1, <1>2, <1>3, <1>4

LEMMA CurrentStep ==
  ASSUME PolicyInv, CurrentInv, OneAtATime, [Next]_vars
  PROVE  CurrentInv' /\ FreshSaves /\ FreshBinds
<1>1. /\ pc \in [Requests -> Points] /\ loaded \in [Requests -> Settings \cup {NoRow}]
  BY DEF PolicyInv, TypeOK
<1> SUFFICES CurrentInv' /\ FreshBinds
  BY DEF CurrentInv, FreshSaves
<1>2. ASSUME NEW r \in Requests, SaveAuthentication(r) \/ SaveCidr(r) \/ SaveHosts(r)
      PROVE  CurrentInv' /\ FreshBinds
  <2>1. /\ pc[r] = "bound" /\ pc' = [pc EXCEPT ![r] = "committed"] /\ cache' = cache
    BY <1>2, CommitFrame
  <2>2. \A q \in Requests : q # r => pc[q] = "idle"
    BY <2>1 DEF OneAtATime
  <2>3. \A q \in Requests : pc'[q] \in {"idle", "committed"}
    BY <1>1, <2>1, <2>2
  <2> QED
    BY <2>1, <2>3 DEF CurrentInv, FreshBinds
<1>3. ASSUME NEW r \in Requests,
             \/ Load(r) \/ BindLoaded(r) \/ AnswerUnsaved(r) \/ SaveFails(r)
             \/ Refresh(r) \/ Invalidate(r) \/ BindSaved(r)
      PROVE  CurrentInv' /\ FreshBinds
  <2>1. row' = row /\ \A q \in Requests : q # r => pc'[q] = pc[q] /\ loaded'[q] = loaded[q]
    BY <1>1, <1>3 DEF Load, BindLoaded, AnswerUnsaved, SaveFails, Refresh, Invalidate, BindSaved,
                      Step, Finish
  <2>2. pc'[r] \in {"loaded", "bound", "refreshed", "invalidated"} => loaded'[r] = row
    BY <1>1, <1>3 DEF Load, BindLoaded, AnswerUnsaved, SaveFails, Refresh, Invalidate, BindSaved,
                      Step, CurrentInv
  <2>3. cache' \in {cache, row, NoPolicy}
    BY <1>3 DEF Load, BindLoaded, AnswerUnsaved, SaveFails, Refresh, Invalidate, BindSaved,
                Step, CurrentInv
  <2> QED
    BY <2>1, <2>2, <2>3 DEF CurrentInv, FreshBinds
<1>4. CASE Start
  <2>1. \A r \in Requests : pc[r] # "idle" => row # NoRow /\ row' = row
    BY <1>4 DEF Start, PolicyInv, TypeOK, CurrentInv, HistoryInv
  <2>2. cache' = row' /\ UNCHANGED <<pc, loaded>>
    BY <1>4 DEF Start
  <2>3. CurrentInv'
    BY <2>1, <2>2 DEF CurrentInv
  <2> QED
    BY <2>2, <2>3 DEF FreshBinds
<1>5. CASE Stop
  <2>1. cache' = NoPolicy /\ \A r \in Requests : pc'[r] = "idle"
    BY <1>5 DEF Stop
  <2> QED
    BY <2>1 DEF CurrentInv, FreshBinds
<1>6. CASE UNCHANGED vars
  <2>1. UNCHANGED <<cache, row, pc, loaded>>
    BY <1>6 DEF vars
  <2> QED
    BY <2>1 DEF CurrentInv, FreshBinds
<1> QED
  BY <1>2, <1>3, <1>4, <1>5, <1>6 DEF Next, Request

\* update_cidr: filtering is never on with an empty allowlist unless a save has
\* committed another one's columns since its SELECT.
THEOREM CidrHoldsForFreshSaves == Spec /\ [][FreshSaves]_vars => []CidrNeverEmpty
<1>1. Init => CidrNeverEmpty
  BY DEF Init, CidrNeverEmpty
<1>2. PolicyInv /\ CidrNeverEmpty /\ [Next]_vars /\ [FreshSaves]_vars => CidrNeverEmpty'
  BY CidrStep DEF CidrNeverEmpty, vars
<1> QED
  BY <1>1, <1>2, PolicyInvariant, PTL DEF Spec

\* _bind_cache: the saved policy is the enforced one between requests unless a
\* request has cached a row that was saved over since its SELECT.
THEOREM PolicyHoldsForFreshBinds == Spec /\ [][FreshBinds]_vars => []SavedPolicyEnforced
<1>1. Init => BindInv
  BY DEF Init, BindInv
<1>2. PolicyInv /\ BindInv /\ [Next]_vars /\ [FreshBinds]_vars => BindInv'
  BY BindStep DEF BindInv, vars
<1>3. BindInv => SavedPolicyEnforced
  BY DEF BindInv, SavedPolicyEnforced
<1> QED
  BY <1>1, <1>2, <1>3, PolicyInvariant, PTL DEF Spec

\* Both promises hold when the requests come one at a time, with saves that fail
\* and with the process stopped and started at any point.
THEOREM PoliciesOneAtATime ==
  Spec /\ []OneAtATime => [](CidrNeverEmpty /\ SavedPolicyEnforced)
<1>1. Init => CurrentInv
  BY DEF Init, CurrentInv
<1>2. PolicyInv /\ CurrentInv /\ OneAtATime /\ [Next]_vars
        => CurrentInv' /\ FreshSaves /\ FreshBinds
  BY CurrentStep
<1>3. Spec /\ []OneAtATime => [][FreshSaves]_vars /\ [][FreshBinds]_vars
  BY <1>1, <1>2, PolicyInvariant, PTL DEF Spec
<1> QED
  BY <1>3, CidrHoldsForFreshSaves, PolicyHoldsForFreshBinds, PTL
=============================================================================
