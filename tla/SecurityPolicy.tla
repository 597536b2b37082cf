--------------------------- MODULE SecurityPolicy ---------------------------
(***************************************************************************)
(* The access policy of app/security/service.py: the one row of            *)
(* security_settings, the process-wide cache the middleware decides with,  *)
(* and the requests that read, check and save the row.                     *)
(*                                                                         *)
(* The handlers are plain functions that FastAPI runs in a thread pool, so *)
(* two of them interleave between any two steps that touch the row or the  *)
(* cache.  A request keeps the row object its SELECT returned.  Assigning  *)
(* to it makes SQLAlchemy write only the columns whose value differs from  *)
(* the loaded one: this is what Changed says, and what makes two saves     *)
(* merge column by column.                                                 *)
(***************************************************************************)
EXTENDS Integers, Sequences

CONSTANTS
  Requests,         \* threads of the pool that serve a request
  Usernames,        \* valid names; validate_username refuses the others
  DefaultUsername,
  DefaultPassword,
  LongPasswords,    \* of at least MIN_PASSWORD_LENGTH characters
  NoPassword,       \* the field of the form is empty
  Networks,         \* normalised CIDR entries
  Names,            \* normalised host names
  Elsewhere,        \* an address of no network, a host name on no list
  BuiltinHost,      \* localhost, or a private IP literal
  MaxEntries,       \* bound on the length of an allowlist
  MaxSaves,         \* bound on the number of commits
  NoRow, NoPolicy, NoForm

Passwords == {DefaultPassword} \cup LongPasswords

ASSUME PasswordAssumption == /\ DefaultPassword \notin LongPasswords
                             /\ NoPassword \notin Passwords
ASSUME NameAssumption == DefaultUsername \in Usernames
ASSUME SaveBoundAssumption == MaxSaves \in Nat /\ MaxEntries \in Nat

\* parse_and_normalize_cidrs and parse_and_normalize_hosts drop duplicates.
Lists(S) == {l \in UNION {[1..n -> S] : n \in 0..MaxEntries} :
               \A i, j \in DOMAIN l : l[i] = l[j] => i = j}

Settings == [auth: BOOLEAN, username: Usernames, password: Passwords, default: BOOLEAN,
             cidrOn: BOOLEAN, cidrs: Lists(Networks), hostOn: BOOLEAN, hosts: Lists(Names)]

AuthForms == [on: BOOLEAN, username: Usernames, current: Passwords \cup {NoPassword},
              new: Passwords \cup {NoPassword}, repeat: Passwords \cup {NoPassword},
              confirmed: BOOLEAN]
CidrForms == [on: BOOLEAN, list: Lists(Networks), from: Networks \cup {Elsewhere}, override: BOOLEAN]
HostForms == [on: BOOLEAN, list: Lists(Names), from: Names \cup {Elsewhere, BuiltinHost},
              override: BOOLEAN]

ASSUME AbsentAssumption == NoRow \notin Settings /\ NoPolicy \notin Settings /\ NoForm \notin AuthForms

VARIABLES
  row,        \* the committed row of security_settings
  cache,      \* _policy_cache
  up,         \* the lifespan has started the application
  pc,         \* where each request is
  loaded,     \* the row object of its session
  asked,      \* the authentication form it has just committed
  saves,      \* commits so far
  committed   \* history: every row that was ever committed

vars == <<row, cache, up, pc, loaded, asked, saves, committed>>

Points == {"idle", "loaded", "bound", "committed", "refreshed", "invalidated"}

-----------------------------------------------------------------------------
(* Forms *)

\* client_ip_allowed.
Covers(list, place) == \E i \in DOMAIN list : list[i] = place

\* host_allowed, with the restriction on: some hosts are on no list.
HostAllowed(list, host) == host = BuiltinHost \/ Covers(list, host)

\* Plausible bug: only a new name or a new password asks for the current one.
AuthAcceptedUnasked(s, f) ==
  LET disabling == s.auth /\ ~f.on
      changing  == f.new # NoPassword
  IN /\ (f.username # s.username \/ changing) => f.current = s.password
     /\ disabling => f.confirmed
     /\ changing => f.repeat = f.new /\ f.new \in LongPasswords

\* The errors of update_authentication, as the condition that there is none.
AuthAccepted(s, f) ==
  LET disabling == s.auth /\ ~f.on
      changing  == f.new # NoPassword
  IN /\ (f.username # s.username \/ changing \/ disabling) => f.current = s.password
     /\ disabling => f.confirmed
     /\ changing => f.repeat = f.new /\ f.new \in LongPasswords

\* Those of update_cidr: no empty allowlist, no unconfirmed lockout.
CidrAccepted(f) ==
  f.on => f.list # <<>> /\ (Covers(f.list, f.from) \/ f.override)

\* Those of update_hosts.
HostAccepted(f) ==
  f.on => HostAllowed(f.list, f.from) \/ f.override

\* An UPDATE names a column only when the new value is not the loaded one.
Changed(was, new, now) == IF new = was THEN now ELSE new

-----------------------------------------------------------------------------
(* The application *)

Init ==
  /\ row = NoRow
  /\ cache = NoPolicy
  /\ up = FALSE
  /\ pc = [r \in Requests |-> "idle"]
  /\ loaded = [r \in Requests |-> NoRow]
  /\ asked = [r \in Requests |-> NoForm]
  /\ saves = 0
  /\ committed = {}

Default == [auth |-> TRUE, username |-> DefaultUsername, password |-> DefaultPassword,
            default |-> TRUE, cidrOn |-> FALSE, cidrs |-> <<>>, hostOn |-> TRUE, hosts |-> <<>>]

\* Plausible bug: the row is left to the first save.
StartWithoutRow ==
  /\ ~up
  /\ up' = TRUE
  /\ cache' = row
  /\ UNCHANGED <<row, pc, loaded, asked, saves, committed>>

\* The lifespan calls ensure_security_settings before any request is served.
Start ==
  /\ ~up
  /\ up' = TRUE
  /\ row' = IF row = NoRow THEN Default ELSE row
  /\ committed' = committed \cup {row'}
  /\ cache' = row'
  /\ UNCHANGED <<pc, loaded, asked, saves>>

\* The process stops, or is killed, with its requests and its cache.
Stop ==
  /\ up
  /\ up' = FALSE
  /\ cache' = NoPolicy
  /\ pc' = [r \in Requests |-> "idle"]
  /\ loaded' = [r \in Requests |-> NoRow]
  /\ asked' = [r \in Requests |-> NoForm]
  /\ UNCHANGED <<row, saves, committed>>

-----------------------------------------------------------------------------
(* Requests *)

Step(r, from, to) == up /\ pc[r] = from /\ pc' = [pc EXCEPT ![r] = to]

Finish(r) ==
  /\ loaded' = [loaded EXCEPT ![r] = NoRow]
  /\ UNCHANGED asked

\* The SELECT of ensure_security_settings: the Security page, every save, and
\* any request that finds the cache empty.
Load(r) ==
  /\ Step(r, "idle", "loaded")
  /\ loaded' = [loaded EXCEPT ![r] = row]
  /\ UNCHANGED <<row, cache, up, asked, saves, committed>>

\* ensure_security_settings caches what it has loaded.
BindLoaded(r) ==
  /\ Step(r, "loaded", "bound")
  /\ cache' = loaded[r]
  /\ UNCHANGED <<row, up, loaded, asked, saves, committed>>

\* A page, a policy lookup, or a form with errors.
AnswerUnsaved(r) ==
  /\ Step(r, "bound", "idle")
  /\ Finish(r)
  /\ UNCHANGED <<row, cache, up, saves, committed>>

\* db.commit, of a form without errors.
Commit(r, new, form) ==
  /\ Step(r, "bound", "committed")
  /\ saves < MaxSaves
  /\ saves' = saves + 1
  /\ row' = new
  /\ committed' = committed \cup {new}
  /\ asked' = [asked EXCEPT ![r] = form]
  /\ UNCHANGED <<cache, up, loaded>>

\* Plausible bug: the flag of the default credentials is forgotten.
SaveAuthenticationOnly(r) ==
  /\ pc[r] = "bound"
  /\ \E f \in AuthForms :
       /\ AuthAccepted(loaded[r], f)
       /\ Commit(r,
            [row EXCEPT !.username = Changed(loaded[r].username, f.username, @),
                        !.auth = Changed(loaded[r].auth, f.on, @),
                        !.password = IF f.new = NoPassword THEN @ ELSE f.new],
            f)

\* update_authentication.  A new hash has a new salt: it is always written.
SaveAuthentication(r) ==
  /\ pc[r] = "bound"
  /\ \E f \in AuthForms :
       /\ AuthAccepted(loaded[r], f)
       /\ Commit(r,
            [row EXCEPT !.username = Changed(loaded[r].username, f.username, @),
                        !.auth = Changed(loaded[r].auth, f.on, @),
                        !.password = IF f.new = NoPassword THEN @ ELSE f.new,
                        !.default = IF f.new = NoPassword THEN @
                                    ELSE Changed(loaded[r].default, FALSE, @)],
            f)

\* update_cidr.
SaveCidr(r) ==
  /\ pc[r] = "bound"
  /\ \E f \in CidrForms :
       /\ CidrAccepted(f)
       /\ Commit(r,
            [row EXCEPT !.cidrOn = Changed(loaded[r].cidrOn, f.on, @),
                        !.cidrs = Changed(loaded[r].cidrs, f.list, @)],
            NoForm)

\* update_hosts.
SaveHosts(r) ==
  /\ pc[r] = "bound"
  /\ \E f \in HostForms :
       /\ HostAccepted(f)
       /\ Commit(r,
            [row EXCEPT !.hostOn = Changed(loaded[r].hostOn, f.on, @),
                        !.hosts = Changed(loaded[r].hosts, f.list, @)],
            NoForm)

\* Plausible bug: the changed object is cached before it is committed.
SaveFailsAfterBind(r) ==
  /\ Step(r, "bound", "idle")
  /\ \E f \in CidrForms : /\ CidrAccepted(f)
                          /\ cache' = [loaded[r] EXCEPT !.cidrOn = f.on, !.cidrs = f.list]
  /\ Finish(r)
  /\ UNCHANGED <<row, up, saves, committed>>

\* The database stays locked for longer than the busy timeout: db.commit
\* raises, get_db closes the session and nothing of the form remains.
SaveFails(r) ==
  /\ Step(r, "bound", "idle")
  /\ Finish(r)
  /\ UNCHANGED <<row, cache, up, saves, committed>>

\* db.refresh.
Refresh(r) ==
  /\ Step(r, "committed", "refreshed")
  /\ loaded' = [loaded EXCEPT ![r] = row]
  /\ asked' = [asked EXCEPT ![r] = NoForm]
  /\ UNCHANGED <<row, cache, up, saves, committed>>

\* invalidate_security_cache.
Invalidate(r) ==
  /\ Step(r, "refreshed", "invalidated")
  /\ cache' = NoPolicy
  /\ UNCHANGED <<row, up, loaded, asked, saves, committed>>

\* _bind_cache, and the answer.
BindSaved(r) ==
  /\ Step(r, "invalidated", "idle")
  /\ cache' = loaded[r]
  /\ Finish(r)
  /\ UNCHANGED <<row, up, saves, committed>>

Request(r) ==
  \/ Load(r) \/ BindLoaded(r) \/ AnswerUnsaved(r)
  \/ SaveAuthentication(r) \/ SaveCidr(r) \/ SaveHosts(r) \/ SaveFails(r)
  \/ Refresh(r) \/ Invalidate(r) \/ BindSaved(r)

Next == Start \/ Stop \/ \E r \in Requests : Request(r)

Spec == Init /\ [][Next]_vars

-----------------------------------------------------------------------------
(* Properties *)

\* The row exists whenever requests are served, and every request that is
\* past its SELECT has a whole row.
TypeOK ==
  /\ row \in Settings \cup {NoRow}
  /\ cache \in Settings \cup {NoPolicy}
  /\ up \in BOOLEAN
  /\ up => row # NoRow
  /\ pc \in [Requests -> Points]
  /\ loaded \in [Requests -> Settings \cup {NoRow}]
  /\ \A r \in Requests : pc[r] # "idle" => loaded[r] # NoRow
  /\ asked \in [Requests -> AuthForms \cup {NoForm}]
  /\ saves \in 0..MaxSaves
  /\ committed \subseteq Settings

\* What the middleware decides with is a row that was committed as a whole:
\* no save that failed, and no mixture of two, is ever enforced.
PolicyWasCommitted == cache \in committed \cup {NoPolicy}

\* The banner about the default credentials tells the truth, however saves of
\* the password interleave: the flag stands exactly while the password is the
\* default one, in the row and in the cached policy.
DefaultFlagHonest ==
  \A s \in {row, cache} \cap Settings : s.default <=> s.password = DefaultPassword

\* The user name and the password change, and authentication goes off, only by
\* a form with the password of the row it was checked against; off also needs
\* the confirmation.  A save that did not mean to switch it off never does.
ProtectedChangesAsked ==
  [][row # NoRow =>
       LET disabled == row.auth /\ ~row'.auth
       IN disabled \/ row'.username # row.username \/ row'.password # row.password =>
            \E r \in Requests :
              /\ asked'[r] # NoForm
              /\ asked'[r].current = loaded[r].password
              /\ disabled => ~asked'[r].on /\ asked'[r].confirmed]_vars

\* CIDR filtering is never on with an empty allowlist (README.md, "CIDR
\* restrictions").
CidrNeverEmpty == row # NoRow => ~(row.cidrOn /\ row.cidrs = <<>>)

\* When no request is being served, the next one is judged by the saved row.
SavedPolicyEnforced ==
  up /\ (\A r \in Requests : pc[r] = "idle") => cache \in {row, NoPolicy}
=============================================================================
