-------------------------------- MODULE Access --------------------------------
(***************************************************************************)
(* AccessControlMiddleware (security/middleware.py): who is let in, and the*)
(* limiter of failed logins.                                               *)
(*                                                                         *)
(* A request is judged in one go on the event loop, by the policy of that  *)
(* moment, up to the check of its password.  That runs in a thread; other  *)
(* requests are judged meanwhile, the policy may be saved, and the failure *)
(* or the success is booked when the check ends.  The failures of an       *)
(* address are a deque of times that is pruned only when it is asked for.  *)
(***************************************************************************)
EXTENDS Integers, Sequences, FiniteSets

CONSTANTS
  Workers,    \* requests handled at once
  Ips,        \* addresses, as far as the policies and the limiter tell them apart
  Hosts,      \* values of Host and Origin headers
  BuiltinHosts,   \* localhost names, private and loopback addresses
  Accounts,   \* user name and password
  Policies, Environments, Requests,   \* what is tried
  Limit,      \* AUTH_FAIL_LIMIT
  Window,     \* AUTH_FAIL_WINDOW_SECONDS
  MaxTime,    \* bound on the clock
  NoIp, NoHost, NoAccount, Nothing

Paths == {"public", "security", "other"}
Policy == [hostRestriction: BOOLEAN, hosts: SUBSET Hosts, cidrRestriction: BOOLEAN,
           clients: SUBSET Ips, authentication: BOOLEAN, account: Accounts]
Environment == [bypass: BOOLEAN, origin: Hosts \cup {NoHost}]
Request == [path: Paths, mutating: BOOLEAN, host: Hosts \cup {NoHost},
            origin: Hosts \cup {NoHost}, ip: Ips \cup {NoIp}, account: Accounts \cup {NoAccount}]

ASSUME DataAssumption == /\ Policies \subseteq Policy /\ Environments \subseteq Environment
                         /\ Requests \subseteq Request /\ BuiltinHosts \subseteq Hosts
ASSUME NothingAssumption == /\ NoIp \notin Ips /\ NoHost \notin Hosts /\ NoAccount \notin Accounts
                            /\ Nothing \notin Policy \cup Request
ASSUME BoundAssumption == /\ Limit \in Nat \ {0} /\ Window \in Nat /\ MaxTime \in Nat
                          /\ IsFiniteSet(Workers)

VARIABLES
  policy,     \* what _load_policy returns: see SecurityPolicy for how it changes
  env,        \* SECURITY_RECOVERY_BYPASS and PUBLIC_ORIGIN
  clock,
  bucket,     \* _auth_failures: the times of failures, by address
  pc, request, snap, answer,   \* the requests, snap being their policy
  failures,   \* history: the times of the failures since the last success
  during,     \* history: the policies there were while the request was handled
  tooMany     \* history: the address had Limit failures when it arrived

requests == <<pc, request, snap, answer>>
vars == <<policy, env, clock, bucket, requests, failures, during, tooMany>>

Points == {"idle", "checking", "answered"}
Answers == {"none", "passed", "failed", "forbidden", "locked", "unauthorized"}

Answer(w, a) == pc' = [pc EXCEPT ![w] = "answered"] /\ answer' = [answer EXCEPT ![w] = a]

-----------------------------------------------------------------------------
(* The decisions *)

HostAllowed(p, q) == q.host \in BuiltinHosts \cup p.hosts

\* origin_matches_request: PUBLIC_ORIGIN if it is set, else the request's host.
OriginMatches(q) ==
  q.origin = NoHost \/ q.origin = (IF env.origin # NoHost THEN env.origin ELSE q.host)

Forbidden(p, q) ==
  /\ q.path # "public"
  /\ \/ p.hostRestriction /\ ~env.bypass /\ ~HostAllowed(p, q)
     \/ q.mutating /\ ~OriginMatches(q)
     \/ p.cidrRestriction /\ ~env.bypass /\ q.ip \notin p.clients

\* Plausible bug: the bypass of the restrictions is one of the authentication.
NeedsAccountUnlessBypassed(p, q) ==
  q.path # "public" /\ ~env.bypass /\ (q.path = "security" \/ p.authentication)

NeedsAccount(p, q) == q.path # "public" /\ (q.path = "security" \/ p.authentication)

-----------------------------------------------------------------------------
(* The limiter *)

\* _prune_failures: entries go from the left while they are too old.  An empty
\* deque is taken out of the dict and a new one put in.
Prune(b) ==
  LET n == CHOOSE n \in 0..Len(b) :
             /\ \A k \in 1..n : b[k] < clock - Window
             /\ n < Len(b) => b[n + 1] >= clock - Window
  IN SubSeq(b, n + 1, Len(b))

\* Plausible bug: more than the limit, not at least the limit.
ExceededStrictly(ip) == ip \in Ips /\ Len(Prune(bucket[ip])) > Limit

Exceeded(ip) == ip \in Ips /\ Len(Prune(bucket[ip])) >= Limit

AskLimiter(ip) ==
  bucket' = IF ip \in Ips THEN [bucket EXCEPT ![ip] = Prune(@)] ELSE bucket

\* Plausible bug: the empty deque that was taken out is the one appended to.
RecordInOldDeque(ip) ==
  IF ip \in Ips
  THEN /\ bucket' = [bucket EXCEPT ![ip] = IF Prune(@) = <<>> THEN <<>> ELSE Append(Prune(@), clock)]
       /\ failures' = [failures EXCEPT ![ip] = Append(@, clock)]
  ELSE UNCHANGED <<bucket, failures>>

RecordFailure(ip) ==
  IF ip \in Ips
  THEN /\ bucket' = [bucket EXCEPT ![ip] = Append(Prune(@), clock)]
       /\ failures' = [failures EXCEPT ![ip] = Append(@, clock)]
  ELSE UNCHANGED <<bucket, failures>>

ClearFailures(ip) ==
  IF ip \in Ips
  THEN bucket' = [bucket EXCEPT ![ip] = <<>>] /\ failures' = [failures EXCEPT ![ip] = <<>>]
  ELSE UNCHANGED <<bucket, failures>>

\* The failures that count.
Recent(ip) == {k \in DOMAIN failures[ip] : failures[ip][k] >= clock - Window}

-----------------------------------------------------------------------------
(* The requests *)

Init ==
  /\ policy \in Policies /\ env \in Environments /\ clock = 0
  /\ bucket = [ip \in Ips |-> <<>>]
  /\ pc = [w \in Workers |-> "idle"]
  /\ request = [w \in Workers |-> Nothing]
  /\ snap = [w \in Workers |-> Nothing]
  /\ answer = [w \in Workers |-> "none"]
  /\ failures = [ip \in Ips |-> <<>>]
  /\ during = [w \in Workers |-> {}]
  /\ tooMany = [w \in Workers |-> FALSE]

\* Plausible bug: a request without credentials goes to the check as well.
IdentifyWithout(w, q) ==
  IF Exceeded(q.ip) THEN Answer(w, "locked") /\ AskLimiter(q.ip) /\ UNCHANGED failures
  ELSE /\ pc' = [pc EXCEPT ![w] = "checking"] /\ UNCHANGED answer
       /\ AskLimiter(q.ip) /\ UNCHANGED failures

\* The limiter is asked first; then a request without credentials is a failure
\* at once, and one with credentials waits for the check.
Identify(w, q) ==
  \/ /\ Exceeded(q.ip)
     /\ Answer(w, "locked") /\ AskLimiter(q.ip) /\ UNCHANGED failures
  \/ /\ ~Exceeded(q.ip) /\ q.account = NoAccount
     /\ Answer(w, "unauthorized") /\ RecordFailure(q.ip)
  \/ /\ ~Exceeded(q.ip) /\ q.account # NoAccount
     /\ pc' = [pc EXCEPT ![w] = "checking"] /\ UNCHANGED answer
     /\ AskLimiter(q.ip) /\ UNCHANGED failures

\* dispatch up to its await.  When no policy can be loaded, nobody is let in.
Arrive(w, q) ==
  /\ pc[w] = "idle"
  /\ request' = [request EXCEPT ![w] = q]
  /\ snap' = [snap EXCEPT ![w] = policy]
  /\ during' = [during EXCEPT ![w] = {policy}]
  /\ tooMany' = [tooMany EXCEPT ![w] = q.ip \in Ips /\ Cardinality(Recent(q.ip)) >= Limit]
  /\ \/ q.path # "public" /\ Answer(w, "failed") /\ UNCHANGED <<bucket, failures>>
     \/ IF Forbidden(policy, q) THEN Answer(w, "forbidden") /\ UNCHANGED <<bucket, failures>>
        ELSE IF NeedsAccount(policy, q) THEN Identify(w, q)
        ELSE Answer(w, "passed") /\ UNCHANGED <<bucket, failures>>
  /\ UNCHANGED <<policy, env, clock>>

\* The check of user name and password against the policy of the arrival ends.
Finish(w) ==
  /\ pc[w] = "checking"
  /\ \/ /\ request[w].account = snap[w].account
        /\ Answer(w, "passed") /\ ClearFailures(request[w].ip)
     \/ /\ request[w].account # snap[w].account
        /\ Answer(w, "unauthorized") /\ RecordFailure(request[w].ip)
  /\ UNCHANGED <<policy, env, clock, request, snap, during, tooMany>>

\* The answer is sent; what the routes do is in the other modules.
Leave(w) ==
  /\ pc[w] = "answered"
  /\ pc' = [pc EXCEPT ![w] = "idle"]
  /\ request' = [request EXCEPT ![w] = Nothing]
  /\ snap' = [snap EXCEPT ![w] = Nothing]
  /\ answer' = [answer EXCEPT ![w] = "none"]
  /\ during' = [during EXCEPT ![w] = {}]
  /\ tooMany' = [tooMany EXCEPT ![w] = FALSE]
  /\ UNCHANGED <<policy, env, clock, bucket, failures>>

SavePolicy(p) ==
  /\ policy' = p
  /\ during' = [w \in Workers |-> IF pc[w] = "checking" THEN during[w] \cup {p} ELSE during[w]]
  /\ UNCHANGED <<env, clock, bucket, requests, failures, tooMany>>

Tick ==
  /\ clock < MaxTime /\ clock' = clock + 1
  /\ UNCHANGED <<policy, env, bucket, requests, failures, during, tooMany>>

\* The failures live in memory only.
Restart(e) ==
  /\ env' = e
  /\ bucket' = [ip \in Ips |-> <<>>] /\ failures' = [ip \in Ips |-> <<>>]
  /\ pc' = [w \in Workers |-> "idle"]
  /\ request' = [w \in Workers |-> Nothing] /\ snap' = [w \in Workers |-> Nothing]
  /\ answer' = [w \in Workers |-> "none"]
  /\ during' = [w \in Workers |-> {}] /\ tooMany' = [w \in Workers |-> FALSE]
  /\ UNCHANGED <<policy, clock>>

Next ==
  \/ \E w \in Workers : Finish(w) \/ Leave(w) \/ \E q \in Requests : Arrive(w, q)
  \/ \E p \in Policies : SavePolicy(p)
  \/ Tick
  \/ \E e \in Environments : Restart(e)

Spec == Init /\ [][Next]_vars

-----------------------------------------------------------------------------
(* Properties *)

\* A request in the check has credentials and a policy to check them against.
TypeOK ==
  /\ policy \in Policies /\ env \in Environments /\ clock \in Nat
  /\ bucket \in [Ips -> Seq(Nat)] /\ failures \in [Ips -> Seq(Nat)]
  /\ pc \in [Workers -> Points]
  /\ request \in [Workers -> Requests \cup {Nothing}]
  /\ snap \in [Workers -> Policies \cup {Nothing}]
  /\ answer \in [Workers -> Answers]
  /\ during \in [Workers -> SUBSET Policies] /\ tooMany \in [Workers -> BOOLEAN]
  /\ \A w \in Workers :
       /\ pc[w] # "idle" => request[w] # Nothing /\ snap[w] # Nothing
       /\ pc[w] = "checking" => request[w].account \in Accounts

\* Who may be let in under a policy: a public path; else an allowed host and
\* client, unless the operator bypasses them, an origin of its own for a change,
\* and the account where one is asked for.
Admits(p, q) ==
  q.path = "public" \/
  /\ env.bypass \/ ~p.hostRestriction \/ q.host \in p.hosts \cup BuiltinHosts
  /\ env.bypass \/ ~p.cidrRestriction \/ q.ip \in p.clients
  /\ q.mutating => OriginMatches(q)
  /\ q.path = "security" \/ p.authentication => q.account = p.account

\* Whatever is saved during its check, a request is let in only by a policy
\* there was while it was handled, and one that is turned away was not admitted
\* by one of them, or its address had too many failures: which is so exactly
\* when the limiter has them all.
AnswersFollowPolicy ==
  \A w \in Workers :
    LET q == request[w]
        guarded == \E p \in during[w] : NeedsAccount(p, q)
    IN /\ answer[w] = "passed" =>
            \E p \in during[w] : Admits(p, q) /\ (NeedsAccount(p, q) => ~tooMany[w])
       /\ answer[w] \in {"forbidden", "unauthorized"} => \E p \in during[w] : ~Admits(p, q)
       /\ answer[w] = "locked" => tooMany[w] /\ guarded

\* The lazily pruned deque holds the failures since the last success, in order,
\* without some of the first, all of which are out of the window: none that counts
\* is lost, though checks end in any order and around prunings.
FailuresCounted ==
  \A ip \in Ips : \E n \in 0..Len(failures[ip]) :
    /\ bucket[ip] = SubSeq(failures[ip], n + 1, Len(failures[ip]))
    /\ \A k \in 1..n : failures[ip][k] < clock - Window

\* The limiter is asked before the check and booked after it, so it may be
\* overrun, but only by the requests that were in the check at once.
InCheck(ip) == {w \in Workers : pc[w] = "checking" /\ request[w].ip = ip}
OverrunBounded ==
  \A ip \in Ips : Len(bucket[ip]) + Cardinality(InCheck(ip)) < Limit + Cardinality(Workers)

=============================================================================
