------------------------------- MODULE MCAccess -------------------------------
(* Small instances of Access for TLC. *)
EXTENDS Access, TLC

CONSTANTS w1, w2, lan, local, name, foreign, old, new

\* Authentication only, with the account before or after a change, and the
\* restrictions only.
MCPolicies ==
  {[hostRestriction |-> FALSE, hosts |-> {}, cidrRestriction |-> FALSE, clients |-> {},
    authentication |-> TRUE, account |-> a] : a \in {old, new}}
  \cup
  {[hostRestriction |-> TRUE, hosts |-> {name}, cidrRestriction |-> TRUE, clients |-> {lan},
    authentication |-> FALSE, account |-> old]}

MCEnvironments == {[bypass |-> FALSE, origin |-> NoHost], [bypass |-> TRUE, origin |-> name]}

Get(path, host, ip, account) ==
  [path |-> path, mutating |-> FALSE, host |-> host, origin |-> NoHost, ip |-> ip, account |-> account]
Post(origin) ==
  [path |-> "other", mutating |-> TRUE, host |-> local, origin |-> origin, ip |-> lan, account |-> old]

\* A probe; logins with either account or none, for a page or the settings;
\* an unlisted host from nowhere; and changes from two origins.
MCRequests ==
  {Get("public", foreign, NoIp, NoAccount),
   Get("other", local, lan, old), Get("other", name, lan, NoAccount),
   Get("security", name, lan, new), Get("security", foreign, NoIp, old),
   Post(local), Post(name)}

Symmetry == Permutations(Workers)

=============================================================================
