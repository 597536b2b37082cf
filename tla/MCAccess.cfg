\* Two requests at once, three policies, a limit of two failures.
SPECIFICATION Spec
CONSTANTS
  w1 = w1
  w2 = w2
  lan = lan
  local = local
  name = name
  foreign = foreign
  old = old
  new = new
  Workers = {w1, w2}
  Ips = {lan}
  Hosts = {local, name, foreign}
  BuiltinHosts = {local}
  Accounts = {old, new}
  Policies <- MCPolicies
  Environments <- MCEnvironments
  Requests <- MCRequests
  Limit = 2
  Window = 1
  MaxTime = 2
  NoIp = NoIp
  NoHost = NoHost
  NoAccount = NoAccount
  Nothing = Nothing
SYMMETRY Symmetry
INVARIANTS TypeOK AnswersFollowPolicy FailuresCounted OverrunBounded
CHECK_DEADLOCK FALSE
