SPECIFICATION Spec
CONSTANTS
  Requests = {r1, r2}
  Usernames = {admin}
  DefaultUsername = admin
  DefaultPassword = default
  LongPasswords = {long}
  NoPassword = NoPassword
  Networks = {lan}
  Names = {name}
  Elsewhere = elsewhere
  BuiltinHost = localhost
  MaxEntries = 1
  MaxSaves = 3
  NoRow = NoRow
  NoPolicy = NoPolicy
  NoForm = NoForm
SYMMETRY Symmetry
INVARIANTS CidrNeverEmpty
