SPECIFICATION FairSpec
CONSTANTS
  App = {a1}
  Snap = {s1, s2}
  Clean = {s1, s2}
  Risky = {}
  Attempt = {r1, r2}
  Observer = {o1, o2}
  Path = {"service"}
  Env = {"restart"}
  None = None
INVARIANTS
  TypeOK
  OneRequestPerApproval
  ReleasedIsAudited
PROPERTIES
  RecordsAreFinal
  ImplementsToken
  ClaimIsAudited
CHECK_DEADLOCK FALSE
