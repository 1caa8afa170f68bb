SPECIFICATION Spec
CONSTANTS
  App = {a1}
  Snap = {s1, s2}
  Clean = {s1, s2}
  Risky = {}
  Attempt = {r1, r2, r3}
  Observer = {o1, o2}
  Path = {"service"}
  Env = {}
  None = None
SYMMETRY RequestsAndContents
PROPERTIES
  NoPassAfterUnknown
CHECK_DEADLOCK FALSE
