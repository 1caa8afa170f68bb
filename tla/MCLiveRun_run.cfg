SPECIFICATION Spec
CONSTANTS
  Page = {p1}
  Button = {b1, b2}
  Field = {f1, f2}
  Kinds <- MCKinds
  Mode = {"recon", "plain", "llm", "synthetic"}
  MaxSteps = 2
  Budget = 1
INVARIANTS TypeOK ReportIsTrue MutatedIsPlanned
PROPERTIES ReviewIsComplete ModelKeepsItsPlace Ends
