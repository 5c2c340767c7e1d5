CONSTANTS
  shallow = shallow
  whole = whole
  seeded = seeded
  Walk = {shallow, whole, seeded}
  Silo = {"news", "family"}
  Professional = {"news"}
  Context = {"", "acme"}
  Wants <- MCWants
  Full = 2
  Floor = 25
  Attempts = 1

SPECIFICATION VisitSpec

INVARIANTS
  CoverageEarned
  WantsMet

CHECK_DEADLOCK FALSE
