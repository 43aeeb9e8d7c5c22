SPECIFICATION Spec
CONSTANTS
  Processes = {p, q}
  Threads = {r1, r2, r3}
  Tokens = {a, b}
  None = None
  Overlap = TRUE
  Outages = {"save", "get", "delete"}
SYMMETRY Interchangeable
INVARIANTS
  LastWriteHolds
PROPERTIES
  KeepsPromise
