SPECIFICATION Spec
CONSTANTS
  Flows = {f1, f2}
  NoFlow = NoFlow
  Projects = {}
  Clients = {"page"}
INVARIANTS
  NoGuestPath
