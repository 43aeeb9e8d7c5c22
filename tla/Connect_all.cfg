SPECIFICATION Spec
CONSTANTS
  Flows = {f1, f2}
  NoFlow = NoFlow
  Projects <- OneProject
  Clients = {"page", "header"}
SYMMETRY Interchangeable
INVARIANTS
  SavedOnceForItsUser
  DisconnectionLasts
  RowsFollow
