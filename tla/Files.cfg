SPECIFICATION Spec
CONSTANTS
  Order <- TwoFiles
  Texts <- ShortTexts
  Words = {"x", "y"}
  MaxLength = 4
  MaxResults = 2
INVARIANTS
  SearchTellsWhere
  EditKeepsTheRest
