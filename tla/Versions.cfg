SPECIFICATION Spec
CONSTANTS
  None = None
  Blank = Blank
  Worlds = {"one", "two", "links", "settings", "documents", "starts", "rows"}
  Managers = {1, 2}
  Reactors = {1}
  MaxRecipes = 3
  MaxRows = 2
  MaxAssignments = 1
  NoRequest = NoRequest
  Materials = {"a", "b"}
  Tolerances = {2}
  Losses = {3}
  Categories = {"ink"}
  Hints = {"ink", "other"}
  Unset = Unset
  Clear = Clear
  MaxVersions = 3
  MaxEdits = 1
  Downloads = {1, 2}
  Kinds = {"zip", "signed"}
  Configs = {1, 2}
  MaxVersion = 2
INVARIANTS NoStage1Cycle ListAndResolveAgree SettingsAreHandedOn DocumentsAreTrue
PROPERTIES CurrentIsChosen DeletionKeepsChain StartsAreSafe
CHECK_DEADLOCK FALSE
