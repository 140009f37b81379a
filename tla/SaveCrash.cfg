SPECIFICATION Spec

CONSTANTS
  Path = {p, q}
  None = none
  Torn = torn
  MaxEdits = 5

INVARIANTS
  TypeOK

PROPERTIES
  SavedIsOnDisk
  NamesHoldWholeProjects
  SaveKeepsContent
  NoFilesLeftBehind
