SPECIFICATION Spec

CONSTANTS
  Uuid = {r, a, b}
  Root = r
  Saved = {r, a}
  Null = null
  Value = {v0}
  Zero = v0
  Limits = {}
  NoLimit = 9
  Writable = {a, b}
  Pointers = TRUE
  Toggles = TRUE
  MayFlush = FALSE
  MaxScratch = 3

SYMMETRY Symmetry

INVARIANTS
  ContentPreserved
