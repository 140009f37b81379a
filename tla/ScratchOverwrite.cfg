SPECIFICATION Spec

CONSTANTS
  Uuid = {r, a, b}
  Root = r
  Saved = {r, a, b}
  Null = null
  Value = {v0, v1}
  Zero = v0
  Limits = {1, 2}
  NoLimit = 9
  Writable = {r, a, b}
  Pointers = FALSE
  Toggles = FALSE
  MayFlush = FALSE
  MaxScratch = 4

SYMMETRY Symmetry

INVARIANTS
  ContentPreserved

CHECK_DEADLOCK FALSE
