CONSTANTS
  Docs = {a, b}
  Contents <- MCContents
  Shape <- MCShape
  Names = {"content"}
  ParentMin = 2
  ParentMax = 9
  ChildMin = 1
  ChildMax = 4
  FoldMax = 2
  OverlapMax = 2
  MaxRuns = 2
  MaxFaults = 1
  InTurn = TRUE
  a = a
  b = b
SPECIFICATION IngestSpec
INVARIANTS NothingMissing WellCut StoredSound
SYMMETRY MCDocs
