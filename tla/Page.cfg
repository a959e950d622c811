CONSTANTS
  f1 = f1
  f2 = f2
  s1 = s1
  s2 = s2
  r1 = r1
  r2 = r2
  Files = {f1, f2}
  Settings = {s1, s2}
  MaxPicks = 2
  MaxGens = 2
  Removals = {r1, r2}
  MaxFaults = 1
SPECIFICATION Spec
INVARIANTS ShownIsChosen Accounted
SYMMETRY MCSymmetry
CHECK_DEADLOCK FALSE
