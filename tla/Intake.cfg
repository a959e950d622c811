CONSTANTS
  r1 = r1
  r2 = r2
  home = home
  other = other
  anna = anna
  ben = ben
  Requests = {r1, r2}
  NoJob = NoJob
  Asks <- MCAsks
  Browsers = {home, other}
  Uploader = home
  Users = {anna, ben}
  Nobody = Nobody
  NoKey = NoKey
  MaxSessions = 3
  MaxActive = 1
  PerMinute = 1
  MaxFaults = 2
SPECIFICATION Spec
INVARIANTS Admitted OwnMaterial ServedUnlessCrossed
SYMMETRY MCRequests
CHECK_DEADLOCK FALSE
