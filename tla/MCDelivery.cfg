CONSTANTS
  SrcCap = 1
  FwdCap = 1
  OutCap = 1
  Items = 1
  MaxParts = 2
  MaxSeq = 2
  MaxRes = 2
  MaxReq = 2
SPECIFICATION Spec
CHECK_DEADLOCK FALSE
INVARIANTS ResultsAccounted
PROPERTIES FollowsCommits
