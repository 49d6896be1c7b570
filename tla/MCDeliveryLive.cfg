CONSTANTS
  SrcCap = 1
  FwdCap = 1
  OutCap = 2
  Items = 1
  MaxParts = 1
  MaxSeq = 2
  MaxRes = 1
  MaxReq = 2
SPECIFICATION FairSpec
CHECK_DEADLOCK FALSE
PROPERTIES ReachesOrEnds NothingLeaks EndIsSeen
