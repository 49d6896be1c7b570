SPECIFICATION FairSpec
CONSTANTS
  Backend = {A, B}
  Hash = {h1}
  Val = {v1}
  None = None
  Sub = {}
  StickyAuthFails = 3
  ChanCap = 2
  MaxGen = 3
  RidSpan = 2
PROPERTY SwitchIsServed
