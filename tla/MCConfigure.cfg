CONSTANTS
  Handler = {h1, h2}
  o1 = o1
  o2 = o2
  p1 = p1
  p2 = p2
  s1 = s1
  s2 = s1
  Origin = {o1, o2}
  Pin = {}
  NoPin = NoPin
  Secret = {s1}
  NoSecret = NoSecret
  NoFile = NoFile
  Fallback <- First
  Request <- WritingIntents
  OfferedCap = 1
  MaxEpoch = 2
  MaxCrash = 0
  UndoFails = FALSE
SPECIFICATION FairSpec
INVARIANTS OneBackend ReplacesWhatItSaw
PROPERTIES ActsAtOnce Answered
