CONSTANTS
  Handler = {h1}
  o1 = o1
  o2 = o2
  p1 = p1
  p2 = p2
  s1 = s1
  s2 = s2
  Origin = {o1, o2}
  Pin = {p1}
  NoPin = NoPin
  Secret = {s1, s2}
  NoSecret = NoSecret
  NoFile = NoFile
  Fallback <- First
  Request <- IntentsAndPin
  OfferedCap = 1
  MaxEpoch = 2
  MaxCrash = 1
  UndoFails = TRUE
SPECIFICATION Spec
INVARIANTS PresenceKnown PersistedIsActive RejectedIsInert
PROPERTIES RestartResumes
