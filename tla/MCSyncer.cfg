SPECIFICATION Spec
CONSTANTS
  Backend = {A, B}
  Hash = {h1, h2}
  Val = {v1, v2}
  None = None
  Sub = {s1}
  StickyAuthFails = 3
  ChanCap = 2
  MaxGen = 3
  RidSpan = 2
INVARIANTS CurrentBackendOnly SubscribersFollow DeltaHasItsBase ParksInTime
PROPERTIES CommitsWhatWasReported StaleCycleIsInert LastKnownGood
SYMMETRY Symmetric
