CONSTANTS
  Thread = {t1, t2}
  Ref = {r1}
  h1 = h1
  p1 = p1
  p2 = p2
  Hash = {h1}
  NoHash = NoHash
  Row = {"absent", "active"}
  Par = {p1, p2}
  Request <- SomeRequests
  MaxInFlight = 1
  RingSize = 1
  MaxMut = 2
  MaxEpoch = 1
SPECIFICATION FairSpec
INVARIANTS OneResult NeverOrphaned AnswersOwnAttempt
PROPERTIES ExecutesOnce LeavesWithAnOutcome Settles
