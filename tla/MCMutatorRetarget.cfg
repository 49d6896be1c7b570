CONSTANTS
  Thread = {t1, t2}
  Ref = {r1, r2}
  h1 = h1
  p1 = p1
  p2 = p2
  Hash = {h1}
  NoHash = NoHash
  Row = {"absent", "active"}
  Par = {p1, p2}
  Request <- OneRequest
  MaxInFlight = 1
  RingSize = 2
  MaxMut = 2
  MaxEpoch = 1
SPECIFICATION Spec
SYMMETRY Symmetric
INVARIANTS RunsWhereValidated
