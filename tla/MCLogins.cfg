CONSTANTS
  Call = {c1}
  Test = {t1, t2}
  Password = {p1, p2}
  NoPassword = NoPassword
  Empty = Empty
  Wiped = Wiped
  StickyAuthFails = 2
  BanAfter = 5
  Pace = 1
  MaxNow = 1
  MaxEnv = 1
  MaxEpoch = 1
SPECIFICATION Spec
CHECK_DEADLOCK FALSE
SYMMETRY Symmetric
INVARIANTS OutcomeIsTrue RejectionBudget TestsArePaced
