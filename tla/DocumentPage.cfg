SPECIFICATION MCSpec
CONSTANTS
  d1 = d1
  d2 = d2
  m1 = m1
  u1 = u1
  u2 = u2
  Doc = {d1, d2}
  Measure = {m1, m2}
  Dimension = {m1}
  Unfit = {m2}
  Content = {{m1}, {m2}}
  User = {u1, u2}
  Decision = {"confirmed", "rejected"}
  MaxPromotions = 2
  MaxReads = 1
  MaxLists = 2
INVARIANTS FactsOfOneParse PromotedFlagAgrees CalibrationStands ShownFactsWhole
PROPERTIES UploadSettles ShownSettles
CHECK_DEADLOCK FALSE
