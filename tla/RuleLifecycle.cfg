\* One group, of which the first candidate is worked on by two operators.
SPECIFICATION Spec
CONSTANTS
  good = good
  weak = weak
  bad = bad
  k1 = k1
  k2 = k2
  Content = {good, weak, bad}
  Key = {k1, k2}
  KeyOf <- MCKeyOf
  Valid = {good, weak}
  Passing = {good}
  Answer <- MCAnswer
  Extraction <- MCExtraction
  Seed = {good}
  Worked = {1}
  Operator = {o1, o2}
  MaxJobs = 5
  MaxReviews = 3
SYMMETRY MCSymmetry
INVARIANTS TypeOK RulesVouched PromotedHasRule AuditExplainsRules
CHECK_DEADLOCK FALSE
