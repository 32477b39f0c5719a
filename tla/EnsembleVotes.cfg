\* Two clauses, two cores, one key.
SPECIFICATION Spec
CONSTANTS
  Clause = {1, 2}
  Core = {1, 2}
  BaseOf <- MCBaseOf
  Pathway = {"deemed", "principle"}
  Code = {}
  Dwelling = {"any"}
  Endpoint = {"m1", "m2"}
  FamilyOf <- MCFamilyOf
  Fresh <- MCFresh
  BatchFamily = "kimi"
  Offers <- MCOffers
  BulkItem <- MCBulk
  Limit = 1
  MaxGroups <- MCMaxGroups
  MaxAlt = 0
INVARIANTS RulesAnchored HeardTwice
PROPERTIES ReviewStands
CHECK_DEADLOCK FALSE
