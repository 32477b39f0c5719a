SPECIFICATION Spec
CONSTANTS
  l1 = l1
  l2 = l2
  c1 = c1
  c2 = c2
  r20 = r20
  r40 = r40
  spn = spn
  a1 = a1
  a2 = a2
  a3 = a3
  Lot <- MCLot
  Stated <- MCStated
  Profile <- MCProfile
  LiveVerify = TRUE
  Layers <- MCLayers
  Entry <- MCEntry
  Rule <- MCRule
  Check <- MCCheck
  Measures <- MCMeasures
  ProjectCouncil <- MCProjectCouncil
  Client = {w1, w2}
  MaxSaves = 2
  MaxEntries = 1
  MaxReviews = 1
  MaxRuns = 1
SYMMETRY MCSymmetry
CHECK_DEADLOCK FALSE
INVARIANT UnresolvedHasNoFacts
