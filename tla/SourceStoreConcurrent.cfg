\* Two imports and two reviews at a time.
SPECIFICATION Spec
CONSTANTS
  Source = {s1, s2}
  Text = {t1}
  Licence = {"open"}
  MaxVersions = 2
  Importer = {i1, i2}
  Reviewer = {r1, r2}
  Decision = {"approved", "rejected"}
INVARIANTS TypeOK NoDuplicateContent SupersessionSound
PROPERTY SupersededStaysOut
SYMMETRY Symmetry
CHECK_DEADLOCK FALSE
