\* Three versions of two sources, reviewed in any order.
SPECIFICATION MemorySpec
CONSTANTS
  Source = {s1, s2}
  Text = {t1, t2}
  Licence = {"open"}
  MaxVersions = 3
  Decision = {"approved", "rejected"}
INVARIANTS OrderedSupersession
SYMMETRY Symmetry
CHECK_DEADLOCK FALSE
