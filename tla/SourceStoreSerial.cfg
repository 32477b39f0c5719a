\* One review at a time: the promises to the answers that cite.
SPECIFICATION Spec
CONSTANTS
  Source = {s1}
  Text = {t1, t2}
  Licence = {"open", "restricted"}
  MaxVersions = 3
  Importer = {i1}
  Reviewer = {r1}
  Decision = {"approved", "rejected"}
INVARIANTS OneCitable AuditAgrees
PROPERTY IsRegister
SYMMETRY Symmetry
CHECK_DEADLOCK FALSE
