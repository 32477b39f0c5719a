SPECIFICATION DecodeSpec
CONSTANTS
  Id = {r1}
  Worker = {w1, w2}
  Redo = {TRUE, FALSE}
SYMMETRY MCSymmetry
INVARIANTS DenylistStands RejectionsStand StampedClaim
CHECK_DEADLOCK FALSE
