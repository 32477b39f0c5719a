SPECIFICATION Spec
CONSTANTS
  policy = policy
  variant = variant
  scan = scan
  page = page
  shell = shell
  full = full
  anchor = anchor
  None = None
  Source = {policy, variant}
  Raw = {scan, page}
  Text = {shell, full}
  Anchor = {anchor}
  Serves <- MCServes
  Located = {policy}
  Listed = {policy}
  RepairTexts <- MCRepairTexts
  Supplied <- MCSupplied
  Length <- MCLength
  Chunks <- MCChunks
  MinChunks = 3
  LowSignal = {shell, full}
  CopyForms <- MCCopyForms
  Aliases <- MCAliases
  Disposed = {policy}
  MaxAttempts = 2
  MaxPasses = 2
CHECK_DEADLOCK FALSE
INVARIANT RawKept
INVARIANT RecordedOnce
INVARIANT AcquiredIsBacked
PROPERTY WorkersFinish
