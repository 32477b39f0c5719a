\* One browser with two tabs, a purge younger than the session, one restart.
SPECIFICATION Spec
CONSTANTS
  b1 = b1
  t1 = t1
  t2 = t2
  Browser = {b1}
  Tab = {t1, t2}
  JarOf <- OneJar
  Feature = {"address"}
  Displayed <- Shown
  FactorPercent = 100
  SessionTTL = 2
  Retention = 0
  Window = 1
  LoginLimit = 2
  MaxClock = 2
  MaxGuests = 2
  MaxSessions = 2
  MaxRequests = 4
  MaxRestarts = 1
INVARIANTS GrantsWithinLimit NoOrphans LoggedOutStaysOut
SYMMETRY Symmetry
CHECK_DEADLOCK FALSE
