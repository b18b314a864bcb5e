\* Two profiles, two rules and two devices.
CONSTANTS
  Profiles = {p1, p2}
  Rules = {r1, r2}
  Names = {a, b}
  Editors = {e1, e2}
  None = None
  Bypass = Bypass
  MaxRevision = 5
SPECIFICATION StoreSpec
INVARIANTS NoDangling SeenAtRevision StaleNeverWins
SYMMETRY Symmetry
CHECK_DEADLOCK FALSE
