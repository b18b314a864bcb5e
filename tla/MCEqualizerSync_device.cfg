\* Profiles and the default, edited on the device and elsewhere.
CONSTANTS
  Profiles = {p1, p2}
  Rules = {}
  Names = {a, b}
  Editors = {}
  None = None
  Bypass = Bypass
  MaxRevision = 0
  Mine = {p1}
  UserKinds = {"create profile", "update profile", "delete profile", "default"}
  OtherKinds = {"update profile", "delete profile"}
  MaxEdits = 3
  MaxOthers = 1
  MaxFaults = 2
  MaxResolves = 1
SPECIFICATION SyncSpec
INVARIANTS EditsAccountedFor  DependentsSetAside
PROPERTY Converges
