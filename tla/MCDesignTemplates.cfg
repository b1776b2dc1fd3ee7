SPECIFICATION Spec
CONSTANTS
  t1 = t1
  t2 = t2
  o1 = o1
  o2 = o2
  s1 = s1
  page = page
  none = none
  Templates = {t1, t2}
  Others = {o1, o2}
  SystemKeys = {s1}
  MaxRequests = 2
  MaxVersions = 3
  Faults = {}
SYMMETRY Symmetry
INVARIANTS
  DefaultsNeverFail
PROPERTIES
  SavedOnWhatWasShown
  ArchiveHolds
CHECK_DEADLOCK FALSE
