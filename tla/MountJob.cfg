SPECIFICATION Spec
CONSTANTS
  s1 = s1
  s2 = s2
  c1 = c1
  c2 = c2
  j1 = j1
  j2 = j2
  Services <- MCServices
  Containers <- MCContainers
  Jobs <- MCJobs
  Creatable <- MCCreatable
  KeepBackups = 1
  MaxCrashes = 1
  MaxEdits = 1
  Unset = Unset
  Template = Template
  Garbled = Garbled
  Absent = Absent
  NoBackup = NoBackup
  NoStep = NoStep
  NoJob = NoJob
  Outsider = Outsider
INVARIANTS
  OneActiveJob
  RestorePossible
  NoHalfChange
SYMMETRY Symmetry
CHECK_DEADLOCK FALSE
