\* Two names, one of them also a directory of the template.
SPECIFICATION Spec
CONSTANTS
  Names = {"app", "lib"}
  TemplateDirs = {"lib"}
  MbedFiles = {"kept.o", "dropped.o"}
  MbedOf <- MCMbedOf
  MaxVersion = 2
  MaxFailures = 1
  MaxEdits = 0
  MaxList = 2
  Absent = Absent
  Torn = Torn
  User = User
INVARIANTS AbortAllOrNothing ZeroMeansAllVisited
