\* A project named like a directory of the template; nothing fails.
SPECIFICATION Spec
CONSTANTS
  Names = {"lib"}
  TemplateDirs = {"lib"}
  MbedFiles = {"kept.o", "dropped.o"}
  MbedOf <- MCMbedOf
  MaxVersion = 2
  MaxFailures = 0
  MaxEdits = 0
  MaxList = 2
  Absent = Absent
  Torn = Torn
  User = User
INVARIANT UpdateReachesClone
