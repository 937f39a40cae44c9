\* One project, two failures.
SPECIFICATION LifeSpec
CONSTANTS
  Names = {"app"}
  TemplateDirs = {}
  MbedFiles = {"dropped.o", "added.o", "libmbed.a"}
  MbedOf <- MCMbedOf
  Project <- MCProject
  Objects = {"dropped.o", "added.o"}
  Library = "libmbed.a"
  MaxVersion = 2
  MaxFailures = 2
  MaxEdits = 0
  MaxList = 1
  Absent = Absent
  Torn = Torn
  User = User
INVARIANTS ImageUpdated NoLeftovers ObjectsFound
