\* One project, two failures, two edits.
SPECIFICATION Spec
CONSTANTS
  Names = {"app"}
  TemplateDirs = {}
  MbedFiles = {"kept.o", "dropped.o"}
  MbedOf <- MCMbedOf
  MaxVersion = 2
  MaxFailures = 2
  MaxEdits = 2
  MaxList = 1
  Absent = Absent
  Torn = Torn
  User = User
INVARIANTS TypeOK CleanRunDelivers CleanRunInv
PROPERTY UserFilesKept
