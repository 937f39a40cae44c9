\* A target that configures and one that does not.
SPECIFICATION Spec
CONSTANTS
  Targets = {"F401RE", "F746ZG"}
  Sources = {s1, s2}
  MaxRev = 1
  MaxMounts = 1
  None = None
  Torn = Torn
INVARIANT DmakeReportsFailure
