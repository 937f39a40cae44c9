\* Two boards, two revisions of the sources, in one or two files.
SPECIFICATION Spec
CONSTANTS
  Targets = {"F303K8", "F401RE"}
  Sources = {s1, s2}
  MaxRev = 1
  MaxMounts = 2
  None = None
  Torn = Torn
SYMMETRY SourceNames
INVARIANTS TypeOK RightImage UploadDelivers AbsentSaidTruly NoLeakOnSuccess
