\* Two variables, a function of each kind, and a stack that holds no zeros.
SPECIFICATION Spec
CONSTANTS
  Variables = {"a", "b"}
  Functions <- SomeFunctions
  Junk = {9}
INVARIANTS TypeOK LifetimesRespected HandlerCallsWhole
PROPERTIES ActsAsValues
