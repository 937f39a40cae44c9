\* Three threads, two pins.
SPECIFICATION Spec
CONSTANTS
  Threads = {t1, t2, t3}
  Pins = {p1, p2}
  NoThread = NoThread
  NoPin = NoPin
INVARIANTS BuiltOnce UsesBuilt ReadsOwnPin
PROPERTY UsesReturn
