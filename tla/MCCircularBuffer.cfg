\* main and two handlers, one of which preempts the other; the largest buffer
\* that the counter type admits: BufferSize = CounterRange - 1.
SPECIFICATION FairSpec
CONSTANTS
  MaxPriority = 2
  Data = {d1, d2}
  BufferSize = 2
  CounterRange = 3
  NoCall = NoCall
  Nothing = Nothing
INVARIANTS TypeOK QueueInv SectionInv
PROPERTIES ActsAsFifo InterruptsComeBack
