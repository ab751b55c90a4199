\* Two threads, three calls each, any mix of calls: missing keys, raising and
\* re-entering functions included.
SPECIFICATION FairSpec
CONSTANTS
  t1 = t1
  t2 = t2
  k1 = k1
  k2 = k2
  k3 = k3
  Threads = {t1, t2}
  NoThread = NoThread
  Keys = {k1, k2, k3}
  NoKey = NoKey
  Values = {0, 1, 2}
  Junk = Junk
  Missing = Missing
  True = True
  Raise = Raise
  Reenter = Reenter
  NoCall = NoCall
  Funs <- AnyFuns
  Calls <- AnyCalls
  Premade <- OneBox
  MaxCalls = 3
INVARIANTS
  TypeOK
  MutualExclusion
  NoWildRead
  OneNodePerKey
  LockLeftTaken
PROPERTIES
  ReturnsOrWedged
  AtomicBoxes
\* a taken lock or a dead process stops everybody
CHECK_DEADLOCK FALSE
