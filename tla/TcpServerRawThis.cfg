\* send() in another thread, which then lets go of a connection that has closed.
SPECIFICATION Spec
CONSTANTS
  Main = main
  s1 = s1
  s2 = s2
  Nobody = nobody
  SubLoops <- TwoSubLoops
  Users = {u1}
  MaxConns = 2
  Loads <- UserLoads
  highWaterMark_ = 100
CHECK_DEADLOCK FALSE
INVARIANT NoUseAfterFree
