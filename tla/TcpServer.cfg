\* Up to two sub-loops share two connections and the server is destroyed at any
\* point, or another thread uses a connection.
SPECIFICATION FairSpec
CONSTANTS
  Main = main
  s1 = s1
  s2 = s2
  Nobody = nobody
  SubLoops <- TwoSubLoops
  Users = {u1}
  MaxConns = 2
  Loads <- ServerLoads
  highWaterMark_ = 100
CHECK_DEADLOCK FALSE
INVARIANTS ChannelLeftPoller ServedUntilClosed UpDownInTurn
PROPERTIES ClosedIsReleased TeardownEnds
