\* A thread that sends and one that shuts down, against the loop thread.
\* Two-byte messages, so that a write can be partial; the mark is crossed.
CONSTANTS
  Senders = {u1}
  Closers = {u2}
  MaxMsgs = 3
  MsgLen = 2
  highWaterMark_ = 3
SPECIFICATION FairSpec
CHECK_DEADLOCK FALSE
INVARIANTS StreamIntact FinAfterAllBytes ChannelFollowsConnection
PROPERTIES ShutdownCompletes
