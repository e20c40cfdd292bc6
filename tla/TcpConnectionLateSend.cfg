\* One thread sends and then shuts down while the peer closes.
CONSTANTS
  Senders = {u1}
  Closers = {u1}
  MaxMsgs = 1
  MsgLen = 2
  highWaterMark_ = 3
SPECIFICATION FairSpec
CHECK_DEADLOCK FALSE
PROPERTIES
  NoSendAfterClose
