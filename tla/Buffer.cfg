\* The sizes are scaled down so that every branch of makeSpace and readFd is taken.
SPECIFICATION Spec
CONSTANTS
  Byte = {z, o}
  Zero = z
  kCheapPrepend = 1
  kInitialSize = 2
  ExtraBuf = 2
  MaxLen = 3
  MaxReadable = 4
PROPERTY ByteFifo
