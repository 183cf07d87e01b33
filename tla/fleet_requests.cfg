\* A message and a read over two connections.
SPECIFICATION FairSpec
CONSTANTS
  send = send
  read = read
  Calls = {send, read}
  OpOf <- Operations
  Capacity = 1
  MaxGeneration = 2
  MaxFaults = 1
INVARIANTS AtMostOnce Truthful
PROPERTIES OldLinkIsFenced Settles
CHECK_DEADLOCK FALSE
