\* One message in flight each way, one from the peers in a second, and one fault;
\* ages up to the longest interval of a command line.
CONSTANTS
  OFP_VERSION = 4
  Room = 1
  LastAge = 2
  Datapath = "dp"
  Version <- Versions
  Settings <- Lines
  Iterations = 2
  MaxFaults = 1
  MaxSends = 1
  MaxTxq = 1
SPECIFICATION Spec
INVARIANT QueuedExact
PROPERTIES Reconnects RelayDrains
CHECK_DEADLOCK TRUE
