\* The instance of MCSecureChannel.cfg.
CONSTANTS
  OFP_VERSION = 4
  Room = 1
  LastAge = 2
  Datapath = "dp"
  Version <- Versions
  Settings <- Lines
  Iterations = 2
  MaxFaults = 1
  MaxSends = 1
  MaxTxq = 1
SPECIFICATION Spec
INVARIANT ConnectionsWatched
