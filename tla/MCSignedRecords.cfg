\* A writer p1 and a peer p2 that replays and forges its records, one epoch
\* of 5 blocks (every phase window), the heartbeat limit 2 standing for 100.
CONSTANTS
  Peers <- MCPeers
  Writers <- MCWriters
  p1 = p1
  p2 = p2
  EpochLength = 5
  Slot = 3
  MaxEpoch = 0
  NodeLimit = 2
  None = None
SPECIFICATION Spec
VIEW MCView
INVARIANTS TypeOK StoreQuota
PROPERTIES PhaseOrder OwnerOnlyWrites
