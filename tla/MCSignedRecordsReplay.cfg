\* A writer p1 and a peer p2 that replays its records, one epoch of 5 blocks.
CONSTANTS
  Peers <- MCPeers
  Writers <- MCWriters
  p1 = p1
  p2 = p2
  EpochLength = 5
  Slot = 3
  MaxEpoch = 0
  NodeLimit = 2
  None = None
SPECIFICATION Spec
INVARIANT ReplayIdempotent
