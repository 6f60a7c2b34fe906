CONSTANTS
  Peers <- MCPeers
  Byzantine = {}
  RpcFailing = {}
  Laggards = {}
  n1 = n1
  n2 = n2
  n3 = n3
  EpochLength = 5
  Slot = 0
  MaxEpoch = 2
  NodeLimit = 1
  None = None
  ProposeMayFail = TRUE
SPECIFICATION Spec
SYMMETRY MCAllSymmetry
VIEW MCView
CHECK_DEADLOCK FALSE
INVARIANTS ProposalRetriedUntilRollover
