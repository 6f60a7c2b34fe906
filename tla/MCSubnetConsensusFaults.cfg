CONSTANTS
  Peers <- MCPeers
  Byzantine = {}
  RpcFailing <- MCPeers
  Laggards <- MCLaggards
  n1 = n1
  n2 = n2
  n3 = n3
  EpochLength = 5
  Slot = 0
  MaxEpoch = 2
  NodeLimit = 1
  None = None
  ProposeMayFail = TRUE
SPECIFICATION Spec
SYMMETRY MCFaultSymmetry
VIEW MCView
CHECK_DEADLOCK FALSE
INVARIANTS ScoreAgreement
PROPERTIES NoCommitAfterReveal
