CONSTANTS
  Peers <- MCPeers
  Byzantine <- MCByzantine
  n1 = n1
  n2 = n2
  n3 = n3
  EpochLength = 5
  Slot = 0
  MaxEpoch = 2
  NodeLimit = 1
  None = None
  ProposeMayFail = TRUE
  RpcFailing = {}
  Laggards = {}
SPECIFICATION Spec
SYMMETRY MCSymmetry
VIEW MCView
CHECK_DEADLOCK FALSE
INVARIANTS TypeOK ScoreAgreement AttestedProposalsAgreed
PROPERTIES NoCommitAfterReveal
