CONSTANTS
  p1 = p1
  p2 = p2
  m1 = m1
  m2 = m2
  Peers <- MCPeers
  Nonces <- MCNonces
  ClockSkew = 2
  MaxTime = 7
  ChainFaults = TRUE
SPECIFICATION Spec
SYMMETRY MCSymmetry
INVARIANTS TypeOK
PROPERTIES FailureCooldownHonoured ImplementsStakeGatedAdmission
