CONSTANTS
  Servers = {s1, s2}
  None = None
  MaxRetries = 4
  ConfigMaxRetries = 4
  MaxTokens = 2
  MaxCalls = 2
SPECIFICATION Spec
INVARIANTS RequestsCarryCallerTensor
