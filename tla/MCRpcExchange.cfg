\* One client, a relaying servicer and an honest one; the stubs as
\* MathProtocol.get_stub builds them.
CONSTANTS
  Clients = {c1}
  Servicers = {s1, s2}
  Relays = {s1}
  Nonces = {n1, n2}
  MaxTime = 3
  None = None
SPECIFICATION Spec
INVARIANT RequestBoundToServicer
