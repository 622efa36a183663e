SPECIFICATION Spec
CONSTANTS
  a = a
  b = b
  c = c
  bad = bad
  peer1 = peer1
  peer2 = peer2
  n1 = n1
  n2 = n2
  Handler = {h1, h2}
  Request = {a, b, c, bad}
  None = None
  Peer = {peer1, peer2}
  Nonce = {n1, n2}
  PeerOf <- MCPeerOf
  NonceOf <- MCNonceOf
  SignedAt <- MCSignedAt
  Authentic = {a}
  MaxAge = 2
  MaxSkew = 1
  MaxNonces = 2
  MaxRequests = 2
  Window = 2
  MaxTime = 4
INVARIANT
  NonceOnceInWindow
