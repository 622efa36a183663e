------------------------- MODULE MCFederationServer -------------------------
(* A small instance of FederationServer: two peers that use the same nonce, *)
(* a peer with two nonces, and a request whose signature does not verify.   *)
EXTENDS FederationServer, TLC

CONSTANTS a, b, c, bad, peer1, peer2, n1, n2

MCPeerOf == a :> peer1 @@ b :> peer1 @@ c :> peer2 @@ bad :> peer1
MCNonceOf == a :> n1 @@ b :> n2 @@ c :> n1 @@ bad :> n1
MCSignedAt == a :> 2 @@ b :> 0 @@ c :> 3 @@ bad :> 1
=============================================================================
