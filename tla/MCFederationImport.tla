-------------------------- MODULE MCFederationImport --------------------------
(* A small instance of FederationImport: two results that share a blob, and *)
(* one of an untrusted producer.                                            *)
EXTENDS FederationImport, TLC

CONSTANTS x, y

MCBlobsOf == 1 :> {x} @@ 2 :> {x, y} @@ 3 :> {y}
MCDrift == {-2, 0}
MCVerdict == 1 :> "ok" @@ 2 :> "ok" @@ 3 :> "producer_untrusted"
=============================================================================
