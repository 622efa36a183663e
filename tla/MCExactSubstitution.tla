------------------------ MODULE MCExactSubstitution ------------------------
(* Values for ExactSubstitution: two tiers, two partitions, a policy file  *)
(* that asks for receipts and for a tier or for partitions, and a key      *)
(* registry in which one key is revoked or which cannot be read.           *)
EXTENDS ExactSubstitution, TLC

CONSTANTS near, far, a0, a1, tenant, none, us, them, k1, k2

MCStores == <<near, far>>
MCPartitionOf == (a0 :> none) @@ (a1 :> tenant)

Exact == [wellformed |-> TRUE, enabled |-> TRUE, mode |-> "exact-substitute",
          producers |-> Producers, tiers |-> Tiers, ttl |-> 1,
          receipts |-> "optional", keys |-> Keys, partition |-> "public",
          stale |-> 0]
Required == [Exact EXCEPT !.receipts = "required"]

\* One tier allowed, or partitions asked for and one key trusted.
MCDocuments ==
    {[Required EXCEPT !.tiers = {far}],
     [Required EXCEPT !.partition = "required", !.keys = {k2}]}

\* One key revoked, or a file that does not parse.
Registered == [wellformed |-> TRUE,
               status |-> [k \in Keys |-> IF k = k1 THEN "revoked" ELSE "active"],
               producers |-> [k \in Keys |-> Producers]]

MCRegistries == {Registered, [Registered EXCEPT !.wellformed = FALSE]}

MCStrangers ==
    {[result |-> [action |-> a0, producer |-> us, at |-> 0, until |-> Freshness],
      producer |-> us, key |-> NoKey, genuine |-> FALSE]}
=============================================================================
