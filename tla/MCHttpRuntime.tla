--------------------------- MODULE MCHttpRuntime ---------------------------
(* Two threads of one process, a store of its own and one it shares.  The   *)
(* shared one holds a result that b produced at time 0, expired when the    *)
(* process starts, and x, whom nobody trusts, vouches for it.               *)
EXTENDS HttpRuntime

CONSTANTS r1, r2, v1, v2, a, b, x

MCRequest == {r1, r2}
MCVersion == {v1, v2}
MCProducer == {a, b, x}
MCOutside == {x}
MCStores == <<"local", "shared">>
\* r1 asks for a longer TTL than any policy grants.
MCCaller ==
  [r \in MCRequest |-> IF r = r1 THEN [producer |-> a, ttl |-> 9]
                       ELSE [producer |-> b, ttl |-> 1]]
MCPreloaded == {[tier |-> "shared", by |-> b, until |-> 1]}
MCVouched == {[tier |-> "shared", by |-> x, until |-> MaxTime]}

Entry(mode, stale, tiers, trusted) ==
  [mode |-> mode, ttl |-> 1, stale |-> stale, tiers |-> tiers,
   results |-> trusted, validations |-> trusted]
MCPolicies ==
  [r \in MCRequest |->
     IF r = r1 THEN {Entry("swr", 1, {"local", "shared"}, {a, b})}
     ELSE {Entry("swr", 2, {"shared"}, {b}),
           Entry("conditional", 0, {"local", "shared"}, {a, b}),
           Entry("shadow", 0, {}, {a, b})}]
=============================================================================
