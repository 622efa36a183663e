-------------------------- MODULE MCExecutionCache --------------------------
(* Two processes, two namespaces with a key each.                           *)
EXTENDS ExecutionCache, TLC

CONSTANTS c1, c2, k1, k2, n1, n2

MCClient == {c1, c2}
MCKey == {k1, k2}
MCNamespace == {n1, n2}
MCNsOf == (k1 :> n1) @@ (k2 :> n2)

\* Processes are interchangeable; swapping keys swaps their namespaces too.
Symmetry == Permutations(MCClient)
=============================================================================
