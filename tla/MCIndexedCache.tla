--------------------------- MODULE MCIndexedCache ---------------------------
(* Two processes sharing two keys of one namespace.                        *)
EXTENDS IndexedCache, TLC

CONSTANTS c1, c2, k1, k2, n1, v1, v2

MCClient == {c1, c2}
MCKey == {k1, k2}
MCNamespace == {n1}
MCNsOf == (k1 :> n1) @@ (k2 :> n1)
MCVal == {v1, v2}

\* Processes and values are interchangeable; keys are not (NsOf names them).
Symmetry == Permutations(MCClient) \cup Permutations(MCVal)
=============================================================================
