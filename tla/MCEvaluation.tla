---------------------------- MODULE MCEvaluation ----------------------------
(* An evaluation, and a revalidation that is run twice under one id.        *)
EXTENDS Evaluation, TLC

CONSTANTS e, v1, v2, first, second, u1

MCIdOf == e :> first @@ v1 :> second @@ v2 :> second
MCModeOf == e :> "evaluate" @@ v1 :> "revalidate" @@ v2 :> "revalidate"
MCUrls == <<u1>>
Symmetry == Permutations({v1, v2})
=============================================================================
