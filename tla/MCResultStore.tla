--------------------------- MODULE MCResultStore ---------------------------
(* A small lineage graph: d derives from m and from the source s, and m     *)
(* derives from s; e, of the same action as d, derives from m alone; o is   *)
(* an old result of that action, without lineage.                           *)
EXTENDS ResultStore, TLC

CONSTANTS d, e, m, o, s, derive, other

MCActionOf == [r \in Result |-> IF r \in {d, e, o} THEN derive ELSE other]
MCDepsOf ==
  [r \in Result |-> Result \cap
     (IF r = d THEN {m, s} ELSE IF r = e THEN {m} ELSE IF r = m THEN {s} ELSE {})]
MCBlobsOf == [r \in Result |-> {r}]
MCLineage == Result \ {o, s}
\* d at a whole second, e later in the same second; the others are older.
MCProducedAt ==
  [r \in Result |-> IF r = d THEN 2 ELSE IF r = e THEN 3 ELSE 1]
\* s expires, m does not.
MCFreshUntil ==
  [r \in Result |-> IF r = s THEN 0 ELSE IF r = m THEN NoExpiry ELSE MaxTime]
\* The last store was filled earlier, but for m; d goes into the first one.
MCSeed == [t \in Tier |-> IF t = NumTiers THEN {e, o, s} ELSE {}]
MCPublishable == {<<d, 1>>, <<m, NumTiers>>}
\* The result below everything else is judged.
MCRecordable == {<<s, NumTiers>>}
=============================================================================
