------------------------- MODULE ResultStoreProofs -------------------------
(***************************************************************************)
(* Theorems about ResultStore, for any manifests, any dependency graph,    *)
(* any number of stores and publishers and any limits.                     *)
(*                                                                         *)
(* IndexInv adds to IndexResolves what a publication under way has already *)
(* written.  WalkInv says what the traversal has established: of the       *)
(* evaluations that returned (checked), of the callers on the stack, and   *)
(* of the call in progress, by how far it has come.  At a hit the checked  *)
(* results and the root form a set closed under dependencies, so it holds  *)
(* the root's closure: no induction over the graph is needed.              *)
(*                                                                         *)
(* That nothing is missed rests on PathInv and DueInv.  PathInv follows    *)
(* the traversal down the graph: the calls are a chain of dependencies     *)
(* without a repetition, no deeper than allowed, and every edge counted    *)
(* ends a chain of its own, so that whichever limit refuses a candidate,   *)
(* its graph exceeds it.  DueInv follows a complete result through the     *)
(* order of the stores: it is ahead of the lookup, or there is a reason to *)
(* refuse it, which no later step takes away.                              *)
(*                                                                         *)
(* Last, a measure of what a lookup has before it, which each of its steps *)
(* makes smaller.                                                          *)
(***************************************************************************)
EXTENDS ResultStore, FiniteSetTheorems, TLAPS

-----------------------------------------------------------------------------
(* Type correctness.                                                        *)

LEMMA Pop ==
  ASSUME NEW S, NEW s \in Seq(S), Len(s) \in Nat, Len(s) > 1
  PROVE  /\ SubSeq(s, 1, Len(s) - 1) \in Seq(S)
         /\ Len(SubSeq(s, 1, Len(s) - 1)) = Len(s) - 1
         /\ \A i \in 1 .. Len(s) - 1 : SubSeq(s, 1, Len(s) - 1)[i] = s[i]
  OBVIOUS

\* _evaluate is running, or has just returned the hit.
Evaluating == {"visit", "fresh", "blobs", "deps", "locate", "hit"}

\* While candidates are tried there is a store, and a call while evaluating.
Shape ==
  /\ pc \in Evaluating \cup {"pick"} => tier <= NumTiers
  /\ pc \in Evaluating => Len(stack) >= 1

TypeInv == TypeOK /\ Shape

LEMMA InitType == Init => TypeInv
  <1> SUFFICES ASSUME Init PROVE TypeInv
    OBVIOUS
  <1>1. blobs \in [Tier -> SUBSET Blob]
    BY ManifestAssumption, PolicyAssumption DEF Init
  <1>2. stack \in Seq(Frame)
    BY DEF Init
  <1>3. QED
    BY <1>1, <1>2, ManifestAssumption, PolicyAssumption
    DEF Init, TypeInv, Shape, Evaluating, TypeOK, NoPublication, NoQuery, Location

\* Steps of publishers and recorders leave the lookup alone.
LEMMA EnvironmentType ==
  TypeInv /\ (Publishing \/ Recording \/ Tick) => TypeInv'
  <1> SUFFICES ASSUME TypeInv, Publishing \/ Recording \/ Tick PROVE TypeInv'
    OBVIOUS
  <1> USE ManifestAssumption, PolicyAssumption DEF TypeInv, Shape, TypeOK, lookup, stores, walk, history
  <1>1. ASSUME NEW p \in Publisher, NEW r \in Result, NEW t \in Tier,
               PublishResult(p, r, t)
        PROVE  TypeInv'
    BY <1>1 DEF PublishResult, Publication
  <1>2. ASSUME NEW p \in Publisher, PutBlob(p) PROVE TypeInv'
    <2>1. pub[p] \in Publication
      BY <1>2 DEF PutBlob, NoPublication
    <2>2. PICK b \in pub[p].todo : /\ blobs' = [blobs EXCEPT ![pub[p].tier] = @ \cup {b}]
                                   /\ pub' = [pub EXCEPT ![p].todo = @ \ {b}]
      BY <1>2 DEF PutBlob
    <2>3. pub' \in [Publisher -> Publication \cup {NoPublication}]
      BY <2>1, <2>2 DEF Publication
    <2>4. blobs' \in [Tier -> SUBSET Blob]
      BY <2>1, <2>2 DEF Publication
    <2>5. QED
      BY <1>2, <2>3, <2>4 DEF PutBlob
  <1>3. ASSUME NEW p \in Publisher, PutResult(p) PROVE TypeInv'
    <2>1. pub[p] \in Publication
      BY <1>3 DEF PutResult, NoPublication
    <2>2. pub' \in [Publisher -> Publication \cup {NoPublication}]
      BY <1>3, <2>1 DEF PutResult, Publication
    <2>3. byDigest' \in [Tier -> SUBSET Result]
      BY <1>3, <2>1 DEF PutResult, Publication
    <2>4. QED
      BY <1>3, <2>2, <2>3 DEF PutResult
  <1>4. ASSUME NEW p \in Publisher, PutAction(p) PROVE TypeInv'
    <2>1. pub[p] \in Publication
      BY <1>4 DEF PutAction, NoPublication
    <2>2. QED
      BY <1>4, <2>1 DEF PutAction, Publication
  <1>5. ASSUME NEW p \in Publisher, Abandon(p) PROVE TypeInv'
    BY <1>5 DEF Abandon
  <1>6. CASE Recording
    <2>1. PICK t \in Tier, r \in Result, at \in 0 .. MaxTime, trusted \in BOOLEAN :
            \/ PutValidation(t, [res |-> r, until |-> at, trusted |-> trusted])
            \/ PutInvalidation(t, [res |-> r, at |-> at, trusted |-> trusted])
      BY <1>6 DEF Recording
    <2>2. [res |-> r, until |-> at, trusted |-> trusted] \in Validation
      BY DEF Validation
    <2>3. [res |-> r, at |-> at, trusted |-> trusted] \in Invalidation
      BY DEF Invalidation
    <2>4. CASE PutValidation(t, [res |-> r, until |-> at, trusted |-> trusted])
      <3>1. valid' \in [Tier -> SUBSET Validation]
        BY <2>2, <2>4 DEF PutValidation
      <3>2. QED
        BY <2>4, <3>1 DEF PutValidation
    <2>5. CASE PutInvalidation(t, [res |-> r, at |-> at, trusted |-> trusted])
      <3>1. invalid' \in [Tier -> SUBSET Invalidation]
        BY <2>3, <2>5 DEF PutInvalidation
      <3>2. QED
        BY <2>5, <3>1 DEF PutInvalidation
    <2>6. QED
      BY <2>1, <2>4, <2>5
  <1>7. CASE Tick
    BY <1>7 DEF Tick
  <1>8. QED
    BY <1>1, <1>2, <1>3, <1>4, <1>5, <1>6, <1>7 DEF Publishing

LEMMA Replace ==
  ASSUME NEW S, NEW s \in Seq(S), NEW i \in 1 .. Len(s), NEW x \in S
  PROVE  /\ [s EXCEPT ![i] = x] \in Seq(S)
         /\ Len([s EXCEPT ![i] = x]) = Len(s)
         /\ [s EXCEPT ![i] = x][i] = x
         /\ \A j \in 1 .. Len(s) : j # i => [s EXCEPT ![i] = x][j] = s[j]
  OBVIOUS

LEMMA Push ==
  ASSUME NEW S, NEW s \in Seq(S), NEW x \in S
  PROVE  /\ Append(s, x) \in Seq(S)
         /\ Len(Append(s, x)) = Len(s) + 1
         /\ Append(s, x)[Len(s) + 1] = x
         /\ \A j \in 1 .. Len(s) : Append(s, x)[j] = s[j]
  OBVIOUS

\* The call in progress.
LEMMA TopFrame ==
  ASSUME TypeInv, pc \in Evaluating
  PROVE  /\ stack \in Seq(Frame) /\ Len(stack) \in Nat /\ Len(stack) >= 1
         /\ Len(stack) \in 1 .. Len(stack)
         /\ \A i \in 1 .. Len(stack) :
              stack[i].res \in Result /\ stack[i].tier \in Tier
         /\ top \in Frame /\ top.res \in Result /\ top.tier \in Tier
         /\ top.todo \subseteq Result
  <1>1. stack \in Seq(Frame) /\ Len(stack) >= 1
    BY DEF TypeInv, TypeOK, Shape
  <1>2. Len(stack) \in Nat /\ Len(stack) \in 1 .. Len(stack)
    BY <1>1
  <1>3. \A i \in 1 .. Len(stack) : stack[i] \in Frame
    BY <1>1
  <1>4. top \in Frame
    BY <1>2, <1>3 DEF top
  <1>5. QED
    BY <1>1, <1>2, <1>3, <1>4 DEF Frame

LEMMA FrameExcept ==
  ASSUME NEW f \in Frame, NEW todo
  PROVE  [f EXCEPT !.todo = todo] = [res |-> f.res, tier |-> f.tier, todo |-> todo]
  BY DEF Frame

LEMMA PushFrame ==
  ASSUME TypeInv, pc \in Evaluating, NEW f \in Frame
  PROVE  /\ Append(stack, f) \in Seq(Frame)
         /\ Len(Append(stack, f)) = Len(stack) + 1
         /\ Append(stack, f)[Len(stack) + 1] = f
         /\ \A j \in 1 .. Len(stack) : Append(stack, f)[j] = stack[j]
  BY TopFrame, Push

LEMMA PopFrame ==
  ASSUME TypeInv, pc \in Evaluating, depth # 0
  PROVE  /\ depth \in Nat /\ depth = Len(stack) - 1 /\ Len(stack) > 1
         /\ SubSeq(stack, 1, depth) \in Seq(Frame)
         /\ Len(SubSeq(stack, 1, depth)) = Len(stack) - 1
         /\ \A i \in 1 .. Len(stack) - 1 : SubSeq(stack, 1, depth)[i] = stack[i]
  <1>1. stack \in Seq(Frame) /\ Len(stack) \in Nat /\ Len(stack) >= 1
    BY TopFrame
  <1>a. \A n \in Nat : n >= 1 /\ n - 1 # 0 => n > 1 /\ n - 1 \in Nat
    OBVIOUS
  <1>2. Len(stack) > 1 /\ depth \in Nat
    BY <1>1, <1>a DEF depth
  <1>3. QED
    BY <1>1, <1>2, Pop DEF depth

\* What Descend does to the call in progress.
LEMMA TakeDependency ==
  ASSUME TypeInv, pc \in Evaluating, NEW d,
         stack' = [stack EXCEPT ![Len(stack)].todo = @ \ {d}]
  PROVE  /\ stack' \in Seq(Frame) /\ Len(stack') = Len(stack)
         /\ stack'[Len(stack)] =
              [res |-> top.res, tier |-> top.tier, todo |-> top.todo \ {d}]
         /\ \A j \in 1 .. Len(stack) - 1 : stack'[j] = stack[j]
  <1> DEFINE f == [res |-> top.res, tier |-> top.tier, todo |-> top.todo \ {d}]
  <1>1. f \in Frame
    BY TopFrame DEF Frame
  <1>2. [top EXCEPT !.todo = @ \ {d}] = f
    BY TopFrame, FrameExcept
  <1>3. stack' = [stack EXCEPT ![Len(stack)] = f]
    BY <1>2 DEF top
  <1> HIDE DEF f
  <1>4. stack \in Seq(Frame) /\ Len(stack) \in 1 .. Len(stack)
    BY TopFrame
  <1>5. PICK n \in 1 .. Len(stack) : n = Len(stack)
    BY <1>4
  <1> DEFINE new == [stack EXCEPT ![n] = f]
  <1>6. /\ new \in Seq(Frame) /\ Len(new) = Len(stack) /\ new[n] = f
        /\ \A j \in 1 .. Len(stack) : j # n => new[j] = stack[j]
    BY <1>1, <1>4, Replace
  <1>7. stack' = new
    BY <1>3, <1>5
  <1> HIDE DEF new
  <1>8. stack'[Len(stack)] = f
    BY <1>5, <1>6, <1>7
  <1>9. ASSUME NEW j \in 1 .. Len(stack) - 1 PROVE stack'[j] = stack[j]
    <2>1. Len(stack) \in Nat
      BY TopFrame
    <2>2. j \in 1 .. Len(stack) /\ j # n
      BY <1>5, <2>1
    <2>3. QED
      BY <1>6, <1>7, <2>2
  <1>10. QED
    BY <1>6, <1>7, <1>8, <1>9 DEF f

LEMMA LookupType ==
  ASSUME TypeInv,
         \/ \E a \in Action, lax \in LaxModes, strict \in StrictModes : Start(a, lax, strict)
         \/ Looking
  PROVE  TypeInv'
  <1> USE ManifestAssumption, PolicyAssumption
      DEF TypeInv, Shape, Evaluating, TypeOK, lookup, stores, walk, history, Location
  <1>0. ASSUME pc \in Evaluating, Reject PROVE TypeInv'
    BY <1>0 DEF Reject
  <1>1. ASSUME NEW a \in Action, NEW lax \in LaxModes, NEW strict \in StrictModes,
               Start(a, lax, strict)
        PROVE  TypeInv'
    BY <1>1 DEF Start, Query
  <1>2. CASE Scan
    <2>1. tier \in Tier
      BY <1>2 DEF Scan, Tier
    <2>2. {r \in byAction[tier] : ActionOf[r] = query.action} \subseteq Result
      BY <2>1
    <2>3. QED
      BY <1>2, <2>1, <2>2 DEF Scan
  <1>3. CASE Pick
    <2>1. PICK r \in First(cands) :
            /\ cands' = cands \ {r}
            /\ stack' = <<[res |-> r, tier |-> tier, todo |-> DepsOf[r]]>>
      BY <1>3 DEF Pick
    <2>2. r \in Result /\ tier \in Tier
      BY <1>3, <2>1 DEF First, Pick, Tier
    <2>3. [res |-> r, tier |-> tier, todo |-> DepsOf[r]] \in Frame
      BY <2>2 DEF Frame
    <2>4. stack' \in Seq(Frame) /\ Len(stack') >= 1
      BY <2>1, <2>3
    <2>5. QED
      BY <1>3, <2>1, <2>4 DEF Pick
  <1>4. CASE NextTier
    BY <1>4 DEF NextTier
  <1>5. CASE Visit
    BY <1>0, <1>5 DEF Visit, Advance
  <1>6. CASE Freshness
    BY <1>0, <1>6 DEF Freshness, Advance
  <1>7. CASE Artifacts
    BY <1>0, <1>7 DEF Artifacts, Advance
  <1>8. CASE Descend
    <2>1. PICK d \in top.todo :
            IF edges + 1 > MaxEdges
            THEN Reject
            ELSE /\ pc' = "locate" /\ want' = {d}
                 /\ edges' = edges + 1
                 /\ stack' = [stack EXCEPT ![Len(stack)].todo = @ \ {d}]
                 /\ UNCHANGED <<stores, clock, pub, query, tier, cands, probe,
                                checked, known, due>>
      BY <1>8 DEF Descend
    <2>2. top \in Frame
      BY <1>8, TopFrame DEF Descend
    <2>3. CASE edges + 1 > MaxEdges
      BY <1>0, <1>8, <2>1, <2>3 DEF Descend
    <2>4. CASE ~ (edges + 1 > MaxEdges)
      <3>1. d \in Result
        BY <2>2 DEF Frame
      <3>2. stack' \in Seq(Frame) /\ Len(stack') = Len(stack)
        BY <1>8, <2>1, <2>4, TakeDependency DEF Descend
      <3>3. edges' \in 0 .. MaxEdges
        BY <2>1, <2>4
      <3>4. QED
        BY <1>8, <2>1, <2>4, <3>1, <3>2, <3>3 DEF Descend
    <2>5. QED
      BY <2>3, <2>4
  <1>9. CASE Locate
    <2>1. PICK d \in want :
            \/ /\ d \in byDigest[probe]
               /\ stack' = Append(stack, [res |-> d, tier |-> probe, todo |-> DepsOf[d]])
               /\ pc' = "visit" /\ want' = {} /\ probe' = 1
            \/ /\ d \notin byDigest[probe] \/ probe \in Flaky
               /\ probe' = probe + 1
               /\ UNCHANGED <<pc, stack, want>>
      BY <1>9 DEF Locate
    <2>2. probe \in Tier
      BY <1>9 DEF Locate, Tier
    <2>3. [res |-> d, tier |-> probe, todo |-> DepsOf[d]] \in Frame
      BY <2>2 DEF Frame
    <2>4. stack' \in Seq(Frame) /\ Len(stack') >= 1
      <3>1. Len(stack) \in Nat
        BY <1>9, TopFrame DEF Locate
      <3>2. CASE stack' = Append(stack, [res |-> d, tier |-> probe, todo |-> DepsOf[d]])
        BY <1>9, <2>3, <3>1, <3>2, PushFrame DEF Locate
      <3>3. CASE stack' = stack
        BY <1>9, <3>3 DEF Locate
      <3>4. QED
        BY <2>1, <3>2, <3>3
    <2>5. QED
      BY <1>9, <2>1, <2>4 DEF Locate
  <1>10. CASE NotLocated
    BY <1>0, <1>10 DEF NotLocated
  <1>11. CASE Ascend
    <2>1. CASE depth = 0
      BY <1>11, <2>1 DEF Ascend
    <2>2. CASE depth # 0
      <3>1. pc \in Evaluating /\ stack' = SubSeq(stack, 1, depth)
        BY <1>11, <2>2 DEF Ascend
      <3>2. Len(stack) \in Nat
        BY <3>1, TopFrame
      <3>3. stack' \in Seq(Frame) /\ Len(stack') >= 1
        BY <2>2, <3>1, <3>2, PopFrame
      <3>4. <<top.res, top.tier>> \in Result \X Tier
        BY <1>11, TopFrame DEF Ascend
      <3>5. QED
        BY <1>11, <2>2, <3>3, <3>4 DEF Ascend
    <2>3. QED
      BY <2>1, <2>2
  <1>12. CASE Exhausted
    BY <1>12 DEF Exhausted, Advance
  <1>13. CASE Return
    <2>1. stack' \in Seq(Frame)
      BY <1>13 DEF Return
    <2>2. QED
      BY <1>13, <2>1 DEF Return
  <1>14. QED
    BY <1>1, <1>2, <1>3, <1>4, <1>5, <1>6, <1>7, <1>8, <1>9, <1>10, <1>11,
       <1>12, <1>13 DEF Looking

LEMMA NextType == TypeInv /\ [Next]_vars => TypeInv'
  <1> SUFFICES ASSUME TypeInv, [Next]_vars PROVE TypeInv'
    OBVIOUS
  <1>1. CASE Next
    BY <1>1, EnvironmentType, LookupType DEF Next
  <1>2. CASE UNCHANGED vars
    BY <1>2 DEF vars, stores, lookup, walk, history, TypeInv, Shape, TypeOK
  <1>3. QED
    BY <1>1, <1>2

\* Every variable keeps its type: for any manifests, stores, publishers and
\* limits, no step of a publication or a lookup leaves TypeOK.
THEOREM TypeCorrect == Spec => []TypeOK
  <1>1. Spec => []TypeInv
    BY InitType, NextType, PTL DEF Spec
  <1>2. QED
    BY <1>1, PTL DEF TypeInv

-----------------------------------------------------------------------------
(* Publication.                                                             *)

\* Nothing leaves a store.
Grows ==
  \A t \in Tier : /\ blobs[t] \subseteq blobs'[t]
                  /\ byDigest[t] \subseteq byDigest'[t]
                  /\ byAction[t] \subseteq byAction'[t]
                  /\ valid[t] \subseteq valid'[t]
                  /\ invalid[t] \subseteq invalid'[t]

LEMMA Monotone == TypeInv /\ [Next]_vars => Grows
  <1> SUFFICES ASSUME TypeInv, [Next]_vars PROVE Grows
    OBVIOUS
  <1> USE DEF TypeInv, TypeOK, Grows, stores
  <1>1. CASE Publishing
    <2>1. PICK p \in Publisher :
            \/ \E r \in Result, t \in Tier : PublishResult(p, r, t)
            \/ PutBlob(p) \/ PutResult(p) \/ PutAction(p) \/ Abandon(p)
      BY <1>1 DEF Publishing
    <2>2. CASE PutBlob(p)
      BY <2>2 DEF PutBlob
    <2>3. CASE PutResult(p)
      BY <2>3 DEF PutResult
    <2>4. CASE PutAction(p)
      BY <2>4 DEF PutAction
    <2>5. QED
      BY <2>1, <2>2, <2>3, <2>4 DEF PublishResult, Abandon
  <1>2. CASE Recording
    BY <1>2 DEF Recording, PutValidation, PutInvalidation
  <1>3. CASE UNCHANGED stores
    BY <1>3
  <1>4. CASE \/ \E a \in Action, lax \in LaxModes, strict \in StrictModes : Start(a, lax, strict)
             \/ Looking \/ Tick \/ UNCHANGED vars
    <2>1. UNCHANGED stores
      BY <1>4 DEF Start, Looking, Tick, vars, Scan, Pick, NextTier, Visit, Freshness,
         Artifacts, Descend, Locate, NotLocated, Ascend, Exhausted, Return, Reject, Advance
    <2>2. QED
      BY <1>3, <2>1
  <1>5. QED
    BY <1>1, <1>2, <1>4 DEF Next

\* What a publication under way has written so far.
Written(p) ==
  /\ pub[p].st = "blobs" => BlobsOf[pub[p].res] \ pub[p].todo \subseteq blobs[pub[p].tier]
  /\ pub[p].st = "action" => Stored(pub[p].res, pub[p].tier)

WrittenSoFar == \A p \in Publisher : Written(p)

IndexInv == IndexResolves /\ WrittenSoFar

LEMMA InitIndex == Init => IndexInv
  <1> SUFFICES ASSUME Init PROVE IndexInv
    OBVIOUS
  <1>1. IndexResolves
    BY ManifestAssumption, PolicyAssumption DEF Init, IndexResolves, Stored
  <1>2. WrittenSoFar
    BY DEF Init, WrittenSoFar, Written, NoPublication
  <1>3. QED
    BY <1>1, <1>2 DEF IndexInv

LEMMA NextIndex == TypeInv /\ IndexInv /\ [Next]_vars => IndexInv'
  <1> SUFFICES ASSUME TypeInv, IndexInv, [Next]_vars PROVE IndexInv'
    OBVIOUS
  <1> USE ManifestAssumption
  <1>0. Grows
    BY Monotone
  <1>1. ASSUME NEW r \in Result, NEW t \in Tier, Stored(r, t) PROVE Stored(r, t)'
    BY <1>0, <1>1 DEF Grows, Stored
  <1>2. ASSUME UNCHANGED byAction PROVE IndexResolves'
    BY <1>1, <1>2 DEF IndexInv, IndexResolves, TypeInv, TypeOK
  <1>3. ASSUME NEW q \in Publisher, pub'[q] = pub[q] PROVE Written(q)'
    <2>1. pub[q].st \in {"blobs", "action"} => pub[q].res \in Result /\ pub[q].tier \in Tier
      BY DEF TypeInv, TypeOK, Publication, NoPublication
    <2>2. Written(q)
      BY DEF IndexInv, WrittenSoFar
    <2>3. QED
      BY <1>0, <1>3, <2>1, <2>2 DEF Written, Grows, Stored
  <1>4. ASSUME NEW p \in Publisher, Written(p)',
               \A q \in Publisher : q # p => pub'[q] = pub[q]
        PROVE  WrittenSoFar'
    BY <1>3, <1>4 DEF WrittenSoFar
  <1>5. ASSUME NEW p \in Publisher, NEW r \in Result, NEW t \in Tier, PublishResult(p, r, t)
        PROVE  IndexInv'
    <2>1. Written(p)' /\ (\A q \in Publisher : q # p => pub'[q] = pub[q])
      BY <1>5 DEF PublishResult, Written, TypeInv, TypeOK
    <2>2. QED
      BY <1>2, <1>4, <1>5, <2>1 DEF PublishResult, stores, IndexInv
  <1>6. ASSUME NEW p \in Publisher, PutBlob(p) PROVE IndexInv'
    <2>1. pub[p] \in Publication
      BY <1>6 DEF PutBlob, NoPublication, TypeInv, TypeOK
    <2>2. PICK b \in pub[p].todo : /\ blobs' = [blobs EXCEPT ![pub[p].tier] = @ \cup {b}]
                                   /\ pub' = [pub EXCEPT ![p].todo = @ \ {b}]
      BY <1>6 DEF PutBlob
    <2>3. pub[p].tier \in Tier /\ pub[p].res \in Result
      BY <2>1 DEF Publication
    <2>4. /\ pub'[p].res = pub[p].res /\ pub'[p].tier = pub[p].tier
          /\ pub'[p].st = "blobs" /\ pub'[p].todo = pub[p].todo \ {b}
      BY <1>6, <2>1, <2>2 DEF PutBlob, Publication, TypeInv, TypeOK
    <2>5. BlobsOf[pub[p].res] \ pub[p].todo \subseteq blobs[pub[p].tier]
      BY <1>6 DEF PutBlob, IndexInv, WrittenSoFar, Written
    <2>6. blobs'[pub[p].tier] = blobs[pub[p].tier] \cup {b}
      BY <2>2, <2>3 DEF TypeInv, TypeOK
    <2>7. Written(p)'
      BY <2>4, <2>5, <2>6 DEF Written
    <2>8. \A q \in Publisher : q # p => pub'[q] = pub[q]
      BY <2>2 DEF TypeInv, TypeOK
    <2>9. QED
      BY <1>2, <1>4, <1>6, <2>7, <2>8 DEF PutBlob, IndexInv
  <1>7. ASSUME NEW p \in Publisher, PutResult(p) PROVE IndexInv'
    <2>1. pub[p] \in Publication
      BY <1>7 DEF PutResult, NoPublication, TypeInv, TypeOK
    <2>2. pub[p].tier \in Tier /\ pub[p].res \in Result
      BY <2>1 DEF Publication
    <2>3. /\ pub'[p].res = pub[p].res /\ pub'[p].tier = pub[p].tier
          /\ pub'[p].st = "action"
      BY <1>7, <2>1 DEF PutResult, Publication, TypeInv, TypeOK
    <2>4. BlobsOf[pub[p].res] \subseteq blobs[pub[p].tier]
      BY <1>7 DEF PutResult, IndexInv, WrittenSoFar, Written
    <2>5. pub[p].res \in byDigest'[pub[p].tier]
      BY <1>7, <2>2 DEF PutResult, TypeInv, TypeOK
    <2>6. Written(p)'
      BY <1>7, <2>3, <2>4, <2>5 DEF PutResult, Written, Stored
    <2>7. \A q \in Publisher : q # p => pub'[q] = pub[q]
      BY <1>7 DEF PutResult, TypeInv, TypeOK
    <2>8. QED
      BY <1>2, <1>4, <1>7, <2>6, <2>7 DEF PutResult, IndexInv
  <1>8. ASSUME NEW p \in Publisher, PutAction(p) PROVE IndexInv'
    <2>1. pub[p] \in Publication
      BY <1>8 DEF PutAction, NoPublication, TypeInv, TypeOK
    <2>2. Stored(pub[p].res, pub[p].tier) /\ pub[p].tier \in Tier /\ pub[p].res \in Result
      BY <1>8, <2>1 DEF PutAction, IndexInv, WrittenSoFar, Written, Publication
    <2>3. IndexResolves'
      BY <1>8, <2>2 DEF PutAction, IndexInv, IndexResolves, Stored, TypeInv, TypeOK
    <2>4. Written(p)' /\ (\A q \in Publisher : q # p => pub'[q] = pub[q])
      BY <1>8 DEF PutAction, Written, NoPublication, TypeInv, TypeOK
    <2>5. QED
      BY <1>4, <2>3, <2>4 DEF IndexInv
  <1>9. ASSUME NEW p \in Publisher, Abandon(p) PROVE IndexInv'
    <2>1. Written(p)' /\ (\A q \in Publisher : q # p => pub'[q] = pub[q])
      BY <1>9 DEF Abandon, Written, NoPublication, TypeInv, TypeOK
    <2>2. QED
      BY <1>2, <1>4, <1>9, <2>1 DEF Abandon, stores, IndexInv
  <1>10. CASE \/ \E a \in Action, lax \in LaxModes, strict \in StrictModes : Start(a, lax, strict)
              \/ Looking \/ Recording \/ Tick \/ UNCHANGED vars
    <2>1. UNCHANGED byAction /\ UNCHANGED pub
      BY <1>10 DEF Start, Looking, Recording, PutValidation, PutInvalidation, Tick, vars, stores,
         Scan, Pick, NextTier, Visit, Freshness, Artifacts, Descend, Locate, NotLocated,
         Ascend, Exhausted, Return, Reject, Advance
    <2>2. WrittenSoFar'
      BY <1>3, <2>1 DEF WrittenSoFar
    <2>3. QED
      BY <1>2, <2>1, <2>2 DEF IndexInv
  <1>11. QED
    BY <1>5, <1>6, <1>7, <1>8, <1>9, <1>10 DEF Next, Publishing

LEMMA Foundation == Spec => [](TypeInv /\ IndexInv)
  <1>1. TypeInv /\ IndexInv /\ [Next]_vars => (TypeInv /\ IndexInv)'
    BY NextType, NextIndex
  <1>2. QED
    BY <1>1, InitType, InitIndex, PTL DEF Spec

\* The action index never names a result that cannot be resolved with its
\* artifacts in the same store, wherever a publication stops.
THEOREM IndexSound == Spec => []IndexResolves
  BY Foundation, PTL DEF IndexInv

-----------------------------------------------------------------------------
(* The traversal.                                                           *)

Cleared(f) ==
  /\ f.res \notin Distrusted
  /\ query.strict => f.res \in Lineage
  /\ ~ Invalidated(known[f.tier], f.res, query.now)
FreshFrame(f, i) ==
  (query.lax /\ i = 1) \/ FreshAt(valid[f.tier], f.res, query.now)
Whole(f) == BlobsOf[f.res] \subseteq blobs[f.tier]
CheckedResults == {c[1] : c \in checked}

\* Nothing is taken for known that is not on record, and no candidate for
\* indexed that is not; an idle lookup has checked nothing.
Grounded ==
  /\ \A t \in Tier : known[t] \subseteq invalid[t]
  /\ pc \in Evaluating \cup {"pick"} => cands \subseteq byAction[tier]
  /\ pc = "idle" => checked = {}
  /\ pc # "locate" => want = {}
  /\ \A x, y \in want : x = y

\* An evaluation that has returned success was right to, and so were those of
\* its dependencies.
ChecksHold ==
  \A c \in checked :
    /\ Admissible(c[1], c[2]) /\ FreshAt(valid[c[2]], c[1], query.now)
    /\ DepsOf[c[1]] \subseteq CheckedResults

\* Every call evaluates a manifest of its store.
AllLocated ==
  pc \in Evaluating =>
    \A i \in 1 .. Len(stack) : stack[i].res \in byDigest[stack[i].tier]

\* A caller has passed its own checks, and of its dependencies only the one
\* the next call evaluates is neither checked nor still to do.
Callers ==
  pc \in Evaluating =>
    \A i \in 1 .. Len(stack) - 1 :
      /\ Cleared(stack[i]) /\ FreshFrame(stack[i], i) /\ Whole(stack[i])
      /\ DepsOf[stack[i].res] \ stack[i].todo \subseteq CheckedResults \cup {stack[i + 1].res}

\* The call in progress has passed the checks before pc.
InProgress ==
  pc \in Evaluating =>
    /\ DepsOf[top.res] \ top.todo \subseteq CheckedResults \cup want
    /\ pc # "visit" => Cleared(top)
    /\ pc \notin {"visit", "fresh"} => FreshFrame(top, Len(stack))
    /\ pc \notin {"visit", "fresh", "blobs"} => Whole(top)
    /\ pc = "hit" => Len(stack) = 1 /\ top.todo = {}

WalkInv == Grounded /\ ChecksHold /\ AllLocated /\ Callers /\ InProgress

LEMMA InitWalk == Init => WalkInv
  <1> SUFFICES ASSUME Init PROVE WalkInv
    OBVIOUS
  <1>1. pc = "idle" /\ checked = {} /\ want = {} /\ known = invalid
    BY DEF Init
  <1>2. QED
    BY <1>1 DEF WalkInv, Grounded, ChecksHold, AllLocated, Callers, InProgress, Evaluating

\* Frames and checks stay good while the stores grow and the lookup rests.
LEMMA WalkStable ==
  ASSUME TypeInv, WalkInv, Grows, UNCHANGED lookup
  PROVE  WalkInv'
  <1>0. UNCHANGED <<pc, query, tier, cands, stack, edges, want, probe, checked, known, due>>
    BY DEF lookup, walk, history
  <1>1. tier <= NumTiers => tier \in Tier
    BY DEF TypeInv, TypeOK, Tier
  <1>2. Grounded'
    <2>1. \A t \in Tier : known'[t] \subseteq invalid'[t]
      BY <1>0 DEF WalkInv, Grounded, Grows
    <2>2. pc' \in Evaluating \cup {"pick"} => cands' \subseteq byAction'[tier']
      BY <1>0, <1>1 DEF WalkInv, Grounded, Grows, TypeInv, Shape
    <2>3. QED
      BY <1>0, <2>1, <2>2 DEF WalkInv, Grounded
  <1>3. ChecksHold'
    <2> SUFFICES ASSUME NEW c \in checked
                 PROVE  /\ Admissible(c[1], c[2])' /\ FreshAt(valid'[c[2]], c[1], query.now)
                        /\ DepsOf[c[1]] \subseteq CheckedResults
      BY <1>0 DEF ChecksHold, CheckedResults
    <2>1. c[1] \in Result /\ c[2] \in Tier
      BY DEF TypeInv, TypeOK
    <2>2. /\ Admissible(c[1], c[2]) /\ FreshAt(valid[c[2]], c[1], query.now)
          /\ DepsOf[c[1]] \subseteq CheckedResults
      BY DEF WalkInv, ChecksHold
    <2>3. Admissible(c[1], c[2])'
      BY <1>0, <2>1, <2>2 DEF Admissible, Stored, Grows
    <2>4. FreshAt(valid'[c[2]], c[1], query.now)
      BY <2>1, <2>2 DEF FreshAt, Validated, Grows
    <2>5. QED
      BY <2>2, <2>3, <2>4
  <1>4. CASE pc \notin Evaluating
    BY <1>0, <1>2, <1>3, <1>4 DEF WalkInv, AllLocated, Callers, InProgress
  <1>5. CASE pc \in Evaluating
    <2>1. \A i \in 1 .. Len(stack) : stack[i].res \in Result /\ stack[i].tier \in Tier
      BY <1>5, TopFrame
    <2>2. Len(stack) \in Nat /\ Len(stack) >= 1
      BY <1>5, TopFrame
    <2>3. AllLocated'
      BY <1>0, <1>5, <2>1 DEF WalkInv, AllLocated, Grows
    <2>4. Callers'
      <3> SUFFICES ASSUME NEW i \in 1 .. Len(stack) - 1
                   PROVE  /\ Cleared(stack[i])' /\ FreshFrame(stack[i], i)' /\ Whole(stack[i])'
                          /\ DepsOf[stack[i].res] \ stack[i].todo
                               \subseteq CheckedResults \cup {stack[i + 1].res}
        BY <1>0 DEF Callers, CheckedResults
      <3>1. i \in 1 .. Len(stack)
        BY <2>2
      <3>2. /\ Cleared(stack[i]) /\ FreshFrame(stack[i], i) /\ Whole(stack[i])
            /\ DepsOf[stack[i].res] \ stack[i].todo
                 \subseteq CheckedResults \cup {stack[i + 1].res}
        BY <1>5 DEF WalkInv, Callers
      <3>3. Cleared(stack[i])' /\ Whole(stack[i])'
        BY <1>0, <2>1, <3>1, <3>2 DEF Cleared, Whole, Grows
      <3>4. FreshFrame(stack[i], i)'
        BY <1>0, <2>1, <3>1, <3>2 DEF FreshFrame, FreshAt, Validated, Grows
      <3>5. QED
        BY <3>2, <3>3, <3>4
    <2>5. InProgress'
      <3>1. top.res \in Result /\ top.tier \in Tier /\ top' = top
        BY <1>0, <1>5, TopFrame DEF top
      <3>2. Cleared(top) => Cleared(top)'
        BY <1>0, <3>1 DEF Cleared
      <3>3. FreshFrame(top, Len(stack)) => FreshFrame(top, Len(stack))'
        BY <1>0, <3>1 DEF FreshFrame, FreshAt, Validated, Grows
      <3>4. Whole(top) => Whole(top)'
        BY <1>0, <3>1 DEF Whole, Grows
      <3>5. QED
        BY <1>0, <1>5, <3>1, <3>2, <3>3, <3>4 DEF WalkInv, InProgress, CheckedResults
    <2>6. QED
      BY <1>2, <1>3, <2>3, <2>4, <2>5 DEF WalkInv
  <1>6. QED
    BY <1>4, <1>5

\* The steps that neither begin nor end a lookup leave what was checked valid.
LEMMA ChecksKept ==
  ASSUME WalkInv, UNCHANGED stores, UNCHANGED <<query, known, checked>>
  PROVE  ChecksHold'
  BY DEF WalkInv, ChecksHold, CheckedResults, Admissible, Stored, stores

LEMMA WalkReject ==
  ASSUME TypeInv, WalkInv, pc \in Evaluating, Reject
  PROVE  WalkInv'
  <1>1. ChecksHold'
    BY ChecksKept DEF Reject, history
  <1>2. Grounded'
    BY DEF WalkInv, Grounded, Reject, stores, history
  <1>3. QED
    BY <1>1, <1>2 DEF WalkInv, AllLocated, Callers, InProgress, Evaluating, Reject

\* A check of the call in progress is passed.
LEMMA WalkAdvance ==
  ASSUME TypeInv, WalkInv, NEW from, NEW to, Advance(from, to),
         to \in Evaluating \ {"visit", "locate", "hit"}, from \in Evaluating \ {"locate"},
         Cleared(top),
         to # "fresh" => FreshFrame(top, Len(stack)),
         to \notin {"fresh", "blobs"} => Whole(top)
  PROVE  WalkInv'
  <1>0. /\ UNCHANGED stores /\ pc = from /\ pc' = to /\ top' = top
        /\ UNCHANGED <<query, tier, cands, stack, edges, want, probe, checked, known, due>>
    BY DEF Advance, walk, history, top
  <1>1. ChecksHold'
    BY <1>0, ChecksKept
  <1>2. Grounded'
    BY <1>0 DEF WalkInv, Grounded, stores, Evaluating
  <1>3. AllLocated'
    BY <1>0 DEF WalkInv, AllLocated, stores
  <1>4. Callers'
    BY <1>0 DEF WalkInv, Callers, stores, CheckedResults, Cleared, FreshFrame, Whole
  <1>5. Cleared(top)' /\ FreshFrame(top, Len(stack))' = FreshFrame(top, Len(stack))
        /\ Whole(top)' = Whole(top)
    BY <1>0 DEF stores, Cleared, FreshFrame, Whole
  <1>6. InProgress'
    BY <1>0, <1>5 DEF WalkInv, InProgress, CheckedResults, Evaluating
  <1>7. QED
    BY <1>1, <1>2, <1>3, <1>4, <1>6 DEF WalkInv

LEMMA WalkVisit == ASSUME TypeInv, WalkInv, Visit PROVE WalkInv'
  <1>1. pc = "visit" /\ pc \in Evaluating
    BY DEF Visit, Evaluating
  <1>2. CASE Acceptable /\ Advance("visit", "fresh")
    <2>1. top.tier \in Tier
      BY <1>1, TopFrame
    <2>2. Cleared(top)
      BY <1>2, <2>1 DEF Acceptable, Cleared, Invalidated, WalkInv, Grounded
    <2>3. QED
      BY <1>2, <2>2, WalkAdvance DEF Evaluating
  <1>3. CASE Reject
    BY <1>1, <1>3, WalkReject
  <1>4. QED
    BY <1>2, <1>3 DEF Visit

LEMMA WalkFreshness == ASSUME TypeInv, WalkInv, Freshness PROVE WalkInv'
  <1>1. pc = "fresh" /\ pc \in Evaluating
    BY DEF Freshness, Evaluating
  <1>2. CASE FreshEnough /\ Advance("fresh", "blobs")
    <2>1. Len(stack) \in Nat
      BY <1>1, TopFrame
    <2>2. Len(stack) - 1 = 0 => Len(stack) = 1
      BY <2>1
    <2>3. FreshFrame(top, Len(stack))
      BY <1>2, <2>2 DEF FreshEnough, FreshFrame, depth
    <2>4. Cleared(top)
      BY <1>1 DEF WalkInv, InProgress
    <2>5. QED
      BY <1>2, <2>3, <2>4, WalkAdvance DEF Evaluating
  <1>3. CASE Reject
    BY <1>1, <1>3, WalkReject
  <1>4. QED
    BY <1>2, <1>3 DEF Freshness

LEMMA WalkArtifacts == ASSUME TypeInv, WalkInv, Artifacts PROVE WalkInv'
  <1>1. pc = "blobs" /\ pc \in Evaluating
    BY DEF Artifacts, Evaluating
  <1>2. CASE BlobsOf[top.res] \subseteq blobs[top.tier] /\ Advance("blobs", "deps")
    <2>1. Cleared(top) /\ FreshFrame(top, Len(stack))
      BY <1>1 DEF WalkInv, InProgress
    <2>2. Whole(top)
      BY <1>2 DEF Whole
    <2>3. QED
      BY <1>2, <2>1, <2>2, WalkAdvance DEF Evaluating
  <1>3. CASE Reject
    BY <1>1, <1>3, WalkReject
  <1>4. CASE Advance("blobs", "raise")
    <2>1. ChecksHold'
      BY <1>4, ChecksKept DEF Advance, history
    <2>2. Grounded'
      BY <1>1, <1>4 DEF WalkInv, Grounded, Advance, Evaluating, stores, history, walk
    <2>3. QED
      BY <1>4, <2>1, <2>2 DEF WalkInv, AllLocated, Callers, InProgress, Evaluating, Advance
  <1>5. QED
    BY <1>2, <1>3, <1>4 DEF Artifacts

LEMMA WalkPick == ASSUME TypeInv, IndexInv, WalkInv, Pick PROVE WalkInv'
  <1>1. PICK r \in First(cands) :
          /\ cands' = cands \ {r}
          /\ stack' = <<[res |-> r, tier |-> tier, todo |-> DepsOf[r]]>>
    BY DEF Pick
  <1>2. pc = "pick" /\ tier \in Tier /\ cands \subseteq byAction[tier]
    BY DEF Pick, TypeInv, TypeOK, Shape, Tier, WalkInv, Grounded
  <1>3. r \in byAction[tier] /\ r \in byDigest[tier]
    BY <1>1, <1>2 DEF First, IndexInv, IndexResolves, Stored
  <1>4. /\ UNCHANGED <<query, tier, want, known>> /\ UNCHANGED stores
        /\ pc' = "visit" /\ checked' = {}
    BY DEF Pick
  <1>5. /\ Len(stack') = 1 /\ stack'[1].res = r /\ stack'[1].tier = tier
        /\ stack'[1].todo = DepsOf[r]
    BY <1>1
  <1>6. Grounded'
    BY <1>1, <1>2, <1>4 DEF WalkInv, Grounded, stores
  <1>7. AllLocated'
    BY <1>3, <1>4, <1>5 DEF AllLocated, stores
  <1>8. Callers'
    BY <1>5 DEF Callers
  <1>9. InProgress'
    BY <1>4, <1>5 DEF InProgress, top
  <1>10. ChecksHold'
    BY <1>4 DEF ChecksHold
  <1>11. QED
    BY <1>6, <1>7, <1>8, <1>9, <1>10 DEF WalkInv

LEMMA WalkDescend == ASSUME TypeInv, WalkInv, Descend PROVE WalkInv'
  <1>1. pc = "deps" /\ pc \in Evaluating
    BY DEF Descend, Evaluating
  <1>2. PICK d \in top.todo :
          IF edges + 1 > MaxEdges
          THEN Reject
          ELSE /\ pc' = "locate" /\ want' = {d}
               /\ edges' = edges + 1
               /\ stack' = [stack EXCEPT ![Len(stack)].todo = @ \ {d}]
               /\ UNCHANGED <<stores, clock, pub, query, tier, cands, probe,
                              checked, known, due>>
    BY DEF Descend
  <1>3. CASE Reject
    BY <1>1, <1>3, WalkReject
  <1>4. CASE /\ pc' = "locate" /\ want' = {d}
             /\ stack' = [stack EXCEPT ![Len(stack)].todo = @ \ {d}]
             /\ UNCHANGED <<stores, clock, pub, query, tier, cands, probe,
                            checked, known, due>>
    <2>1. /\ Len(stack') = Len(stack)
          /\ stack'[Len(stack)] =
               [res |-> top.res, tier |-> top.tier, todo |-> top.todo \ {d}]
          /\ \A j \in 1 .. Len(stack) - 1 : stack'[j] = stack[j]
      BY <1>1, <1>4, TakeDependency
    <2>2. Len(stack) \in Nat /\ Len(stack) >= 1
      BY <1>1, TopFrame
    <2>3. /\ top'.res = top.res /\ top'.tier = top.tier /\ top'.todo = top.todo \ {d}
      BY <2>1 DEF top
    <2>4. ASSUME NEW j \in 1 .. Len(stack)
          PROVE  stack'[j].res = stack[j].res /\ stack'[j].tier = stack[j].tier
      <3>1. CASE j = Len(stack)
        BY <2>1, <3>1 DEF top
      <3>2. CASE j # Len(stack)
        BY <2>1, <2>2, <3>2
      <3>3. QED
        BY <3>1, <3>2
    <2>5. Grounded'
      BY <1>1, <1>4 DEF WalkInv, Grounded, Evaluating, stores
    <2>6. ChecksHold'
      BY <1>4, ChecksKept
    <2>7. AllLocated'
      BY <1>1, <1>4, <2>1, <2>4 DEF WalkInv, AllLocated, stores
    <2>8. Callers'
      <3> SUFFICES ASSUME NEW i \in 1 .. Len(stack) - 1
                   PROVE  /\ Cleared(stack[i])' /\ FreshFrame(stack[i], i)' /\ Whole(stack[i])'
                          /\ DepsOf[stack'[i].res] \ stack'[i].todo
                               \subseteq CheckedResults' \cup {stack'[i + 1].res}
        BY <2>1 DEF Callers
      <3>1. i + 1 \in 1 .. Len(stack) /\ i \in 1 .. Len(stack)
        BY <2>2
      <3>2. stack'[i + 1].res = stack[i + 1].res /\ stack'[i] = stack[i]
        BY <2>1, <2>4, <3>1
      <3>3. /\ Cleared(stack[i]) /\ FreshFrame(stack[i], i) /\ Whole(stack[i])
            /\ DepsOf[stack[i].res] \ stack[i].todo
                 \subseteq CheckedResults \cup {stack[i + 1].res}
        BY <1>1 DEF WalkInv, Callers
      <3>4. QED
        BY <1>4, <3>2, <3>3 DEF Cleared, FreshFrame, Whole, CheckedResults, stores
    <2>9. InProgress'
      <3>1. /\ DepsOf[top.res] \ top.todo \subseteq CheckedResults \cup want
            /\ Cleared(top) /\ FreshFrame(top, Len(stack)) /\ Whole(top)
        BY <1>1 DEF WalkInv, InProgress
      <3>2. want = {}
        BY <1>1 DEF WalkInv, Grounded
      <3>3. DepsOf[top'.res] \ top'.todo \subseteq CheckedResults' \cup want'
        BY <1>4, <2>3, <3>1, <3>2 DEF CheckedResults
      <3>4. Cleared(top)' /\ FreshFrame(top, Len(stack))' /\ Whole(top)'
        BY <1>4, <2>1, <2>3, <3>1 DEF Cleared, FreshFrame, Whole, stores
      <3>5. QED
        BY <1>4, <3>3, <3>4 DEF InProgress
    <2>10. QED
      BY <2>5, <2>6, <2>7, <2>8, <2>9 DEF WalkInv
  <1>5. QED
    BY <1>2, <1>3, <1>4

LEMMA WalkLocate == ASSUME TypeInv, WalkInv, Locate PROVE WalkInv'
  <1> USE ManifestAssumption
  <1>1. pc = "locate" /\ pc \in Evaluating /\ probe \in Tier
    BY DEF Locate, Evaluating, TypeInv, TypeOK, Tier
  <1>2. PICK d \in want :
          \/ /\ d \in byDigest[probe]
             /\ stack' = Append(stack, [res |-> d, tier |-> probe, todo |-> DepsOf[d]])
             /\ pc' = "visit" /\ want' = {} /\ probe' = 1
          \/ /\ d \notin byDigest[probe] \/ probe \in Flaky
             /\ probe' = probe + 1
             /\ UNCHANGED <<pc, stack, want>>
    BY DEF Locate
  <1>3. UNCHANGED stores /\ UNCHANGED <<query, tier, cands, edges, checked, known>>
    BY DEF Locate, history
  <1>4. ChecksHold'
    BY <1>3, ChecksKept
  <1>5. CASE UNCHANGED <<pc, stack, want>>
    <2>1. top' = top /\ CheckedResults' = CheckedResults
      BY <1>3, <1>5 DEF top, CheckedResults
    <2>2. Grounded' /\ AllLocated'
      BY <1>3, <1>5 DEF WalkInv, Grounded, AllLocated, stores
    <2>3. Callers'
      BY <1>3, <1>5, <2>1 DEF WalkInv, Callers, Cleared, FreshFrame, Whole, stores
    <2>4. InProgress'
      BY <1>3, <1>5, <2>1 DEF WalkInv, InProgress, Cleared, FreshFrame, Whole, stores
    <2>5. QED
      BY <1>4, <2>2, <2>3, <2>4 DEF WalkInv
  <1>6. CASE /\ d \in byDigest[probe]
             /\ stack' = Append(stack, [res |-> d, tier |-> probe, todo |-> DepsOf[d]])
             /\ pc' = "visit" /\ want' = {}
    <2> DEFINE f == [res |-> d, tier |-> probe, todo |-> DepsOf[d]]
    <2>0. d \in Result
      BY DEF TypeInv, TypeOK
    <2>1. f \in Frame /\ f.res = d /\ f.tier = probe /\ f.todo = DepsOf[d]
      BY <1>1, <2>0 DEF Frame
    <2>2. stack' = Append(stack, f)
      BY <1>6
    <2> HIDE DEF f
    <2>3. /\ Len(stack') = Len(stack) + 1 /\ stack'[Len(stack) + 1] = f
          /\ \A j \in 1 .. Len(stack) : stack'[j] = stack[j]
      BY <1>1, <2>1, <2>2, PushFrame
    <2>4. Len(stack) \in Nat /\ Len(stack) >= 1
      BY <1>1, TopFrame
    <2>5. want = {d}
      BY DEF WalkInv, Grounded
    <2>6. Grounded'
      BY <1>1, <1>3, <1>6 DEF WalkInv, Grounded, Evaluating, stores
    <2>7. AllLocated'
      <3> SUFFICES ASSUME NEW i \in 1 .. Len(stack) + 1
                   PROVE  stack'[i].res \in byDigest'[stack'[i].tier]
        BY <2>3 DEF AllLocated
      <3>1. CASE i = Len(stack) + 1
        BY <1>3, <1>6, <2>1, <2>3, <3>1 DEF stores
      <3>2. CASE i # Len(stack) + 1
        <4>1. i \in 1 .. Len(stack)
          BY <2>4, <3>2
        <4>2. QED
          BY <1>1, <1>3, <2>3, <4>1 DEF WalkInv, AllLocated, stores
      <3>3. QED
        BY <3>1, <3>2
    <2>8. Callers'
      <3> SUFFICES ASSUME NEW i \in 1 .. Len(stack)
                   PROVE  /\ Cleared(stack[i])' /\ FreshFrame(stack[i], i)' /\ Whole(stack[i])'
                          /\ DepsOf[stack'[i].res] \ stack'[i].todo
                               \subseteq CheckedResults' \cup {stack'[i + 1].res}
        BY <2>3, <2>4 DEF Callers
      <3>1. stack'[i] = stack[i]
        BY <2>3
      <3>2. CASE i = Len(stack)
        <4>1. /\ DepsOf[top.res] \ top.todo \subseteq CheckedResults \cup want
              /\ Cleared(top) /\ FreshFrame(top, Len(stack)) /\ Whole(top)
          BY <1>1 DEF WalkInv, InProgress
        <4>2. top = stack[i] /\ stack'[i + 1].res = d
          BY <2>1, <2>3, <3>2 DEF top
        <4>3. /\ Cleared(stack[i]) /\ FreshFrame(stack[i], i) /\ Whole(stack[i])
              /\ DepsOf[stack[i].res] \ stack[i].todo \subseteq CheckedResults \cup {d}
          BY <2>5, <3>2, <4>1, <4>2
        <4>4. QED
          BY <1>3, <3>1, <4>2, <4>3 DEF Cleared, FreshFrame, Whole, CheckedResults, stores
      <3>3. CASE i # Len(stack)
        <4>1. i \in 1 .. Len(stack) - 1 /\ i + 1 \in 1 .. Len(stack)
          BY <2>4, <3>3
        <4>2. /\ Cleared(stack[i]) /\ FreshFrame(stack[i], i) /\ Whole(stack[i])
              /\ DepsOf[stack[i].res] \ stack[i].todo
                   \subseteq CheckedResults \cup {stack[i + 1].res}
          BY <1>1, <4>1 DEF WalkInv, Callers
        <4>3. stack'[i + 1] = stack[i + 1]
          BY <2>3, <4>1
        <4>4. QED
          BY <1>3, <3>1, <4>2, <4>3 DEF Cleared, FreshFrame, Whole, CheckedResults, stores
      <3>4. QED
        BY <3>2, <3>3
    <2>9. InProgress'
      <3>1. top' = f
        BY <2>3 DEF top
      <3>2. QED
        BY <1>6, <2>1, <3>1 DEF InProgress
    <2>10. QED
      BY <1>4, <2>6, <2>7, <2>8, <2>9 DEF WalkInv
  <1>7. QED
    BY <1>2, <1>5, <1>6

LEMMA ChecksAdd ==
  ASSUME NEW S, NEW a, NEW b
  PROVE  {c[1] : c \in S \cup {<<a, b>>}} = {c[1] : c \in S} \cup {a}
  <1>1. <<a, b>>[1] = a
    OBVIOUS
  <1> DEFINE p == <<a, b>>
  <1>2. p[1] = a
    BY <1>1
  <1> HIDE DEF p
  <1>3. {c[1] : c \in S \cup {p}} = {c[1] : c \in S} \cup {a}
    BY <1>2
  <1>4. QED
    BY <1>3 DEF p

LEMMA WalkAscend == ASSUME TypeInv, WalkInv, Ascend PROVE WalkInv'
  <1>1. pc = "deps" /\ pc \in Evaluating /\ top.todo = {} /\ want = {}
    BY DEF Ascend, Evaluating, WalkInv, Grounded
  <1>2. UNCHANGED stores /\ UNCHANGED <<query, tier, cands, want, known>>
    BY DEF Ascend
  <1>3. /\ Cleared(top) /\ FreshFrame(top, Len(stack)) /\ Whole(top)
        /\ DepsOf[top.res] \subseteq CheckedResults
    BY <1>1 DEF WalkInv, InProgress
  <1>4. Len(stack) \in Nat /\ Len(stack) >= 1
    BY <1>1, TopFrame
  <1>5. CASE depth = 0
    <2>1. /\ Len(stack) = 1 /\ UNCHANGED <<stack, checked>> /\ pc' = "hit"
          /\ top' = top /\ CheckedResults' = CheckedResults
      BY <1>4, <1>5 DEF Ascend, depth, top, CheckedResults
    <2>2. ChecksHold'
      BY <1>2, <2>1, ChecksKept
    <2>3. Grounded' /\ AllLocated'
      BY <1>1, <1>2, <2>1 DEF WalkInv, Grounded, AllLocated, stores, Evaluating
    <2>4. Callers'
      <3>1. 1 .. Len(stack') - 1 = {}
        BY <2>1
      <3>2. QED
        BY <3>1 DEF Callers
    <2>5. InProgress'
      BY <1>1, <1>2, <1>3, <2>1 DEF InProgress, Cleared, FreshFrame, Whole, stores
    <2>6. QED
      BY <2>2, <2>3, <2>4, <2>5 DEF WalkInv
  <1>6. CASE depth # 0
    <2>1. /\ pc' = "deps" /\ checked' = checked \cup {<<top.res, top.tier>>}
          /\ stack' = SubSeq(stack, 1, depth)
      BY <1>6 DEF Ascend
    <2>2. /\ Len(stack) > 1 /\ Len(stack') = Len(stack) - 1
          /\ \A i \in 1 .. Len(stack) - 1 : stack'[i] = stack[i]
      BY <1>1, <1>6, <2>1, PopFrame
    <2>3. CheckedResults' = CheckedResults \cup {top.res}
      BY <2>1, ChecksAdd DEF CheckedResults
    <2>4. top.res \in byDigest[top.tier]
      BY <1>1, TopFrame DEF WalkInv, AllLocated, top
    <2>5. Admissible(top.res, top.tier) /\ FreshAt(valid[top.tier], top.res, query.now)
      <3>1. Len(stack) # 1
        BY <1>4, <2>2
      <3>2. QED
        BY <1>3, <2>4, <3>1 DEF Admissible, Stored, Cleared, FreshFrame, Whole
    <2>6. ChecksHold'
      <3> SUFFICES ASSUME NEW c \in checked'
                   PROVE  /\ Admissible(c[1], c[2])' /\ FreshAt(valid'[c[2]], c[1], query'.now)
                          /\ DepsOf[c[1]] \subseteq CheckedResults'
        BY DEF ChecksHold
      <3>1. /\ Admissible(c[1], c[2]) /\ FreshAt(valid[c[2]], c[1], query.now)
            /\ DepsOf[c[1]] \subseteq CheckedResults
        <4>1. CASE c \in checked
          BY <4>1 DEF WalkInv, ChecksHold
        <4>2. CASE c = <<top.res, top.tier>>
          BY <1>3, <2>5, <4>2
        <4>3. QED
          BY <2>1, <4>1, <4>2
      <3>2. QED
        BY <1>2, <2>3, <3>1 DEF Admissible, Stored, stores
    <2>7. Grounded'
      BY <1>1, <1>2, <2>1 DEF WalkInv, Grounded, Evaluating, stores
    <2>8. \A i \in 1 .. Len(stack) - 1 : i \in 1 .. Len(stack)
      BY <1>4
    <2>9. AllLocated'
      BY <1>1, <1>2, <2>2, <2>8 DEF WalkInv, AllLocated, stores
    <2>10. ASSUME NEW i \in 1 .. Len(stack) - 1
           PROVE  /\ Cleared(stack[i]) /\ FreshFrame(stack[i], i) /\ Whole(stack[i])
                  /\ DepsOf[stack[i].res] \ stack[i].todo
                       \subseteq CheckedResults \cup {stack[i + 1].res}
                  /\ stack'[i] = stack[i]
      BY <1>1, <2>2 DEF WalkInv, Callers
    <2>11. Callers'
      <3> SUFFICES ASSUME NEW i \in 1 .. Len(stack) - 2
                   PROVE  /\ Cleared(stack[i])' /\ FreshFrame(stack[i], i)' /\ Whole(stack[i])'
                          /\ DepsOf[stack'[i].res] \ stack'[i].todo
                               \subseteq CheckedResults' \cup {stack'[i + 1].res}
        BY <1>4, <2>2 DEF Callers
      <3>1. i \in 1 .. Len(stack) - 1 /\ i + 1 \in 1 .. Len(stack) - 1
        BY <1>4
      <3>2. stack'[i + 1] = stack[i + 1]
        BY <2>2, <3>1
      <3>3. QED
        BY <1>2, <2>3, <2>10, <3>1, <3>2 DEF Cleared, FreshFrame, Whole, stores
    <2>12. InProgress'
      <3>1. PICK i \in 1 .. Len(stack) - 1 : i = Len(stack) - 1
        BY <1>4, <2>2
      <3>2. stack[i + 1] = top
        BY <1>4, <3>1 DEF top
      <3>3. top' = stack[i] /\ Len(stack') = i
        BY <2>2, <3>1 DEF top
      <3>4. /\ Cleared(stack[i]) /\ FreshFrame(stack[i], i) /\ Whole(stack[i])
            /\ DepsOf[stack[i].res] \ stack[i].todo \subseteq CheckedResults \cup {top.res}
        BY <2>10, <3>2
      <3>5. DepsOf[top'.res] \ top'.todo \subseteq CheckedResults' \cup want'
        BY <2>3, <3>3, <3>4
      <3>6. Cleared(top)' /\ FreshFrame(top, Len(stack))' /\ Whole(top)'
        BY <1>2, <3>3, <3>4 DEF Cleared, FreshFrame, Whole, stores
      <3>7. QED
        BY <2>1, <3>5, <3>6 DEF InProgress
    <2>13. QED
      BY <2>6, <2>7, <2>9, <2>11, <2>12 DEF WalkInv
  <1>7. QED
    BY <1>5, <1>6

LEMMA NextWalk == TypeInv /\ IndexInv /\ WalkInv /\ [Next]_vars => WalkInv'
  <1> SUFFICES ASSUME TypeInv, IndexInv, WalkInv, [Next]_vars PROVE WalkInv'
    OBVIOUS
  <1> USE DEF Evaluating
  <1>0. ASSUME Grounded', ChecksHold', pc' \notin Evaluating PROVE WalkInv'
    BY <1>0 DEF WalkInv, AllLocated, Callers, InProgress
  <1>1. CASE Publishing \/ Recording \/ Tick \/ UNCHANGED vars
    <2>1. UNCHANGED lookup
      BY <1>1 DEF Publishing, PublishResult, PutBlob, PutResult, PutAction, Abandon,
         Recording, PutValidation, PutInvalidation, Tick, vars
    <2>2. QED
      BY <2>1, Monotone, WalkStable
  <1>2. CASE \E a \in Action, lax \in LaxModes, strict \in StrictModes : Start(a, lax, strict)
    <2>1. /\ pc = "idle" /\ pc' = "scan" /\ known' = invalid
          /\ UNCHANGED stores /\ UNCHANGED <<checked, want>>
      BY <1>2 DEF Start, walk
    <2>2. Grounded'
      BY <2>1 DEF WalkInv, Grounded, stores
    <2>3. ChecksHold'
      BY <2>1 DEF WalkInv, Grounded, ChecksHold
    <2>4. QED
      BY <1>0, <2>1, <2>2, <2>3
  <1>3. CASE Scan
    <2>1. ChecksHold'
      BY <1>3, ChecksKept DEF Scan, history
    <2>2. Grounded'
      BY <1>3 DEF Scan, WalkInv, Grounded, stores, history
    <2>3. QED
      BY <1>0, <1>3, <2>1, <2>2 DEF Scan
  <1>4. CASE NextTier \/ Exhausted
    <2>1. ChecksHold'
      BY <1>4, ChecksKept DEF NextTier, Exhausted, Advance, history
    <2>2. Grounded'
      BY <1>4 DEF NextTier, Exhausted, Advance, WalkInv, Grounded, stores, history, walk
    <2>3. QED
      BY <1>0, <1>4, <2>1, <2>2 DEF NextTier, Exhausted, Advance
  <1>5. CASE NotLocated
    BY <1>5, WalkReject DEF NotLocated
  <1>6. CASE Return
    <2>1. /\ pc' = "idle" /\ checked' = {} /\ want' = {} /\ known' = [t \in Tier |-> {}]
      BY <1>6 DEF Return
    <2>2. Grounded'
      BY <2>1 DEF Grounded
    <2>3. ChecksHold'
      BY <2>1 DEF ChecksHold
    <2>4. QED
      BY <1>0, <2>1, <2>2, <2>3
  <1>7. QED
    BY <1>1, <1>2, <1>3, <1>4, <1>5, <1>6, WalkPick, WalkVisit, WalkFreshness,
       WalkArtifacts, WalkDescend, WalkLocate, WalkAscend DEF Next, Looking

LEMMA HitFollows == TypeInv /\ WalkInv => HitIsAdmissible
  <1> SUFFICES ASSUME TypeInv, WalkInv, pc = "hit", NEW d \in Closure(stack[1].res)
               PROVE  \E t \in Tier :
                        /\ Admissible(d, t)
                        /\ d = stack[1].res => t = stack[1].tier
                        /\ FreshAt(valid[t], d, query.now) \/ (query.lax /\ d = stack[1].res)
    BY DEF HitIsAdmissible
  <1> DEFINE root == stack[1].res
             C == CheckedResults \cup {root}
  <1>0. pc \in Evaluating
    BY DEF Evaluating
  <1>1. Len(stack) = 1 /\ top = stack[1] /\ top.todo = {} /\ want = {}
    BY <1>0 DEF WalkInv, InProgress, Grounded, top
  <1>2. root \in Result /\ stack[1].tier \in Tier /\ root \in byDigest[stack[1].tier]
    BY <1>0, <1>1, TopFrame DEF WalkInv, AllLocated
  <1>3. /\ DepsOf[root] \subseteq CheckedResults
        /\ Cleared(stack[1]) /\ FreshFrame(stack[1], 1) /\ Whole(stack[1])
    BY <1>0, <1>1 DEF WalkInv, InProgress
  <1>4. C \in SUBSET Result
    BY <1>2 DEF CheckedResults, TypeInv, TypeOK
  <1>5. \A x \in C : DepsOf[x] \subseteq C
    BY <1>3 DEF WalkInv, ChecksHold, CheckedResults
  <1>6. d \in C
    BY <1>4, <1>5 DEF Closure
  <1>7. CASE d = root
    BY <1>2, <1>3, <1>7 DEF Admissible, Stored, Cleared, FreshFrame, Whole
  <1>8. CASE d # root
    <2>1. PICK c \in checked : d = c[1]
      BY <1>6, <1>8 DEF CheckedResults
    <2>2. c[2] \in Tier /\ Admissible(d, c[2]) /\ FreshAt(valid[c[2]], d, query.now)
      BY <2>1 DEF WalkInv, ChecksHold, TypeInv, TypeOK
    <2>3. QED
      BY <1>8, <2>2
  <1>9. QED
    BY <1>7, <1>8

\* A hit of reuse is admissible through its whole lineage, for any dependency
\* graph and however the stores grew during the traversal.
THEOREM HitsAreAdmissible == Spec => []HitIsAdmissible
  <1>1. Init => TypeInv /\ IndexInv /\ WalkInv
    BY InitType, InitIndex, InitWalk
  <1>2. TypeInv /\ IndexInv /\ WalkInv /\ [Next]_vars => (TypeInv /\ IndexInv /\ WalkInv)'
    BY NextType, NextIndex, NextWalk
  <1>3. QED
    BY <1>1, <1>2, HitFollows, PTL DEF Spec

-----------------------------------------------------------------------------
(* Chains of dependencies.                                                  *)

\* Division, for walking a cycle.
LEMMA NextRemainder ==
  ASSUME NEW a \in Nat, NEW p \in Nat \ {0}
  PROVE  /\ a % p \in 0 .. (p - 1)
         /\ (a + 1) % p = IF (a % p) + 1 = p THEN 0 ELSE (a % p) + 1
  <1>1. a % p \in 0 .. (p - 1) /\ a \div p \in Nat /\ a = p * (a \div p) + (a % p)
    OBVIOUS
  <1>2. \A q, m \in Nat : m < p => (p * q + m) % p = m
    OBVIOUS
  <1>q. PICK q \in Nat : q = a \div p
    BY <1>1
  <1>m. PICK m \in Nat : m = a % p /\ m < p
    BY <1>1
  <1>3. m < p /\ a = p * q + m
    BY <1>1, <1>q, <1>m
  <1>4. a % p = m
    BY <1>2, <1>3
  <1>5. ASSUME m + 1 = p PROVE (a + 1) % p = 0
    <2>1. PICK z \in Int : z = p * q
      OBVIOUS
    <2>2. a = z + m
      BY <1>3, <2>1
    <2>3. p * (q + 1) + 0 = z + p
      BY <2>1
    <2>4. a + 1 = p * (q + 1) + 0
      BY <1>5, <2>2, <2>3
    <2>5. q + 1 \in Nat /\ 0 \in Nat /\ 0 < p
      OBVIOUS
    <2>6. (p * (q + 1) + 0) % p = 0
      BY <1>2, <2>5, Zenon
    <2> QED
      BY <2>4, <2>6, Zenon
  <1>6. ASSUME m + 1 # p PROVE (a + 1) % p = m + 1
    <2>1. a + 1 = p * q + (m + 1)
      BY <1>3
    <2> QED
      BY <1>2, <1>3, <1>6, <2>1
  <1> QED
    BY <1>1, <1>4, <1>5, <1>6

\* A chain that comes back to a result it has passed can be walked without
\* end: r is deeper than any limit.
LEMMA CycleIsTooDeep ==
  ASSUME NEW r \in Result, NEW n \in Nat, NEW f \in Chain(r, n),
         NEW k \in 0 .. n, k < n, f[k] = f[n]
  PROVE  TooDeep(r)
  <1> DEFINE p == n - k
             m(j) == (j - k) % p
             w == [j \in 0 .. MaxDepth + 1 |-> IF j < k THEN f[j] ELSE f[k + m(j)]]
  <1>1. /\ f \in [0 .. n -> Result] /\ f[0] = r
        /\ \A i \in 1 .. n : f[i] \in DepsOf[f[i - 1]]
    BY DEF Chain
  <1>2. p \in Nat \ {0} /\ k \in Nat /\ MaxDepth \in Nat
    BY PolicyAssumption
  <1>3. ASSUME NEW j \in Nat, j >= k
        PROVE  /\ m(j) \in 0 .. (p - 1)
               /\ m(j + 1) = IF m(j) + 1 = p THEN 0 ELSE m(j) + 1
    <2>1. PICK a \in Nat : a = j - k /\ a + 1 = (j + 1) - k
      BY <1>2, <1>3
    <2>2. m(j) = a % p /\ m(j + 1) = (a + 1) % p
      BY <2>1
    <2> HIDE DEF p, m
    <2>3. /\ a % p \in 0 .. (p - 1)
          /\ (a + 1) % p = IF (a % p) + 1 = p THEN 0 ELSE (a % p) + 1
      BY <1>2, NextRemainder
    <2> QED
      BY <2>2, <2>3, Zenon
  <1>4. m(k) = 0
    <2>1. \A a \in Nat \ {0} : 0 % a = 0
      OBVIOUS
    <2>2. k - k = 0
      BY <1>2
    <2>3. m(k) = 0 % p
      BY <2>2
    <2> HIDE DEF p, m
    <2> QED
      BY <1>2, <2>1, <2>3
  <1> HIDE DEF m
  <1>5. \A j \in Nat : j >= k => k + m(j) \in 0 .. n /\ k + m(j) < n
    BY <1>2, <1>3
  <1>6. w \in [0 .. MaxDepth + 1 -> Result]
    <2> SUFFICES ASSUME NEW j \in 0 .. MaxDepth + 1
                 PROVE  (IF j < k THEN f[j] ELSE f[k + m(j)]) \in Result
      OBVIOUS
    <2>1. j \in Nat
      BY <1>2
    <2>2. CASE j < k
      <3>1. j \in 0 .. n
        BY <2>1, <2>2
      <3> QED
        BY <1>1, <2>2, <3>1
    <2>3. CASE ~(j < k)
      <3>1. k + m(j) \in 0 .. n
        BY <1>2, <1>5, <2>1, <2>3
      <3> QED
        BY <1>1, <2>3, <3>1
    <2> QED
      BY <2>2, <2>3
  <1>7. w[0] = r
    <2>1. CASE k = 0
      BY <1>1, <1>2, <1>4, <2>1
    <2>2. CASE k # 0
      BY <1>1, <1>2, <2>2
    <2> QED
      BY <2>1, <2>2
  <1>8. ASSUME NEW i \in 1 .. MaxDepth + 1
        PROVE  w[i] \in DepsOf[w[i - 1]]
    <2>1. i \in Nat /\ i - 1 \in Nat /\ i \in 0 .. MaxDepth + 1 /\ i - 1 \in 0 .. MaxDepth + 1
      BY <1>2
    <2>2. CASE i < k
      <3>1. i \in 1 .. n
        BY <2>1, <2>2
      <3>2. w[i] = f[i] /\ w[i - 1] = f[i - 1]
        BY <1>2, <2>1, <2>2
      <3> QED
        BY <1>1, <3>1, <3>2
    <2>3. CASE i = k
      <3>1. w[i - 1] = f[i - 1] /\ w[i] = f[k + m(k)] /\ k + m(k) = k
        BY <1>2, <1>4, <2>1, <2>3
      <3> QED
        BY <1>1, <2>1, <2>3, <3>1
    <2>4. CASE i > k
      <3> DEFINE a == k + m(i - 1)
      <3>1. i - 1 >= k /\ (i - 1) + 1 = i
        BY <1>2, <2>1, <2>4
      <3>2. /\ m(i - 1) \in 0 .. (p - 1)
            /\ m(i) = IF m(i - 1) + 1 = p THEN 0 ELSE m(i - 1) + 1
        BY <1>3, <2>1, <3>1
      <3>3. w[i - 1] = f[a] /\ w[i] = f[k + m(i)]
        BY <1>2, <2>1, <2>4, <3>1
      <3>4. a \in Nat /\ a < n /\ a + 1 \in 1 .. n /\ (a + 1) - 1 = a
        BY <1>2, <3>2
      <3>5. f[a + 1] \in DepsOf[f[a]]
        BY <1>1, <3>4
      <3>6. f[k + m(i)] = f[a + 1]
        <4>1. CASE m(i - 1) + 1 = p
          <5>1. k + m(i) = k /\ a + 1 = n
            BY <1>2, <3>2, <4>1
          <5> QED
            BY <5>1
        <4>2. CASE m(i - 1) + 1 # p
          <5>1. k + m(i) = a + 1
            BY <1>2, <3>2, <4>2
          <5> QED
            BY <5>1
        <4> QED
          BY <4>1, <4>2
      <3> QED
        BY <3>3, <3>5, <3>6
    <2> QED
      BY <1>2, <2>1, <2>2, <2>3, <2>4
  <1>9. w \in Chain(r, MaxDepth + 1)
    <2> HIDE DEF w
    <2> QED
      BY <1>6, <1>7, <1>8 DEF Chain
  <1> QED
    BY <1>9 DEF TooDeep

-----------------------------------------------------------------------------
(* The way down: depth, cycles and edges.                                   *)

LEMMA ClosureRules ==
  ASSUME NEW r \in Result
  PROVE  /\ r \in Closure(r) /\ Closure(r) \subseteq Result
         /\ \A d \in Closure(r) : DepsOf[d] \subseteq Closure(r)
  BY ManifestAssumption DEF Closure

Root == stack[1].res

\* The calls on the stack are a chain down from the root, and a caller is no
\* longer to evaluate what is being evaluated.
Descent ==
  pc \in Evaluating =>
    /\ \A i \in 1 .. Len(stack) :
         stack[i].res \in Closure(Root) /\ stack[i].todo \subseteq DepsOf[stack[i].res]
    /\ \A i \in 1 .. Len(stack) - 1 :
         stack[i + 1].res \in DepsOf[stack[i].res] \ stack[i].todo
    /\ want \subseteq DepsOf[top.res] \ top.todo

\* What _evaluate has not refused: no result is on the stack twice ...
NoCycle ==
  pc \in Evaluating =>
    \A j \in 1 .. Len(stack) : j < Len(stack) \/ pc # "visit" =>
      \A i \in 1 .. j - 1 : stack[i].res # stack[j].res

\* ... and the stack is not deeper than allowed.
WithinDepth ==
  pc \in Evaluating => Len(stack) <= IF pc = "visit" THEN MaxDepth + 2 ELSE MaxDepth + 1

\* A chain the traversal has yet to walk: it leaves the stack, or what the
\* next call is for, by a dependency that is still to do.
Unwalked(w) ==
  \E i \in 1 .. Len(stack) :
    /\ i \in DOMAIN w
    /\ \A j \in 0 .. i - 1 : w[j] = stack[j + 1].res
    /\ \/ w[i] \in stack[i].todo
       \/ i = Len(stack) /\ w[i] \in want /\ i + 1 \in DOMAIN w

\* Every edge that was counted ends a chain of its own.
Counted ==
  pc \in Evaluating =>
    \E S \in SUBSET Chains(Root) :
      IsFiniteSet(S) /\ Cardinality(S) = edges /\ \A w \in S : ~ Unwalked(w)

PathInv == Descent /\ NoCycle /\ WithinDepth /\ Counted

LEMMA PathElsewhere == ASSUME pc' \notin Evaluating PROVE PathInv'
  BY DEF PathInv, Descent, NoCycle, WithinDepth, Counted

\* Steps that move no call.
LEMMA PathKept ==
  ASSUME PathInv, pc \in Evaluating, UNCHANGED <<stack, want, edges>>,
         pc = "visit" => pc' = "visit" \/
           (Len(stack) <= MaxDepth + 1 /\ \A i \in 1 .. Len(stack) - 1 : stack[i].res # top.res),
         pc # "visit" => pc' # "visit", Len(stack) \in Nat
  PROVE  PathInv'
  <1>0. stack' = stack /\ want' = want /\ edges' = edges /\ Root' = Root /\ top' = top
    BY DEF Root, top
  <1>1. Descent'
    BY <1>0 DEF PathInv, Descent
  <1>2. NoCycle'
    <2> SUFFICES ASSUME pc' # "visit" \/ pc = "visit", NEW j \in 1 .. Len(stack),
                        j < Len(stack) \/ pc' # "visit", NEW i \in 1 .. j - 1
                 PROVE  stack[i].res # stack[j].res
      BY <1>0 DEF NoCycle
    <2>1. CASE j < Len(stack) \/ pc # "visit"
      BY <2>1 DEF PathInv, NoCycle
    <2>2. CASE j = Len(stack) /\ pc = "visit"
      BY <2>2 DEF top
    <2> QED
      BY <2>1, <2>2
  <1>3. WithinDepth'
    BY <1>0 DEF PathInv, WithinDepth
  <1>4. Counted'
    <2>1. \A w : Unwalked(w)' = Unwalked(w)
      BY <1>0 DEF Unwalked
    <2>2. PICK S \in SUBSET Chains(Root) :
            IsFiniteSet(S) /\ Cardinality(S) = edges /\ \A w \in S : ~ Unwalked(w)
      BY DEF PathInv, Counted
    <2> QED
      BY <1>0, <2>1, <2>2 DEF Counted
  <1> QED
    BY <1>1, <1>2, <1>3, <1>4 DEF PathInv

LEMMA PathPick == ASSUME TypeInv, WalkInv, Pick PROVE PathInv'
  <1>1. PICK r \in First(cands) :
          stack' = <<[res |-> r, tier |-> tier, todo |-> DepsOf[r]]>>
    BY DEF Pick
  <1>2. r \in Result /\ pc' = "visit" /\ edges' = 0 /\ want' = want /\ want = {}
    BY DEF Pick, First, TypeInv, TypeOK, WalkInv, Grounded
  <1>3. /\ Len(stack') = 1 /\ stack'[1].res = r /\ stack'[1].todo = DepsOf[r]
        /\ Root' = r
    BY <1>1 DEF Root
  <1>4. Descent'
    BY <1>2, <1>3, ClosureRules DEF Descent, top
  <1>5. NoCycle' /\ WithinDepth'
    BY <1>2, <1>3, PolicyAssumption DEF NoCycle, WithinDepth
  <1>6. Counted'
    BY <1>2, FS_EmptySet DEF Counted
  <1> QED
    BY <1>4, <1>5, <1>6 DEF PathInv

\* The chain that leaves the call in progress by d.
Along(d) == [j \in 0 .. Len(stack) |-> IF j < Len(stack) THEN stack[j + 1].res ELSE d]

LEMMA AlongIsChain ==
  ASSUME TypeInv, PathInv, pc \in Evaluating, NEW d \in DepsOf[top.res]
  PROVE  Along(d) \in Chain(Root, Len(stack))
  <1> DEFINE n == Len(stack)
  <1>1. n \in Nat /\ n >= 1 /\ \A i \in 1 .. n : stack[i].res \in Result
    BY TopFrame
  <1>2. d \in Result
    BY TopFrame, ManifestAssumption
  <1>3. \A i \in 1 .. n - 1 : stack[i + 1].res \in DepsOf[stack[i].res]
    BY DEF PathInv, Descent
  <1>4. DOMAIN Along(d) = 0 .. n /\ Along(d)[n] = d
        /\ \A j \in 0 .. n - 1 : Along(d)[j] = stack[j + 1].res
    BY <1>1 DEF Along
  <1>5. Along(d) \in [0 .. n -> Result]
    BY <1>1, <1>2 DEF Along
  <1>6. Along(d)[0] = Root
    BY <1>1, <1>4 DEF Root
  <1>7. ASSUME NEW i \in 1 .. n PROVE Along(d)[i] \in DepsOf[Along(d)[i - 1]]
    <2>1. Along(d)[i - 1] = stack[i].res
      <3>1. i - 1 \in 0 .. n - 1 /\ (i - 1) + 1 = i
        BY <1>1
      <3> QED
        BY <1>4, <3>1
    <2>2. CASE i = n
      BY <1>4, <2>1, <2>2 DEF top
    <2>3. CASE i # n
      <3>1. i \in 0 .. n - 1 /\ i \in 1 .. n - 1
        BY <1>1, <2>3
      <3> QED
        BY <1>3, <1>4, <2>1, <3>1
    <2> QED
      BY <2>2, <2>3
  <1> HIDE DEF n
  <1> QED
    BY <1>5, <1>6, <1>7 DEF Chain, n

\* It is one that is yet to be walked.
LEMMA AlongIsUnwalked ==
  ASSUME TypeInv, PathInv, pc \in Evaluating, NEW d \in top.todo
  PROVE  Unwalked(Along(d))
  <1> DEFINE n == Len(stack)
  <1>1. n \in Nat /\ n >= 1 /\ n \in 1 .. n
    BY TopFrame
  <1>2. DOMAIN Along(d) = 0 .. n /\ Along(d)[n] = d
        /\ \A j \in 0 .. n - 1 : Along(d)[j] = stack[j + 1].res
    BY <1>1 DEF Along
  <1>3. Along(d)[n] \in stack[n].todo /\ n \in DOMAIN Along(d)
    BY <1>1, <1>2 DEF top
  <1> QED
    BY <1>1, <1>2, <1>3 DEF Unwalked

LEMMA PathDescend ==
  ASSUME TypeInv, WalkInv, PathInv, Descend, edges + 1 <= MaxEdges
  PROVE  PathInv'
  <1>1. pc = "deps" /\ pc \in Evaluating /\ want = {} /\ edges \in Nat /\ MaxEdges \in Nat
    BY PolicyAssumption DEF Descend, Evaluating, WalkInv, Grounded, TypeInv, TypeOK
  <1>2. PICK d \in top.todo :
          /\ pc' = "locate" /\ want' = {d} /\ edges' = edges + 1
          /\ stack' = [stack EXCEPT ![Len(stack)].todo = @ \ {d}]
    BY <1>1 DEF Descend
  <1>3. PICK n \in Nat : n = Len(stack) /\ n >= 1
    BY <1>1, TopFrame
  <1>4. /\ Len(stack') = n
        /\ stack'[n] = [res |-> top.res, tier |-> top.tier, todo |-> top.todo \ {d}]
        /\ \A j \in 1 .. n - 1 : stack'[j] = stack[j]
    BY <1>1, <1>2, <1>3, TakeDependency
  <1>5. /\ \A j \in 1 .. n : stack'[j].res = stack[j].res
        /\ \A j \in 1 .. n : stack'[j].todo \subseteq stack[j].todo
        /\ stack'[n].todo = stack[n].todo \ {d} /\ top = stack[n] /\ top' = stack'[n]
        /\ Root' = Root
    <2>1. top = stack[n] /\ top' = stack'[n]
      BY <1>3, <1>4 DEF top
    <2>2. stack'[n].res = stack[n].res /\ stack'[n].todo = stack[n].todo \ {d}
      BY <1>4, <2>1
    <2>3. ASSUME NEW j \in 1 .. n
          PROVE  stack'[j].res = stack[j].res /\ stack'[j].todo \subseteq stack[j].todo
      <3>1. CASE j = n
        BY <2>2, <3>1
      <3>2. CASE j # n
        <4>1. j \in 1 .. n - 1
          BY <1>3, <3>2
        <4> QED
          BY <1>4, <4>1
      <3> QED
        BY <3>1, <3>2
    <2>4. 1 \in 1 .. n
      BY <1>3
    <2> QED
      BY <2>1, <2>2, <2>3, <2>4 DEF Root
  <1>6. Descent'
    <2>1. \A i \in 1 .. n : stack[i].res \in Closure(Root) /\ stack[i].todo \subseteq DepsOf[stack[i].res]
      BY <1>1, <1>3 DEF PathInv, Descent
    <2>2. \A i \in 1 .. n - 1 : stack[i + 1].res \in DepsOf[stack[i].res] \ stack[i].todo
      BY <1>1, <1>3 DEF PathInv, Descent
    <2>3. \A i \in 1 .. n - 1 : i \in 1 .. n /\ i + 1 \in 1 .. n
      BY <1>3
    <2>4. \A i \in 1 .. n : stack'[i].res \in Closure(Root)'
                              /\ stack'[i].todo \subseteq DepsOf[stack'[i].res]
      BY <1>5, <2>1 DEF Closure
    <2>5. \A i \in 1 .. n - 1 : stack'[i + 1].res \in DepsOf[stack'[i].res] \ stack'[i].todo
      BY <1>5, <2>2, <2>3
    <2>6. want' \subseteq DepsOf[top'.res] \ top'.todo
      <3>1. n \in 1 .. n /\ d \in DepsOf[top.res]
        BY <1>3, <1>5, <2>1
      <3> QED
        BY <1>2, <1>5, <3>1
    <2> QED
      BY <1>4, <2>4, <2>5, <2>6 DEF Descent
  <1>7. NoCycle' /\ WithinDepth'
    <2>1. \A j \in 1 .. n : \A i \in 1 .. j - 1 : stack[i].res # stack[j].res
      BY <1>1, <1>3 DEF PathInv, NoCycle
    <2>2. \A j \in 1 .. n : \A i \in 1 .. j - 1 : i \in 1 .. n
      BY <1>3
    <2>3. NoCycle'
      BY <1>4, <1>5, <2>1, <2>2 DEF NoCycle
    <2>4. WithinDepth'
      BY <1>1, <1>2, <1>3, <1>4 DEF PathInv, WithinDepth
    <2> QED
      BY <2>3, <2>4
  <1>8. Counted'
    <2>1. PICK S \in SUBSET Chains(Root) :
            IsFiniteSet(S) /\ Cardinality(S) = edges /\ \A w \in S : ~ Unwalked(w)
      BY <1>1 DEF PathInv, Counted
    <2>2. PICK new : new = Along(d)
      OBVIOUS
    <2>3. new \in Chains(Root) /\ Unwalked(new)
      <3>1. d \in DepsOf[top.res]
        <4>1. n \in 1 .. n
          BY <1>3
        <4> QED
          BY <1>1, <1>3, <1>5, <4>1 DEF PathInv, Descent
      <3>2. n \in 1 .. MaxDepth + 1
        BY <1>1, <1>3, PolicyAssumption DEF PathInv, WithinDepth
      <3>3. new \in Chain(Root, n) /\ Unwalked(new)
        BY <1>1, <1>3, <2>2, <3>1, AlongIsChain, AlongIsUnwalked
      <3> QED
        BY <3>2, <3>3 DEF Chains
    <2>4. ~ Unwalked(new)'
      <3>1. DOMAIN new = 0 .. n /\ new[n] = d /\ \A j \in 0 .. n - 1 : new[j] = stack[j + 1].res
        BY <1>3, <2>2 DEF Along
      <3> SUFFICES ASSUME NEW i \in 1 .. n, i \in DOMAIN new,
                          new[i] \in stack'[i].todo \/ (i = n /\ i + 1 \in DOMAIN new)
                   PROVE  FALSE
        BY <1>4 DEF Unwalked
      <3>2. ~(i = n /\ i + 1 \in DOMAIN new)
        BY <1>3, <3>1
      <3>3. CASE i = n
        BY <1>5, <3>1, <3>2, <3>3
      <3>4. CASE i # n
        <4>1. i \in 0 .. n - 1 /\ i \in 1 .. n - 1
          BY <1>3, <3>4
        <4>2. new[i] = stack[i + 1].res /\ stack[i + 1].res \notin stack[i].todo
          BY <1>1, <1>3, <3>1, <4>1 DEF PathInv, Descent
        <4> QED
          BY <1>5, <3>2, <4>2
      <3> QED
        BY <3>3, <3>4
    <2>5. ASSUME NEW w \in S PROVE ~ Unwalked(w)'
      <3>1. SUFFICES ASSUME Unwalked(w)' PROVE Unwalked(w)
        BY <2>1
      <3>2. PICK i \in 1 .. n :
              /\ i \in DOMAIN w
              /\ \A j \in 0 .. i - 1 : w[j] = stack'[j + 1].res
              /\ w[i] \in stack'[i].todo \/ (i = n /\ w[i] \in want')
        BY <1>4, <3>1 DEF Unwalked
      <3>3. \A j \in 0 .. i - 1 : j + 1 \in 1 .. n
        BY <1>3
      <3>4. \A j \in 0 .. i - 1 : w[j] = stack[j + 1].res
        BY <1>5, <3>2, <3>3
      <3>5. w[i] \in stack[i].todo
        BY <1>2, <1>5, <3>2
      <3> QED
        BY <1>3, <3>2, <3>4, <3>5 DEF Unwalked
    <2>6. new \notin S
      BY <2>1, <2>3
    <2>7. IsFiniteSet(S \cup {new}) /\ Cardinality(S \cup {new}) = edges + 1
      BY <2>1, <2>6, FS_AddElement
    <2>8. S \cup {new} \in SUBSET Chains(Root)
      BY <2>1, <2>3
    <2> QED
      BY <1>2, <1>5, <2>4, <2>5, <2>7, <2>8 DEF Counted, Chains, Chain
  <1> QED
    BY <1>6, <1>7, <1>8 DEF PathInv

LEMMA PathLocate == ASSUME TypeInv, WalkInv, PathInv, Locate PROVE PathInv'
  <1>1. pc = "locate" /\ pc \in Evaluating /\ UNCHANGED edges /\ probe \in Tier
    BY DEF Locate, Evaluating, TypeInv, TypeOK, Tier
  <1>2. PICK d \in want :
          \/ /\ d \in byDigest[probe]
             /\ stack' = Append(stack, [res |-> d, tier |-> probe, todo |-> DepsOf[d]])
             /\ pc' = "visit" /\ want' = {} /\ probe' = 1
          \/ /\ d \notin byDigest[probe] \/ probe \in Flaky
             /\ probe' = probe + 1
             /\ UNCHANGED <<pc, stack, want>>
    BY DEF Locate
  <1>3. PICK n \in Nat : n = Len(stack) /\ n >= 1
    BY <1>1, TopFrame
  <1>4. CASE UNCHANGED <<pc, stack, want>>
    BY <1>1, <1>3, <1>4, PathKept
  <1>5. CASE /\ stack' = Append(stack, [res |-> d, tier |-> probe, todo |-> DepsOf[d]])
             /\ pc' = "visit" /\ want' = {}
    <2> DEFINE f == [res |-> d, tier |-> probe, todo |-> DepsOf[d]]
    <2>0. d \in Result
      BY DEF TypeInv, TypeOK
    <2>1. f \in Frame /\ f.res = d /\ f.todo = DepsOf[d] /\ stack' = Append(stack, f)
      BY <1>1, <1>5, <2>0, ManifestAssumption DEF Frame
    <2> HIDE DEF f
    <2>2. /\ Len(stack') = n + 1 /\ stack'[n + 1] = f
          /\ \A j \in 1 .. n : stack'[j] = stack[j]
      BY <1>1, <1>3, <2>1, PushFrame
    <2>3. Root' = Root /\ top = stack[n] /\ Closure(Root)' = Closure(Root)
      <3>1. 1 \in 1 .. n
        BY <1>3
      <3> QED
        BY <1>3, <2>2, <3>1 DEF Root, top, Closure
    <2>4. /\ \A i \in 1 .. n : stack[i].res \in Closure(Root)
                                 /\ stack[i].todo \subseteq DepsOf[stack[i].res]
          /\ \A i \in 1 .. n - 1 : stack[i + 1].res \in DepsOf[stack[i].res] \ stack[i].todo
          /\ d \in DepsOf[stack[n].res] \ stack[n].todo
      BY <1>1, <1>3, <2>3 DEF PathInv, Descent
    <2>5. d \in Closure(Root)
      <3>1. n \in 1 .. n /\ 1 \in 1 .. n
        BY <1>3
      <3>2. Root \in Result
        BY <1>1, <1>3, <3>1, TopFrame DEF Root
      <3> QED
        BY <2>4, <3>1, <3>2, ClosureRules
    <2>6. Descent'
      <3>1. ASSUME NEW i \in 1 .. n + 1
            PROVE  stack'[i].res \in Closure(Root) /\ stack'[i].todo \subseteq DepsOf[stack'[i].res]
        <4>1. CASE i = n + 1
          BY <2>1, <2>2, <2>5, <4>1
        <4>2. CASE i # n + 1
          <5>1. i \in 1 .. n
            BY <1>3, <4>2
          <5> QED
            BY <2>2, <2>4, <5>1
        <4> QED
          BY <4>1, <4>2
      <3>2. ASSUME NEW i \in 1 .. n
            PROVE  stack'[i + 1].res \in DepsOf[stack'[i].res] \ stack'[i].todo
        <4>1. CASE i = n
          BY <2>1, <2>2, <2>4, <4>1
        <4>2. CASE i # n
          <5>1. i \in 1 .. n - 1 /\ i + 1 \in 1 .. n
            BY <1>3, <4>2
          <5> QED
            BY <2>2, <2>4, <5>1
        <4> QED
          BY <4>1, <4>2
      <3>3. Len(stack') - 1 = n
        BY <2>2
      <3> QED
        BY <1>5, <2>2, <2>3, <3>1, <3>2, <3>3 DEF Descent
    <2>7. NoCycle' /\ WithinDepth'
      <3>1. \A j \in 1 .. n : \A i \in 1 .. j - 1 : stack[i].res # stack[j].res
        BY <1>1, <1>3 DEF PathInv, NoCycle
      <3>2. \A j \in 1 .. n + 1 : j < n + 1 => j \in 1 .. n /\ \A i \in 1 .. j - 1 : i \in 1 .. n
        BY <1>3
      <3>3. NoCycle'
        BY <1>5, <2>2, <3>1, <3>2 DEF NoCycle
      <3>4. WithinDepth'
        BY <1>1, <1>3, <1>5, <2>2, PolicyAssumption DEF PathInv, WithinDepth
      <3> QED
        BY <3>3, <3>4
    <2>8. Counted'
      <3>1. PICK S \in SUBSET Chains(Root) :
              IsFiniteSet(S) /\ Cardinality(S) = edges /\ \A w \in S : ~ Unwalked(w)
        BY <1>1 DEF PathInv, Counted
      <3>2. ASSUME NEW w \in S, Unwalked(w)' PROVE FALSE
        <4>1. PICK i \in 1 .. n + 1 :
                /\ i \in DOMAIN w
                /\ \A j \in 0 .. i - 1 : w[j] = stack'[j + 1].res
                /\ w[i] \in stack'[i].todo
          BY <1>5, <2>2, <3>2 DEF Unwalked
        <4>2. CASE i = n + 1
          <5>1. PICK k \in 1 .. MaxDepth + 1 : w \in Chain(Root, k)
            BY <3>1 DEF Chains
          <5>2. k \in Nat /\ DOMAIN w = 0 .. k
            BY <5>1, PolicyAssumption DEF Chain
          <5>3. n \in DOMAIN w /\ n + 1 \in DOMAIN w /\ n \in 1 .. n
            BY <1>3, <4>1, <4>2, <5>2
          <5>4. \A j \in 0 .. n - 1 : w[j] = stack[j + 1].res
            <6>1. \A j \in 0 .. n - 1 : j \in 0 .. i - 1 /\ j + 1 \in 1 .. n
              BY <1>3, <4>2
            <6> QED
              BY <2>2, <4>1, <6>1
          <5>5. w[n] = d
            <6>1. n \in 0 .. i - 1
              BY <1>3, <4>2
            <6> QED
              BY <2>1, <2>2, <4>1, <6>1
          <5>6. Unwalked(w)
            BY <1>3, <5>3, <5>4, <5>5 DEF Unwalked
          <5> QED
            BY <3>1, <5>6
        <4>3. CASE i # n + 1
          <5>1. i \in 1 .. n /\ \A j \in 0 .. i - 1 : j + 1 \in 1 .. n
            BY <1>3, <4>3
          <5>2. Unwalked(w)
            BY <1>3, <2>2, <4>1, <5>1 DEF Unwalked
          <5> QED
            BY <3>1, <5>2
        <4> QED
          BY <4>2, <4>3
      <3> QED
        BY <1>1, <2>3, <3>1, <3>2 DEF Counted, Chains, Chain
    <2> QED
      BY <2>6, <2>7, <2>8 DEF PathInv
  <1> QED
    BY <1>2, <1>4, <1>5

LEMMA PathAscend == ASSUME TypeInv, WalkInv, PathInv, Ascend PROVE PathInv'
  <1>1. pc = "deps" /\ pc \in Evaluating /\ want = {} /\ UNCHANGED <<edges, want>>
    BY DEF Ascend, Evaluating, WalkInv, Grounded
  <1>2. PICK n \in Nat : n = Len(stack) /\ n >= 1
    BY <1>1, TopFrame
  <1>3. CASE depth = 0
    BY <1>1, <1>2, <1>3, PathKept DEF Ascend
  <1>4. CASE depth # 0
    <2>1. pc' = "deps" /\ stack' = SubSeq(stack, 1, depth)
      BY <1>4 DEF Ascend
    <2>2. /\ n > 1 /\ Len(stack') = n - 1
          /\ \A i \in 1 .. n - 1 : stack'[i] = stack[i]
      BY <1>1, <1>2, <1>4, <2>1, PopFrame
    <2>3. Root' = Root /\ Closure(Root)' = Closure(Root)
      <3>1. 1 \in 1 .. n - 1
        BY <1>2, <2>2
      <3> QED
        BY <2>2, <3>1 DEF Root, Closure
    <2>4. Descent'
      <3>1. /\ \A i \in 1 .. n : stack[i].res \in Closure(Root)
                                   /\ stack[i].todo \subseteq DepsOf[stack[i].res]
            /\ \A i \in 1 .. n - 1 : stack[i + 1].res \in DepsOf[stack[i].res] \ stack[i].todo
        BY <1>1, <1>2 DEF PathInv, Descent
      <3>2. \A i \in 1 .. n - 1 : i \in 1 .. n
        BY <1>2
      <3>3. \A i \in 1 .. (n - 1) - 1 : i \in 1 .. n - 1 /\ i + 1 \in 1 .. n - 1
        BY <1>2
      <3>4. \A i \in 1 .. n - 1 : stack'[i].res \in Closure(Root)
                                   /\ stack'[i].todo \subseteq DepsOf[stack'[i].res]
        BY <2>2, <3>1, <3>2
      <3>5. \A i \in 1 .. (n - 1) - 1 : stack'[i + 1].res \in DepsOf[stack'[i].res] \ stack'[i].todo
        BY <2>2, <3>1, <3>3
      <3> QED
        BY <1>1, <2>2, <2>3, <3>4, <3>5 DEF Descent
    <2>5. NoCycle' /\ WithinDepth'
      <3>1. \A j \in 1 .. n : \A i \in 1 .. j - 1 : stack[i].res # stack[j].res
        BY <1>1, <1>2 DEF PathInv, NoCycle
      <3>2. \A j \in 1 .. n - 1 : j \in 1 .. n /\ \A i \in 1 .. j - 1 : i \in 1 .. n - 1
        BY <1>2
      <3>3. NoCycle'
        BY <2>2, <3>1, <3>2 DEF NoCycle
      <3>4. n <= MaxDepth + 1
        BY <1>1, <1>2 DEF PathInv, WithinDepth
      <3>5. n - 1 <= MaxDepth + 1
        <4>1. MaxDepth \in Nat
          BY PolicyAssumption
        <4> QED
          BY <1>2, <3>4, <4>1
      <3>6. WithinDepth'
        BY <2>1, <2>2, <3>5 DEF WithinDepth
      <3> QED
        BY <3>3, <3>6
    <2>6. Counted'
      <3>1. PICK S \in SUBSET Chains(Root) :
              IsFiniteSet(S) /\ Cardinality(S) = edges /\ \A w \in S : ~ Unwalked(w)
        BY <1>1 DEF PathInv, Counted
      <3>2. ASSUME NEW w \in S, Unwalked(w)' PROVE FALSE
        <4>1. PICK i \in 1 .. n - 1 :
                /\ i \in DOMAIN w
                /\ \A j \in 0 .. i - 1 : w[j] = stack'[j + 1].res
                /\ w[i] \in stack'[i].todo
          BY <1>1, <2>2, <3>2 DEF Unwalked
        <4>2. i \in 1 .. n /\ \A j \in 0 .. i - 1 : j + 1 \in 1 .. n - 1
          BY <1>2
        <4>3. Unwalked(w)
          BY <1>2, <2>2, <4>1, <4>2 DEF Unwalked
        <4> QED
          BY <3>1, <4>3
      <3> QED
        BY <1>1, <2>3, <3>1, <3>2 DEF Counted, Chains, Chain
    <2> QED
      BY <2>4, <2>5, <2>6 DEF PathInv
  <1> QED
    BY <1>3, <1>4

\* _evaluate goes on to its next check.
LEMMA PathAdvance ==
  ASSUME TypeInv, PathInv, NEW from, NEW to, Advance(from, to),
         from \in Evaluating, to \in Evaluating \ {"visit"},
         from = "visit" => Acceptable
  PROVE  PathInv'
  <1>1. pc = from /\ pc' = to /\ UNCHANGED <<stack, want, edges>> /\ pc \in Evaluating
    BY DEF Advance, walk
  <1>2. PICK n \in Nat : n = Len(stack)
    BY <1>1, TopFrame
  <1>3. pc = "visit" => n <= MaxDepth + 1 /\ \A i \in 1 .. n - 1 : stack[i].res # top.res
    BY <1>1, <1>2, PolicyAssumption DEF Acceptable, depth
  <1> QED
    BY <1>1, <1>2, <1>3, PathKept

LEMMA NextPath == TypeInv /\ WalkInv /\ PathInv /\ [Next]_vars => PathInv'
  <1> SUFFICES ASSUME TypeInv, WalkInv, PathInv, [Next]_vars PROVE PathInv'
    OBVIOUS
  <1>1. CASE Publishing \/ Recording \/ Tick \/ UNCHANGED vars
    <2>1. UNCHANGED lookup
      BY <1>1 DEF Publishing, PublishResult, PutBlob, PutResult, PutAction, Abandon,
         Recording, PutValidation, PutInvalidation, Tick, vars
    <2>2. UNCHANGED <<pc, stack, want, edges>>
      BY <2>1 DEF lookup, walk
    <2>3. CASE pc \in Evaluating
      BY <2>2, <2>3, PathKept, TopFrame
    <2> QED
      BY <2>2, <2>3, PathElsewhere
  <1>2. CASE \/ \E a \in Action, lax \in LaxModes, strict \in StrictModes : Start(a, lax, strict)
             \/ Scan \/ NextTier \/ NotLocated \/ Exhausted \/ Return
    <2>1. pc' \notin Evaluating
      BY <1>2 DEF Start, Scan, NextTier, NotLocated, Reject, Exhausted, Advance, Return, Evaluating
    <2> QED
      BY <2>1, PathElsewhere
  <1>3. ASSUME Reject PROVE PathInv'
    BY <1>3, PathElsewhere DEF Reject, Evaluating
  <1>4. CASE Visit
    BY <1>3, <1>4, PathAdvance DEF Visit, Evaluating
  <1>5. CASE Freshness
    BY <1>3, <1>5, PathAdvance DEF Freshness, Evaluating
  <1>6. CASE Artifacts
    <2>1. CASE Advance("blobs", "raise")
      BY <2>1, PathElsewhere DEF Advance, Evaluating
    <2> QED
      BY <1>3, <1>6, <2>1, PathAdvance DEF Artifacts, Evaluating
  <1>7. CASE Descend
    <2>1. CASE edges + 1 <= MaxEdges
      BY <1>7, <2>1, PathDescend
    <2>2. CASE ~ (edges + 1 <= MaxEdges)
      <3>1. edges + 1 > MaxEdges
        BY <2>2, PolicyAssumption DEF TypeInv, TypeOK
      <3> QED
        BY <1>3, <1>7, <3>1 DEF Descend
    <2> QED
      BY <2>1, <2>2
  <1> QED
    BY <1>1, <1>2, <1>4, <1>5, <1>6, <1>7, PathPick, PathLocate, PathAscend DEF Next, Looking

-----------------------------------------------------------------------------
(* Why a candidate is refused.                                              *)

\* A manifest goes in after its artifacts, into results/ as into actions/.
DigestsWhole == \A t \in Tier : \A r \in byDigest[t] : BlobsOf[r] \subseteq blobs[t]

LEMMA NextDigests == TypeInv /\ IndexInv /\ DigestsWhole /\ [Next]_vars => DigestsWhole'
  <1> SUFFICES ASSUME TypeInv, IndexInv, DigestsWhole, [Next]_vars PROVE DigestsWhole'
    OBVIOUS
  <1>1. Grows
    BY Monotone
  <1>2. CASE UNCHANGED byDigest
    BY <1>1, <1>2 DEF DigestsWhole, Grows
  <1>3. ASSUME NEW p \in Publisher, PutResult(p) PROVE DigestsWhole'
    <2>1. pub[p] \in Publication
      BY <1>3 DEF PutResult, NoPublication, TypeInv, TypeOK
    <2>2. pub[p].tier \in Tier /\ pub[p].res \in Result
      BY <2>1 DEF Publication
    <2>3. BlobsOf[pub[p].res] \subseteq blobs[pub[p].tier]
      BY <1>3 DEF PutResult, IndexInv, WrittenSoFar, Written
    <2> QED
      BY <1>3, <2>2, <2>3 DEF PutResult, DigestsWhole, TypeInv, TypeOK
  <1>4. UNCHANGED byDigest \/ \E p \in Publisher : PutResult(p)
    BY DEF Next, Publishing, PublishResult, PutBlob, PutAction, Abandon, Recording,
       PutValidation, PutInvalidation, Tick, Start, Looking, Scan, Pick, NextTier, Visit,
       Freshness, Artifacts, Descend, Locate, NotLocated, Ascend, Exhausted, Return, Reject,
       Advance, stores, vars
  <1> QED
    BY <1>2, <1>3, <1>4

\* No reason to refuse a result goes away while the lookup runs.
LEMMA RefusableStays ==
  ASSUME Grows, UNCHANGED query, NEW r, Refusable(r)
  PROVE  Refusable(r)'
  <1>1. \A t \in Tier : \A d : Invalidated(invalid[t], d, query.now)
                             => Invalidated(invalid'[t], d, query.now)
    BY DEF Invalidated, Grows
  <1>2. \A t \in Flaky : byDigest[t] \subseteq byDigest'[t]
    BY PolicyAssumption DEF Grows
  <1> QED
    BY <1>1, <1>2 DEF Refusable, TooMany, TooDeep, Chains, Chain, Closure, FreshAt, Validated

LEMMA StackIsChain ==
  ASSUME TypeInv, PathInv, pc \in Evaluating
  PROVE  [j \in 0 .. Len(stack) - 1 |-> stack[j + 1].res] \in Chain(Root, Len(stack) - 1)
  <1>1. PICK n \in Nat : n = Len(stack) /\ n >= 1 /\ \A i \in 1 .. n : stack[i].res \in Result
    BY TopFrame
  <1>2. \A i \in 1 .. n - 1 : stack[i + 1].res \in DepsOf[stack[i].res]
    BY <1>1 DEF PathInv, Descent
  <1> DEFINE w == [j \in 0 .. n - 1 |-> stack[j + 1].res]
  <1>3. \A j \in 0 .. n - 1 : j + 1 \in 1 .. n
    BY <1>1
  <1>4. w \in [0 .. n - 1 -> Result]
    BY <1>1, <1>3
  <1>5. w[0] = Root
    BY <1>1 DEF Root
  <1>6. ASSUME NEW i \in 1 .. n - 1 PROVE w[i] \in DepsOf[w[i - 1]]
    <2>1. i \in 0 .. n - 1 /\ i - 1 \in 0 .. n - 1 /\ (i - 1) + 1 = i
      BY <1>1
    <2>2. w[i] = stack[i + 1].res /\ w[i - 1] = stack[i].res
      BY <2>1
    <2> QED
      BY <1>2, <2>2
  <1> HIDE DEF w
  <1>7. w \in Chain(Root, n - 1)
    BY <1>4, <1>5, <1>6 DEF Chain
  <1> QED
    BY <1>1, <1>7 DEF w

\* What a call refuses, its root candidate stands on.
LEMMA BelowRoot ==
  ASSUME TypeInv, PathInv, pc \in Evaluating
  PROVE  Root \in Result /\ top.res \in Closure(Root)
  <1>1. PICK n \in Nat : n = Len(stack) /\ n \in 1 .. n /\ 1 \in 1 .. n
    BY TopFrame
  <1> QED
    BY <1>1, TopFrame DEF PathInv, Descent, Root, top

\* What stands in a store that cannot be read is a reason of its own.
LEMMA UnreadableRefuses ==
  ASSUME TypeInv, WalkInv, PathInv, pc \in Evaluating, top.tier \in Flaky
  PROVE  Refusable(Root)
  <1>1. PICK n \in Nat : n = Len(stack) /\ n \in 1 .. n
    BY TopFrame
  <1>2. top.res \in byDigest[top.tier]
    BY <1>1 DEF WalkInv, AllLocated, top
  <1> QED
    BY <1>2, BelowRoot DEF Refusable

LEMMA VisitRefuses ==
  ASSUME TypeInv, PathInv, pc = "visit", ~ Acceptable
  PROVE  Refusable(Root)
  <1>0. pc \in Evaluating
    BY DEF Evaluating
  <1>1. Root \in Result /\ top.res \in Closure(Root) /\ top.tier \in Tier
    BY <1>0, BelowRoot, TopFrame
  <1>2. PICK n \in Nat : n = Len(stack) /\ n >= 1 /\ n <= MaxDepth + 2
    BY <1>0, TopFrame DEF PathInv, WithinDepth
  <1> DEFINE w == [j \in 0 .. n - 1 |-> stack[j + 1].res]
  <1>3. w \in Chain(Root, n - 1)
    BY <1>0, <1>2, StackIsChain
  <1>4. CASE \/ query.strict /\ top.res \notin Lineage
             \/ top.res \in Distrusted
             \/ Invalidated(invalid[top.tier], top.res, query.now)
    BY <1>1, <1>4 DEF Refusable
  <1>5. CASE ~ (depth <= MaxDepth)
    <2>1. MaxDepth \in Nat
      BY PolicyAssumption
    <2>2. n - 1 = MaxDepth + 1
      BY <1>2, <1>5, <2>1 DEF depth
    <2> HIDE DEF w
    <2> QED
      BY <1>3, <2>2 DEF TooDeep, Refusable
  <1>6. CASE \E i \in 1 .. depth : stack[i].res = top.res
    <2>1. PICK i \in 1 .. n - 1 : stack[i].res = stack[n].res
      BY <1>2, <1>6 DEF depth, top
    <2>2. PICK k \in 0 .. n - 1 : k = i - 1
      BY <1>2, <2>1
    <2>3. n - 1 \in Nat /\ k < n - 1 /\ n - 1 \in 0 .. n - 1
      BY <1>2, <2>1, <2>2
    <2>4. w[k] = stack[i].res /\ w[n - 1] = stack[n].res
      BY <1>2, <2>2, <2>3
    <2> HIDE DEF w
    <2>5. PICK m \in Nat : m = n - 1
      BY <2>3
    <2>6. w \in Chain(Root, m) /\ k \in 0 .. m /\ k < m /\ w[k] = w[m]
      BY <1>3, <2>1, <2>2, <2>3, <2>4, <2>5
    <2>7. TooDeep(Root)
      BY <1>1, <2>6, CycleIsTooDeep
    <2> QED
      BY <2>7 DEF Refusable
  <1> QED
    BY <1>4, <1>5, <1>6 DEF Acceptable

LEMMA FreshnessRefuses ==
  ASSUME TypeInv, PathInv, pc = "fresh", ~ FreshEnough
  PROVE  Refusable(Root)
  <1>0. pc \in Evaluating
    BY DEF Evaluating
  <1>1. top.res \in Closure(Root)
    BY <1>0, BelowRoot
  <1>2. PICK n \in Nat : n = Len(stack) /\ n >= 1
    BY <1>0, TopFrame
  <1>3. ~ FreshAt({}, top.res, query.now)
    BY DEF FreshEnough, FreshAt, Validated
  <1>4. ASSUME query.lax, top.res = Root PROVE FALSE
    <2>1. n # 1
      BY <1>2, <1>4 DEF FreshEnough, depth
    <2>2. n \in 1 .. n /\ 1 \in 1 .. n - 1
      BY <1>2, <2>1
    <2>3. stack[1].res # stack[n].res
      BY <1>0, <1>2, <2>2 DEF PathInv, NoCycle
    <2> QED
      BY <1>2, <1>4, <2>3 DEF top, Root
  <1> QED
    BY <1>1, <1>3, <1>4 DEF Refusable

\* With as many edges counted as allowed, one more is one too many.
LEMMA DescendRefuses ==
  ASSUME TypeInv, PathInv, pc = "deps", NEW d \in top.todo, edges + 1 > MaxEdges
  PROVE  Refusable(Root)
  <1>0. pc \in Evaluating
    BY DEF Evaluating
  <1>1. PICK n \in Nat : n = Len(stack) /\ n >= 1
    BY <1>0, TopFrame
  <1>2. edges \in Nat /\ MaxEdges \in Nat /\ MaxDepth \in Nat
    BY PolicyAssumption DEF TypeInv, TypeOK
  <1>3. n \in 1 .. MaxDepth + 1
    BY <1>0, <1>1, <1>2 DEF PathInv, WithinDepth
  <1>4. d \in DepsOf[top.res]
    <2>1. n \in 1 .. n
      BY <1>1
    <2> QED
      BY <1>0, <1>1, <2>1 DEF PathInv, Descent, top
  <1>5. PICK new : new = Along(d)
    OBVIOUS
  <1>6. new \in Chains(Root) /\ Unwalked(new)
    <2>1. new \in Chain(Root, n) /\ Unwalked(new)
      BY <1>0, <1>1, <1>4, <1>5, AlongIsChain, AlongIsUnwalked
    <2> QED
      BY <1>3, <2>1 DEF Chains
  <1>7. PICK S \in SUBSET Chains(Root) :
          IsFiniteSet(S) /\ Cardinality(S) = edges /\ \A w \in S : ~ Unwalked(w)
    BY <1>0 DEF PathInv, Counted
  <1>8. IsFiniteSet(S \cup {new}) /\ Cardinality(S \cup {new}) = edges + 1
    BY <1>6, <1>7, FS_AddElement
  <1>9. S \cup {new} \in SUBSET Chains(Root)
    BY <1>6, <1>7
  <1>10. TooMany(Root)
    BY <1>8, <1>9 DEF TooMany
  <1> QED
    BY <1>10 DEF Refusable

-----------------------------------------------------------------------------
(* What a lookup has yet to find.                                           *)

\* The lookup has yet to try r in some store, or is trying it.
Ahead(r) ==
  \E t \in Tier :
    /\ r \in byAction[t]
    /\ \/ t > tier
       \/ t = tier /\ (pc = "scan" \/ r \in cands \/ (pc \in Evaluating /\ r = Root))

\* Where the lookup is in its order of stores.
InOrder ==
  /\ pc = "idle" => tier = 1
  /\ pc = "miss" => tier > NumTiers
  /\ pc # "locate" => probe = 1

\* What is due stays complete, ...
DueComplete ==
  \A r \in due :
    ActionOf[r] = query.action /\ \A d \in Closure(r) : \E t \in Tier : d \in byDigest[t]

\* ... and is tried unless there is a reason to refuse it.
DueTried ==
  pc \notin {"idle", "hit", "raise"} => \A r \in due : Ahead(r) \/ Refusable(r)

\* A dependency of a candidate without such a reason is in a store that has
\* not been asked.
Sought ==
  pc = "locate" =>
    /\ want # {}
    /\ Root \in due /\ ~ Refusable(Root)
         => \A d \in want : \E t \in Tier : t >= probe /\ d \in byDigest[t]

DueInv == InOrder /\ DueComplete /\ DueTried /\ Sought

LEMMA DueCompleteStays ==
  ASSUME Grows, DueInv, UNCHANGED <<query, due>>
  PROVE  DueComplete'
  BY DEF DueInv, DueComplete, Grows, Closure

LEMMA AheadStays ==
  ASSUME Grows, NEW r, Ahead(r), UNCHANGED tier,
         pc = "scan" \/ r \in cands \/ (pc \in Evaluating /\ r = Root)
           => pc' = "scan" \/ r \in cands' \/ (pc' \in Evaluating /\ r = Root')
  PROVE  Ahead(r)'
  BY DEF Ahead, Grows

\* A step of the evaluation of a candidate.
LEMMA DueWalk ==
  ASSUME TypeInv, Grows, DueInv, pc \in Evaluating \ {"hit"}, pc' \in Evaluating,
         UNCHANGED <<query, tier, cands, due>>, Root' = Root
  PROVE  DueComplete' /\ DueTried'
  <1>1. ASSUME NEW r \in due PROVE Ahead(r)' \/ Refusable(r)'
    <2>1. CASE Ahead(r)
      <3>1. pc # "scan"
        BY DEF Evaluating
      <3> QED
        BY <2>1, <3>1, AheadStays
    <2>2. CASE Refusable(r)
      BY <2>2, RefusableStays
    <2> QED
      BY <2>1, <2>2 DEF DueInv, DueTried, Evaluating
  <1> QED
    BY <1>1, DueCompleteStays DEF DueTried

\* A candidate is given up, for a reason.
LEMMA DueReject ==
  ASSUME TypeInv, Grows, DueInv, pc \in Evaluating \ {"hit"}, Reject,
         Root \in due => Refusable(Root)
  PROVE  DueInv'
  <1>1. pc' = "pick" /\ probe' = 1 /\ UNCHANGED <<query, tier, cands, due>>
    BY DEF Reject, history
  <1>2. ASSUME NEW r \in due PROVE Ahead(r)' \/ Refusable(r)'
    <2>1. CASE Refusable(r)
      BY <1>1, <2>1, RefusableStays
    <2>2. CASE Ahead(r) /\ r # Root
      <3>1. pc # "scan"
        BY DEF Evaluating
      <3> QED
        BY <1>1, <2>2, <3>1, AheadStays
    <2> QED
      BY <2>1, <2>2 DEF DueInv, DueTried, Evaluating
  <1>3. DueComplete'
    BY <1>1, DueCompleteStays
  <1> QED
    BY <1>1, <1>2, <1>3 DEF DueInv, InOrder, DueTried, Sought

LEMMA DueRest ==
  ASSUME TypeInv, Grows, DueInv, UNCHANGED lookup
  PROVE  DueInv'
  <1>1. UNCHANGED <<pc, query, tier, cands, stack, want, probe, due>> /\ Root' = Root
    BY DEF lookup, walk, history, Root
  <1>2. ASSUME NEW r \in due, Ahead(r) \/ Refusable(r) PROVE Ahead(r)' \/ Refusable(r)'
    BY <1>1, <1>2, AheadStays, RefusableStays
  <1>3. DueTried'
    BY <1>1, <1>2 DEF DueInv, DueTried
  <1>4. Sought'
    <2>1. ~ Refusable(Root)' => ~ Refusable(Root)
      BY <1>1, RefusableStays
    <2> QED
      BY <1>1, <2>1 DEF DueInv, Sought, Grows
  <1> QED
    BY <1>1, <1>3, <1>4, DueCompleteStays DEF DueInv, InOrder

LEMMA DueStart ==
  ASSUME TypeInv, Grows, DueInv, NEW a, NEW lax, NEW strict, Start(a, lax, strict)
  PROVE  DueInv'
  <1>1. /\ pc = "idle" /\ pc' = "scan" /\ query'.action = a /\ UNCHANGED <<tier, probe>>
        /\ UNCHANGED <<byDigest, byAction>>
        /\ due' = {r \in Result : Complete(r, a)}
    BY DEF Start, walk, stores
  <1>2. InOrder' /\ Sought'
    BY <1>1 DEF DueInv, InOrder, Sought
  <1>3. DueComplete'
    BY <1>1 DEF DueComplete, Complete, Closure
  <1>4. ASSUME NEW r \in due' PROVE Ahead(r)'
    <2>1. PICK t \in Tier : r \in byAction[t]
      BY <1>1 DEF Complete
    <2>2. tier = 1 /\ (t > 1 \/ t = 1)
      BY <1>1, PolicyAssumption DEF DueInv, InOrder, Tier
    <2> QED
      BY <1>1, <2>1, <2>2 DEF Ahead
  <1> QED
    BY <1>2, <1>3, <1>4 DEF DueInv, DueTried

LEMMA DueScan ==
  ASSUME TypeInv, IndexInv, Grows, DueInv, Scan
  PROVE  DueInv'
  <1>1. /\ pc = "scan" /\ pc' \in {"scan", "pick"} /\ UNCHANGED <<query, probe, due>>
        /\ UNCHANGED byAction /\ tier \in Tier
    BY PolicyAssumption DEF Scan, history, stores, TypeInv, TypeOK, Tier
  <1>2. ASSUME NEW r \in due PROVE Ahead(r)' \/ Refusable(r)'
    <2>1. CASE Refusable(r)
      BY <1>1, <2>1, RefusableStays
    <2>2. CASE Ahead(r) /\ pc' = "pick" /\ tier' = tier
                /\ cands' = {c \in byAction[tier] : ActionOf[c] = query.action}
      <3>1. ActionOf[r] = query.action
        BY DEF DueInv, DueComplete
      <3> QED
        BY <1>1, <2>2, <3>1 DEF Ahead
    <2>3. CASE Ahead(r) /\ tier \in Flaky /\ tier' = tier + 1 /\ UNCHANGED <<pc, cands>>
      <3>1. PICK t \in Tier : r \in byAction[t] /\ (t > tier \/ t = tier)
        BY <2>3 DEF Ahead
      <3>2. CASE t = tier
        <4>1. r \in byDigest[tier] /\ r \in Result
          BY <1>1, <3>1, <3>2 DEF IndexInv, IndexResolves, Stored, TypeInv, TypeOK
        <4>2. Refusable(r)
          BY <2>3, <4>1, ClosureRules DEF Refusable
        <4> QED
          BY <1>1, <4>2, RefusableStays
      <3>3. CASE t > tier
        <4>1. t > tier' \/ t = tier'
          BY <1>1, <2>3, <3>3, PolicyAssumption DEF Tier
        <4> QED
          BY <1>1, <2>3, <3>1, <4>1 DEF Ahead
      <3> QED
        BY <3>1, <3>2, <3>3
    <2> QED
      BY <1>1, <2>1, <2>2, <2>3 DEF DueInv, DueTried, Scan
  <1> QED
    BY <1>1, <1>2, DueCompleteStays DEF DueInv, InOrder, DueTried, Sought

LEMMA DuePick ==
  ASSUME TypeInv, Grows, DueInv, Pick
  PROVE  DueInv'
  <1>1. PICK r0 \in First(cands) :
          /\ cands' = cands \ {r0}
          /\ stack' = <<[res |-> r0, tier |-> tier, todo |-> DepsOf[r0]]>>
    BY DEF Pick
  <1>2. pc = "pick" /\ pc' = "visit" /\ UNCHANGED <<query, tier, probe, due>>
    BY DEF Pick
  <1>3. Root' = r0
    BY <1>1 DEF Root
  <1>4. ASSUME NEW r \in due PROVE Ahead(r)' \/ Refusable(r)'
    <2>1. CASE Refusable(r)
      BY <1>2, <2>1, RefusableStays
    <2>2. CASE Ahead(r)
      <3>1. r \in cands => r \in cands' \/ (pc' \in Evaluating /\ r = Root')
        BY <1>1, <1>2, <1>3 DEF Evaluating
      <3> QED
        BY <1>2, <2>2, <3>1, AheadStays DEF Evaluating
    <2> QED
      BY <1>2, <2>1, <2>2 DEF DueInv, DueTried
  <1> QED
    BY <1>2, <1>4, DueCompleteStays DEF DueInv, InOrder, DueTried, Sought

LEMMA DueNextTier ==
  ASSUME TypeInv, Grows, DueInv, NextTier
  PROVE  DueInv'
  <1>1. /\ pc = "pick" /\ cands = {} /\ pc' = "scan" /\ tier' = tier + 1
        /\ UNCHANGED <<query, probe, due>>
    BY DEF NextTier, history
  <1>2. ASSUME NEW r \in due PROVE Ahead(r)' \/ Refusable(r)'
    <2>1. CASE Refusable(r)
      BY <1>1, <2>1, RefusableStays
    <2>2. CASE Ahead(r)
      <3>1. PICK t \in Tier : r \in byAction[t] /\ t > tier
        BY <1>1, <2>2 DEF Ahead, Evaluating
      <3>2. t > tier' \/ t = tier'
        BY <1>1, <3>1, PolicyAssumption DEF Tier, TypeInv, TypeOK
      <3> QED
        BY <1>1, <3>1, <3>2 DEF Ahead, Grows
    <2> QED
      BY <1>1, <2>1, <2>2 DEF DueInv, DueTried
  <1> QED
    BY <1>1, <1>2, DueCompleteStays DEF DueInv, InOrder, DueTried, Sought

LEMMA DueExhausted ==
  ASSUME TypeInv, Grows, DueInv, Exhausted
  PROVE  DueInv'
  <1>1. /\ pc = "scan" /\ pc' = "miss" /\ tier > NumTiers
        /\ UNCHANGED <<query, tier, probe, due>>
    BY DEF Exhausted, Advance, walk, history
  <1>2. ASSUME NEW r \in due PROVE Refusable(r)'
    <2>1. ~ Ahead(r)
      BY <1>1, PolicyAssumption DEF Ahead, Tier, TypeInv, TypeOK
    <2> QED
      BY <1>1, <2>1, RefusableStays DEF DueInv, DueTried
  <1> QED
    BY <1>1, <1>2, DueCompleteStays DEF DueInv, InOrder, DueTried, Sought

LEMMA DueDescend ==
  ASSUME TypeInv, Grows, WalkInv, PathInv, DueInv, Descend
  PROVE  DueInv'
  <1>1. pc = "deps" /\ pc \in Evaluating
    BY DEF Descend, Evaluating
  <1>2. PICK d \in top.todo :
          IF edges + 1 > MaxEdges
          THEN Reject
          ELSE /\ pc' = "locate" /\ want' = {d}
               /\ edges' = edges + 1
               /\ stack' = [stack EXCEPT ![Len(stack)].todo = @ \ {d}]
               /\ UNCHANGED <<stores, clock, pub, query, tier, cands, probe,
                              checked, known, due>>
    BY <1>1 DEF Descend
  <1>3. CASE edges + 1 > MaxEdges
    BY <1>1, <1>2, <1>3, DescendRefuses, DueReject
  <1>4. CASE ~ (edges + 1 > MaxEdges)
    <2>1. /\ pc' = "locate" /\ want' = {d} /\ UNCHANGED <<query, tier, cands, probe, due>>
          /\ stack' = [stack EXCEPT ![Len(stack)].todo = @ \ {d}] /\ UNCHANGED byDigest
      BY <1>2, <1>4 DEF stores
    <2>2. PICK n \in Nat : n = Len(stack) /\ n >= 1
      BY <1>1, TopFrame
    <2>3. Root' = Root
      <3>1. /\ stack'[n] = [res |-> top.res, tier |-> top.tier, todo |-> top.todo \ {d}]
            /\ \A j \in 1 .. n - 1 : stack'[j] = stack[j]
        BY <1>1, <2>1, <2>2, TakeDependency
      <3>2. CASE n = 1
        BY <2>2, <3>1, <3>2 DEF Root, top
      <3>3. CASE n # 1
        <4>1. 1 \in 1 .. n - 1
          BY <2>2, <3>3
        <4> QED
          BY <3>1, <4>1 DEF Root
      <3> QED
        BY <3>2, <3>3
    <2>4. DueComplete' /\ DueTried'
      BY <1>1, <2>1, <2>3, DueWalk DEF Evaluating
    <2>5. d \in Closure(Root)
      <3>1. n \in 1 .. n /\ Root \in Result
        BY <1>1, <2>2, BelowRoot
      <3>2. top.res \in Closure(Root) /\ d \in DepsOf[top.res]
        BY <1>1, <2>2, <3>1 DEF PathInv, Descent, top
      <3> QED
        BY <3>1, <3>2, ClosureRules
    <2>6. Sought'
      <3> SUFFICES ASSUME Root \in due
                   PROVE  \E t \in Tier : t >= 1 /\ d \in byDigest[t]
        BY <1>1, <2>1, <2>3 DEF Sought, DueInv, InOrder
      <3>1. PICK t \in Tier : d \in byDigest[t]
        BY <2>5 DEF DueInv, DueComplete
      <3> QED
        BY <3>1, PolicyAssumption DEF Tier
    <2> QED
      BY <2>1, <2>4, <2>6 DEF DueInv, InOrder
  <1> QED
    BY <1>3, <1>4

LEMMA DueLocate ==
  ASSUME TypeInv, Grows, WalkInv, PathInv, DueInv, Locate
  PROVE  DueInv'
  <1>1. /\ pc = "locate" /\ pc \in Evaluating /\ probe \in Nat
        /\ UNCHANGED <<query, tier, cands, due, byDigest>>
    BY DEF Locate, Evaluating, TypeInv, TypeOK, history, stores
  <1>2. PICK d \in want :
          \/ /\ d \in byDigest[probe]
             /\ stack' = Append(stack, [res |-> d, tier |-> probe, todo |-> DepsOf[d]])
             /\ pc' = "visit" /\ want' = {} /\ probe' = 1
          \/ /\ d \notin byDigest[probe] \/ probe \in Flaky
             /\ probe' = probe + 1
             /\ UNCHANGED <<pc, stack, want>>
    BY DEF Locate
  <1>3. CASE /\ stack' = Append(stack, [res |-> d, tier |-> probe, todo |-> DepsOf[d]])
             /\ pc' = "visit" /\ want' = {} /\ probe' = 1
    <2>1. PICK n \in Nat : n = Len(stack) /\ n >= 1
      BY <1>1, TopFrame
    <2>2. Root' = Root
      <3>1. [res |-> d, tier |-> probe, todo |-> DepsOf[d]] \in Frame
        BY ManifestAssumption DEF Locate, TypeInv, TypeOK, Tier, Frame
      <3>2. \A j \in 1 .. n : stack'[j] = stack[j]
        BY <1>1, <1>3, <2>1, <3>1, PushFrame
      <3>3. 1 \in 1 .. n
        BY <2>1
      <3> QED
        BY <3>2, <3>3 DEF Root
    <2>3. DueComplete' /\ DueTried'
      BY <1>1, <1>3, <2>2, DueWalk DEF Evaluating
    <2> QED
      BY <1>3, <2>3 DEF DueInv, InOrder, Sought
  <1>4. CASE /\ d \notin byDigest[probe] \/ probe \in Flaky
             /\ probe' = probe + 1 /\ UNCHANGED <<pc, stack, want>>
    <2>1. Root' = Root
      BY <1>4 DEF Root
    <2>2. DueComplete' /\ DueTried'
      BY <1>1, <1>4, <2>1, DueWalk
    <2>3. Sought'
      <3>1. \A x \in want : x = d
        BY DEF WalkInv, Grounded
      <3>2. ~ Refusable(Root)' => ~ Refusable(Root)
        BY <1>1, <2>1, RefusableStays
      <3>3. ASSUME Root \in due, ~ Refusable(Root)
            PROVE  \E t \in Tier : t >= probe + 1 /\ d \in byDigest[t]
        <4>1. PICK t \in Tier : t >= probe /\ d \in byDigest[t]
          BY <1>1, <3>3 DEF DueInv, Sought
        <4>2. d \in Closure(Root)
          BY <1>1, BelowRoot, ClosureRules DEF PathInv, Descent
        <4>3. t # probe
          BY <1>4, <3>3, <4>1, <4>2 DEF Refusable
        <4>4. t \in Nat
          BY PolicyAssumption DEF Tier
        <4> QED
          BY <1>1, <4>1, <4>3, <4>4
      <3> QED
        BY <1>1, <1>4, <2>1, <3>1, <3>2, <3>3 DEF DueInv, Sought
    <2> QED
      BY <1>1, <1>4, <2>2, <2>3 DEF DueInv, InOrder
  <1> QED
    BY <1>2, <1>3, <1>4

LEMMA DueNotLocated ==
  ASSUME TypeInv, Grows, DueInv, NotLocated
  PROVE  DueInv'
  <1>1. pc = "locate" /\ pc \in Evaluating \ {"hit"} /\ probe > NumTiers /\ Reject
    BY DEF NotLocated, Evaluating
  <1>2. Root \in due => Refusable(Root)
    <2> SUFFICES ASSUME Root \in due, ~ Refusable(Root) PROVE FALSE
      OBVIOUS
    <2>1. PICK d \in want : TRUE
      BY <1>1 DEF DueInv, Sought
    <2>2. PICK t \in Tier : t >= probe
      BY <1>1, <2>1 DEF DueInv, Sought
    <2> QED
      BY <1>1, <2>2, PolicyAssumption DEF Tier, TypeInv, TypeOK
  <1> QED
    BY <1>1, <1>2, DueReject

LEMMA DueAscend ==
  ASSUME TypeInv, Grows, DueInv, Ascend
  PROVE  DueInv'
  <1>1. pc = "deps" /\ pc \in Evaluating /\ UNCHANGED <<query, tier, cands, probe, due>>
    BY DEF Ascend, Evaluating
  <1>2. Root' = Root /\ pc' \in {"hit", "deps"}
    <2>1. CASE depth = 0
      BY <2>1 DEF Ascend, Root
    <2>2. CASE depth # 0
      <3>1. PICK n \in Nat : n = Len(stack)
        BY <1>1, TopFrame
      <3>2. 1 \in 1 .. n - 1
        BY <1>1, <2>2, <3>1, PopFrame
      <3>3. \A i \in 1 .. n - 1 : stack'[i] = stack[i]
        BY <1>1, <2>2, <3>1, PopFrame DEF Ascend
      <3> QED
        BY <2>2, <3>2, <3>3 DEF Ascend, Root
    <2> QED
      BY <2>1, <2>2
  <1>3. DueComplete' /\ DueTried'
    BY <1>1, <1>2, DueWalk DEF Evaluating
  <1> QED
    BY <1>1, <1>2, <1>3 DEF DueInv, InOrder, Sought

\* A check of the call in progress is passed.
LEMMA DueAdvance ==
  ASSUME TypeInv, Grows, DueInv, NEW from, NEW to, Advance(from, to),
         from \in Evaluating \ {"hit", "locate"}, to \in Evaluating \ {"locate"}
  PROVE  DueInv'
  <1>1. /\ pc = from /\ pc' = to /\ UNCHANGED <<query, tier, cands, probe, due>>
        /\ Root' = Root
    BY DEF Advance, walk, history, Root
  <1>2. DueComplete' /\ DueTried'
    BY <1>1, DueWalk
  <1> QED
    BY <1>1, <1>2 DEF DueInv, InOrder, Sought, Evaluating

LEMMA NextDue ==
  /\ TypeInv /\ IndexInv /\ DigestsWhole /\ WalkInv /\ PathInv /\ DueInv /\ [Next]_vars
  => DueInv'
  <1> SUFFICES ASSUME TypeInv, IndexInv, DigestsWhole, WalkInv, PathInv, DueInv, [Next]_vars
               PROVE  DueInv'
    OBVIOUS
  <1>0. Grows
    BY Monotone
  <1>1. CASE Publishing \/ Recording \/ Tick \/ UNCHANGED vars
    <2>1. UNCHANGED lookup
      BY <1>1 DEF Publishing, PublishResult, PutBlob, PutResult, PutAction, Abandon,
         Recording, PutValidation, PutInvalidation, Tick, vars
    <2> QED
      BY <1>0, <2>1, DueRest
  <1>2. CASE \E a \in Action, lax \in LaxModes, strict \in StrictModes : Start(a, lax, strict)
    BY <1>0, <1>2, DueStart
  <1>3. CASE Visit
    <2>1. pc = "visit" /\ pc \in Evaluating \ {"hit"}
      BY <1>3 DEF Visit, Evaluating
    <2>2. CASE Acceptable /\ Advance("visit", "fresh")
      BY <1>0, <2>2, DueAdvance DEF Evaluating
    <2>3. CASE (~ Acceptable \/ top.tier \in Flaky) /\ Reject
      BY <1>0, <1>3, <2>1, <2>3, VisitRefuses, UnreadableRefuses, DueReject DEF Visit
    <2> QED
      BY <1>3, <2>2, <2>3 DEF Visit
  <1>4. CASE Freshness
    <2>1. pc = "fresh" /\ pc \in Evaluating \ {"hit"}
      BY <1>4 DEF Freshness, Evaluating
    <2>2. CASE FreshEnough /\ Advance("fresh", "blobs")
      BY <1>0, <2>2, DueAdvance DEF Evaluating
    <2>3. CASE (~ FreshEnough \/ top.tier \in Flaky) /\ Reject
      BY <1>0, <1>4, <2>1, <2>3, FreshnessRefuses, UnreadableRefuses, DueReject DEF Freshness
    <2> QED
      BY <1>4, <2>2, <2>3 DEF Freshness
  <1>5. CASE Artifacts
    <2>1. pc \in Evaluating
      BY <1>5 DEF Artifacts, Evaluating
    <2>2. BlobsOf[top.res] \subseteq blobs[top.tier]
      BY <2>1, TopFrame DEF WalkInv, AllLocated, DigestsWhole, top
    <2>3. CASE Advance("blobs", "deps")
      BY <1>0, <2>3, DueAdvance DEF Evaluating
    <2>4. CASE Advance("blobs", "raise")
      <3>1. pc = "blobs" /\ pc' = "raise" /\ UNCHANGED <<query, probe, due>>
        BY <2>4 DEF Advance, walk, history
      <3> QED
        BY <1>0, <3>1, DueCompleteStays DEF DueInv, InOrder, DueTried, Sought
    <2> QED
      BY <1>5, <2>2, <2>3, <2>4 DEF Artifacts
  <1>6. CASE Return
    <2>1. pc' = "idle" /\ tier' = 1 /\ probe' = 1 /\ due' = {}
      BY <1>6 DEF Return
    <2> QED
      BY <2>1 DEF DueInv, InOrder, DueComplete, DueTried, Sought
  <1> QED
    BY <1>0, <1>1, <1>2, <1>3, <1>4, <1>5, <1>6, DueScan, DuePick, DueNextTier,
       DueExhausted, DueDescend, DueLocate, DueNotLocated, DueAscend DEF Next, Looking

\* What the traversal knows of the candidate and of what it has to find.
SearchInv ==
  TypeInv /\ IndexInv /\ WalkInv /\ PathInv /\ DigestsWhole /\ DueInv

LEMMA InitSearch == Init => SearchInv
  <1> SUFFICES ASSUME Init PROVE SearchInv
    OBVIOUS
  <1>1. PathInv
    BY DEF Init, PathInv, Descent, NoCycle, WithinDepth, Counted, Evaluating
  <1>2. DigestsWhole
    BY ManifestAssumption, PolicyAssumption DEF Init, DigestsWhole
  <1>3. DueInv
    BY DEF Init, DueInv, InOrder, DueComplete, DueTried, Sought
  <1> QED
    BY <1>1, <1>2, <1>3, InitType, InitIndex, InitWalk DEF SearchInv

\* A lookup misses no result that was complete when it began, unless a limit or
\* something the result stands on speaks against it, which may be that it is
\* also in a store that cannot be read: for any dependency graph, shared or
\* cyclic, any limits and stores, whichever of them fail and when, and
\* whatever is published, validated and invalidated meanwhile (reuse and
\* _evaluate in cache.py, with one _DependencyTraversal per candidate).
THEOREM NothingMissed == Spec => []NoFalseMiss
  <1>1. SearchInv /\ [Next]_vars => SearchInv'
    BY NextType, NextIndex, NextWalk, NextPath, NextDigests, NextDue DEF SearchInv
  <1>2. SearchInv => NoFalseMiss
    <2> SUFFICES ASSUME SearchInv, pc = "miss", NEW r \in due
                 PROVE  Refusable(r)
      BY DEF NoFalseMiss
    <2>1. tier > NumTiers /\ (Ahead(r) \/ Refusable(r))
      BY DEF SearchInv, DueInv, InOrder, DueTried
    <2>2. ~ Ahead(r)
      BY <2>1, PolicyAssumption DEF Ahead, Tier, SearchInv, TypeInv, TypeOK
    <2> QED
      BY <2>1, <2>2
  <1> QED
    BY <1>1, <1>2, InitSearch, PTL DEF Spec

-----------------------------------------------------------------------------
(* The end of a lookup.                                                     *)

Outcome == {"hit", "miss", "raise"}

\* The checks the call in progress has before it, and a call to come.
ChecksLeft ==
  CASE pc = "locate" -> 4 [] pc = "visit" -> 3 [] pc = "fresh" -> 2
    [] pc = "blobs" -> 1 [] OTHER -> 0

\* What a lookup still has to go through, the most significant part first:
\* its outcome, stores, candidates, edges, checks, then stores to ask for a
\* dependency or calls to return from.
Remaining ==
  << IF pc = "idle" THEN 0 ELSE IF pc \in Outcome THEN 1 ELSE 2,
     NumTiers + 1 - tier,
     IF pc = "scan" THEN 1 ELSE 0,
     Cardinality(cands),
     IF pc \in Evaluating THEN 1 ELSE 0,
     MaxEdges - edges,
     ChecksLeft,
     IF pc = "locate" THEN NumTiers + 1 - probe ELSE Len(stack) >>

\* The lexicographic order.
Below(a, b) == \E i \in DOMAIN b : a[i] < b[i] /\ \A j \in 1 .. i - 1 : a[j] = b[j]

\* A lookup under way comes nearer to its end with each of its steps, and no
\* step of anybody else sets it back.
Approaches ==
  pc # "idle" => IF Looking THEN Below(Remaining', Remaining) ELSE Remaining' = Remaining

Measured == \A i \in DOMAIN Remaining : Remaining[i] \in Nat

\* Past the last store there is none to ask.
WithinTiers == tier <= NumTiers + 1 /\ probe <= NumTiers + 1

LEMMA NextWithinTiers == TypeInv /\ WithinTiers /\ [Next]_vars => WithinTiers'
  <1> SUFFICES ASSUME TypeInv, WithinTiers, [Next]_vars PROVE WithinTiers'
    OBVIOUS
  <1>0. NumTiers \in Nat \ {0} /\ tier \in Nat \ {0} /\ probe \in Nat \ {0}
    BY PolicyAssumption DEF TypeInv, TypeOK
  <1>1. CASE UNCHANGED <<tier, probe>>
    BY <1>1 DEF WithinTiers
  <1>2. CASE Scan
    BY <1>0, <1>2 DEF Scan, WithinTiers
  <1>3. CASE NextTier
    BY <1>0, <1>3 DEF NextTier, WithinTiers, TypeInv, Shape
  <1>4. CASE Reject
    BY <1>0, <1>4 DEF Reject, WithinTiers
  <1>5. CASE Locate
    BY <1>0, <1>5 DEF Locate, WithinTiers
  <1>6. CASE Return
    BY <1>0, <1>6 DEF Return, WithinTiers
  <1>7. CASE Descend
    BY <1>1, <1>4, <1>7 DEF Descend
  <1>8. CASE Visit \/ Freshness \/ Artifacts \/ NotLocated
    BY <1>1, <1>4, <1>8 DEF Visit, Freshness, Artifacts, NotLocated, Advance, walk
  <1>9. CASE \/ Publishing \/ Recording \/ Tick \/ UNCHANGED vars
             \/ \E a \in Action, lax \in LaxModes, strict \in StrictModes : Start(a, lax, strict)
             \/ Pick \/ Ascend \/ Exhausted
    <2>1. UNCHANGED <<tier, probe>>
      BY <1>9 DEF Publishing, PublishResult, PutBlob, PutResult, PutAction, Abandon, Recording,
         PutValidation, PutInvalidation, Tick, vars, lookup, walk, Start, Pick, Ascend,
         Exhausted, Advance
    <2> QED
      BY <1>1, <2>1
  <1> QED
    BY <1>2, <1>3, <1>5, <1>6, <1>7, <1>8, <1>9 DEF Next, Looking

LEMMA RemainingIsMeasured ==
  ASSUME IsFiniteSet(Result), TypeInv, WithinTiers
  PROVE  Measured
  <1>1. Cardinality(cands) \in Nat
    BY FS_Subset, FS_CardinalityType DEF TypeInv, TypeOK
  <1>2. NumTiers + 1 - tier \in Nat /\ NumTiers + 1 - probe \in Nat
    BY PolicyAssumption DEF TypeInv, TypeOK, WithinTiers
  <1>3. MaxEdges - edges \in Nat
    BY PolicyAssumption DEF TypeInv, TypeOK
  <1>4. Len(stack) \in Nat
    <2>1. stack \in Seq(Frame)
      BY DEF TypeInv, TypeOK
    <2> QED
      BY <2>1
  <1>5. ChecksLeft \in 0 .. 4
    BY DEF ChecksLeft
  <1>6. DOMAIN Remaining = 1 .. 8
    BY DEF Remaining
  <1>7. Remaining[1] \in Nat /\ Remaining[3] \in Nat /\ Remaining[5] \in Nat
    BY DEF Remaining
  <1>8. Remaining[2] \in Nat /\ Remaining[4] \in Nat /\ Remaining[6] \in Nat
    BY <1>1, <1>2, <1>3 DEF Remaining
  <1>9. Remaining[7] \in Nat
    <2>1. Remaining[7] = ChecksLeft
      BY DEF Remaining
    <2> QED
      BY <1>5, <2>1
  <1>10. Remaining[8] \in Nat
    BY <1>2, <1>4 DEF Remaining
  <1> QED
    BY <1>6, <1>7, <1>8, <1>9, <1>10 DEF Measured

\* The first part in which two measures differ.
LEMMA BelowAt ==
  ASSUME NEW i \in 1 .. 8, Remaining'[i] < Remaining[i],
         \A j \in 1 .. i - 1 : Remaining'[j] = Remaining[j]
  PROVE  Below(Remaining', Remaining)
  <1>1. DOMAIN Remaining = 1 .. 8
    BY DEF Remaining
  <1> QED
    BY <1>1 DEF Below

LEMMA LookingApproaches ==
  ASSUME IsFiniteSet(Result), TypeInv, WithinTiers, WalkInv, Looking
  PROVE  Below(Remaining', Remaining)
  <1>0. /\ NumTiers \in Nat \ {0} /\ tier \in Nat \ {0} /\ probe \in Nat \ {0}
        /\ MaxEdges \in Nat /\ edges \in Nat /\ Len(stack) \in Nat
    BY PolicyAssumption DEF TypeInv, TypeOK
  <1> DEFINE R == Remaining
  <1>a. ASSUME pc' \in Outcome, pc \notin Outcome \cup {"idle"} PROVE R'[1] < R[1]
    BY <1>a DEF Remaining, Outcome
  <1>b. ASSUME pc \notin Outcome \cup {"idle"}, pc' \notin Outcome \cup {"idle"}
        PROVE  R'[1] = R[1]
    BY <1>b DEF Remaining
  <1>c. ASSUME UNCHANGED tier PROVE R'[2] = R[2]
    BY <1>c DEF Remaining
  <1>d. ASSUME pc # "scan", pc' # "scan" PROVE R'[3] = R[3]
    BY <1>d DEF Remaining
  <1>e. ASSUME UNCHANGED cands PROVE R'[4] = R[4]
    BY <1>e DEF Remaining
  <1>f. ASSUME pc \in Evaluating, pc' \in Evaluating PROVE R'[5] = R[5]
    BY <1>f DEF Remaining
  <1>g. ASSUME UNCHANGED edges PROVE R'[6] = R[6]
    BY <1>g DEF Remaining
  <1>h. R[7] = ChecksLeft /\ R'[7] = ChecksLeft'
    BY DEF Remaining
  <1> HIDE DEF R
  <1>r. ASSUME pc \in Evaluating \ {"hit"}, Reject PROVE Below(Remaining', Remaining)
    <2>1. pc' = "pick" /\ UNCHANGED <<tier, cands>>
      BY <1>r DEF Reject
    <2>2. R'[1] = R[1] /\ R'[2] = R[2] /\ R'[3] = R[3] /\ R'[4] = R[4]
      BY <1>b, <1>c, <1>d, <1>e, <1>r, <2>1 DEF Evaluating, Outcome
    <2>3. R'[5] < R[5]
      BY <1>r, <2>1 DEF R, Remaining, Evaluating
    <2> QED
      BY <2>2, <2>3, BelowAt DEF R
  <1>w. ASSUME pc \in Evaluating \ {"hit"}, pc' \in Evaluating \ {"hit"},
               UNCHANGED <<tier, cands, edges>>, ChecksLeft' < ChecksLeft
        PROVE  Below(Remaining', Remaining)
    <2>1. R'[1] = R[1] /\ R'[2] = R[2] /\ R'[3] = R[3] /\ R'[4] = R[4] /\ R'[5] = R[5]
          /\ R'[6] = R[6]
      BY <1>b, <1>c, <1>d, <1>e, <1>f, <1>g, <1>w DEF Evaluating, Outcome
    <2> QED
      BY <1>h, <1>w, <2>1, BelowAt DEF R
  <1>o. ASSUME pc' \in Outcome, pc \notin Outcome \cup {"idle"}
        PROVE  Below(Remaining', Remaining)
    BY <1>a, <1>o, BelowAt DEF R
  <1>1. CASE Scan
    <2>1. pc = "scan" /\ pc' \in {"scan", "pick"}
      BY <1>1 DEF Scan
    <2>2. R'[1] = R[1]
      BY <1>b, <2>1 DEF Outcome
    <2>3. CASE tier' = tier + 1
      <3>1. R'[2] < R[2]
        BY <1>0, <2>3 DEF R, Remaining
      <3> QED
        BY <2>2, <3>1, BelowAt DEF R
    <2>4. CASE pc' = "pick" /\ tier' = tier
      <3>1. R'[2] = R[2] /\ R'[3] < R[3]
        BY <2>1, <2>4 DEF R, Remaining
      <3> QED
        BY <2>2, <3>1, BelowAt DEF R
    <2> QED
      BY <1>1, <2>3, <2>4 DEF Scan
  <1>2. CASE Pick
    <2>1. PICK r \in cands : cands' = cands \ {r}
      BY <1>2 DEF Pick, First
    <2>2. pc = "pick" /\ pc' = "visit" /\ UNCHANGED tier
      BY <1>2 DEF Pick
    <2>3. R'[1] = R[1] /\ R'[2] = R[2] /\ R'[3] = R[3]
      BY <1>b, <1>c, <1>d, <2>2 DEF Outcome
    <2>4. Cardinality(cands') = Cardinality(cands) - 1 /\ Cardinality(cands) \in Nat
      BY <2>1, FS_Subset, FS_RemoveElement, FS_CardinalityType DEF TypeInv, TypeOK
    <2>5. R'[4] < R[4]
      BY <2>4 DEF R, Remaining
    <2> QED
      BY <2>3, <2>5, BelowAt DEF R
  <1>3. CASE NextTier
    <2>1. pc = "pick" /\ pc' = "scan" /\ tier' = tier + 1
      BY <1>3 DEF NextTier
    <2>2. R'[1] = R[1]
      BY <1>b, <2>1 DEF Outcome
    <2>3. R'[2] < R[2]
      BY <1>0, <2>1 DEF R, Remaining
    <2> QED
      BY <2>2, <2>3, BelowAt DEF R
  <1>4. ASSUME NEW from, NEW to, Advance(from, to),
               <<from, to>> \in {<<"visit", "fresh">>, <<"fresh", "blobs">>, <<"blobs", "deps">>}
        PROVE  Below(Remaining', Remaining)
    <2>1. pc = from /\ pc' = to /\ UNCHANGED <<tier, cands, edges>>
      BY <1>4 DEF Advance, walk
    <2>2. ChecksLeft' < ChecksLeft
      BY <1>4, <2>1 DEF ChecksLeft
    <2> QED
      BY <1>4, <1>w, <2>1, <2>2 DEF Evaluating
  <1>5. CASE Visit
    <2>1. pc \in Evaluating \ {"hit"}
      BY <1>5 DEF Visit, Evaluating
    <2> QED
      BY <1>4, <1>5, <1>r, <2>1 DEF Visit
  <1>6. CASE Freshness
    <2>1. pc \in Evaluating \ {"hit"}
      BY <1>6 DEF Freshness, Evaluating
    <2> QED
      BY <1>4, <1>6, <1>r, <2>1 DEF Freshness
  <1>7. CASE Artifacts
    <2>1. pc \in Evaluating \ {"hit"} /\ pc \notin Outcome \cup {"idle"}
      BY <1>7 DEF Artifacts, Evaluating, Outcome
    <2>2. CASE Advance("blobs", "raise")
      BY <1>o, <2>1, <2>2 DEF Advance, Outcome
    <2> QED
      BY <1>4, <1>7, <1>r, <2>1, <2>2 DEF Artifacts
  <1>8. CASE Descend
    <2>1. pc = "deps" /\ pc \in Evaluating \ {"hit"}
      BY <1>8 DEF Descend, Evaluating
    <2>2. CASE Reject
      BY <1>r, <2>1, <2>2
    <2>3. CASE pc' = "locate" /\ edges' = edges + 1 /\ UNCHANGED <<tier, cands>>
      <3>1. pc' \in Evaluating
        BY <2>3 DEF Evaluating
      <3>2. R'[1] = R[1] /\ R'[2] = R[2] /\ R'[3] = R[3] /\ R'[4] = R[4] /\ R'[5] = R[5]
        BY <1>b, <1>c, <1>d, <1>e, <1>f, <2>1, <2>3, <3>1 DEF Outcome
      <3>3. R'[6] < R[6]
        BY <1>0, <2>3 DEF R, Remaining
      <3> QED
        BY <3>2, <3>3, BelowAt DEF R
    <2> QED
      BY <1>8, <2>2, <2>3 DEF Descend
  <1>9. CASE Locate
    <2>1. pc = "locate" /\ UNCHANGED <<tier, cands, edges>>
      BY <1>9 DEF Locate
    <2>2. CASE pc' = "visit"
      <3>1. ChecksLeft' < ChecksLeft
        BY <2>1, <2>2 DEF ChecksLeft
      <3> QED
        BY <1>w, <2>1, <2>2, <3>1 DEF Evaluating
    <2>3. CASE probe' = probe + 1 /\ UNCHANGED pc
      <3>1. pc \in Evaluating /\ pc' \in Evaluating
        BY <2>1, <2>3 DEF Evaluating
      <3>2. R'[1] = R[1] /\ R'[2] = R[2] /\ R'[3] = R[3] /\ R'[4] = R[4] /\ R'[5] = R[5]
            /\ R'[6] = R[6]
        BY <1>b, <1>c, <1>d, <1>e, <1>f, <1>g, <2>1, <2>3, <3>1 DEF Outcome
      <3>3. R'[7] = R[7]
        BY <1>h, <2>3 DEF ChecksLeft
      <3>4. R'[8] < R[8]
        BY <1>0, <2>1, <2>3 DEF R, Remaining
      <3> QED
        BY <3>2, <3>3, <3>4, BelowAt DEF R
    <2> QED
      BY <1>9, <2>2, <2>3 DEF Locate
  <1>10. CASE NotLocated
    BY <1>10, <1>r DEF NotLocated, Evaluating
  <1>11. CASE Ascend
    <2>1. pc = "deps" /\ pc \in Evaluating /\ UNCHANGED <<tier, cands, edges>>
      BY <1>11 DEF Ascend, Evaluating
    <2>2. CASE depth = 0
      BY <1>11, <1>o, <2>1, <2>2 DEF Ascend, Outcome
    <2>3. CASE depth # 0
      <3>1. pc' = "deps" /\ stack' = SubSeq(stack, 1, depth)
        BY <1>11, <2>3 DEF Ascend
      <3>2. Len(stack') = Len(stack) - 1
        BY <2>1, <2>3, <3>1, PopFrame
      <3>3. R'[1] = R[1] /\ R'[2] = R[2] /\ R'[3] = R[3] /\ R'[4] = R[4] /\ R'[5] = R[5]
            /\ R'[6] = R[6]
        BY <1>b, <1>c, <1>d, <1>e, <1>f, <1>g, <2>1, <3>1 DEF Outcome
      <3>4. R'[7] = R[7]
        BY <1>h, <2>1, <3>1 DEF ChecksLeft
      <3>5. pc # "locate" /\ pc' # "locate"
        BY <2>1, <3>1
      <3>6. R[8] = Len(stack) /\ R'[8] = Len(stack')
        BY <3>5 DEF R, Remaining
      <3>7. R'[8] < R[8]
        BY <1>0, <3>2, <3>6
      <3> QED
        BY <3>3, <3>4, <3>7, BelowAt DEF R
    <2> QED
      BY <2>2, <2>3
  <1>12. CASE Exhausted
    BY <1>12, <1>o DEF Exhausted, Advance, Outcome
  <1>13. CASE Return
    <2>1. R'[1] < R[1]
      BY <1>13 DEF Return, R, Remaining, Outcome
    <2> QED
      BY <2>1, BelowAt DEF R
  <1> QED
    BY <1>1, <1>2, <1>3, <1>5, <1>6, <1>7, <1>8, <1>9, <1>10, <1>11, <1>12, <1>13 DEF Looking

\* reuse ends: each step of a lookup takes it nearer to its answer in an order
\* without infinite descent, and nobody else's step takes it back, for any
\* dependency graph, cyclic ones too, any stores, unreadable ones too, and
\* any number of publications and records meanwhile.
THEOREM LookupsApproachTheirEnd ==
  ASSUME IsFiniteSet(Result)
  PROVE  Spec => []Measured /\ [][Approaches]_vars
  <1> DEFINE I == TypeInv /\ IndexInv /\ WalkInv /\ WithinTiers
  <1>1. Init => I
    <2>1. Init => WithinTiers
      BY PolicyAssumption DEF Init, WithinTiers
    <2> QED
      BY <2>1, InitType, InitIndex, InitWalk
  <1>2. I /\ [Next]_vars => I'
    BY NextType, NextIndex, NextWalk, NextWithinTiers
  <1>3. I => Measured
    BY RemainingIsMeasured
  <1>4. I /\ [Next]_vars => [Approaches]_vars
    <2> SUFFICES ASSUME I, Next, pc # "idle" PROVE Approaches
      BY DEF Approaches
    <2>1. CASE Looking
      BY <2>1, LookingApproaches DEF Approaches
    <2>2. CASE ~ Looking
      <3>1. UNCHANGED lookup
        BY <2>2 DEF Next, Publishing, PublishResult, PutBlob, PutResult, PutAction, Abandon,
           Recording, PutValidation, PutInvalidation, Tick, Start
      <3>2. UNCHANGED <<pc, tier, cands, edges, probe, stack>>
        BY <3>1 DEF lookup, walk
      <3> QED
        BY <2>2, <3>2 DEF Approaches, Remaining, ChecksLeft
    <2> QED
      BY <2>1, <2>2
  <1> HIDE DEF I
  <1> QED
    BY <1>1, <1>2, <1>3, <1>4, PTL DEF Spec
=============================================================================
