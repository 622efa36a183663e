---------------------------- MODULE ResultStore ----------------------------
(***************************************************************************)
(* The content-addressed result store (store.py, FilesystemStore) and the  *)
(* ordered lookup over several stores with lineage (cache.py).             *)
(*                                                                         *)
(* A manifest is immutable and named by its digest, so what manifests say  *)
(* is constant and only where they are stored is state.  A publication is  *)
(* a series of atomic file creations that may stop after any of them.  A   *)
(* lookup reads the same files one after the other, without any lock,      *)
(* while publications, validations and invalidations go on; it walks the   *)
(* dependency graph depth first, and its call stack is explicit here.      *)
(* Readers write nothing, so one reader stands for any number of them.     *)
(***************************************************************************)
EXTENDS Integers, Sequences, FiniteSets, FiniteSetsExt

CONSTANTS
  Publisher,          \* concurrent calls of publish_result
  Result, Action, Blob,
  ActionOf, BlobsOf, DepsOf, ProducedAt, FreshUntil,  \* what manifests say
  NoExpiry,           \* fresh_until: null
  Lineage,            \* the manifests of oncemesh.result/v1
  Distrusted,         \* the manifests of producers outside the policy
  NumTiers,           \* the stores of a lookup, in order
  Flaky,              \* tiers whose files may fail to be read
  Seed,               \* what complete earlier publications left in each tier
  LaxModes, StrictModes, PermitNoExpiry,  \* lookups that are made
  MaxDepth, MaxEdges, \* policy.max_dependency_depth, max_dependency_count
  Second,             \* clock ticks in a second
  Publishable,        \* bound: <<result, tier>> that publishers may publish
  Recordable,         \* bound: <<result, tier>> that get records
  MaxTime,            \* bound: last clock reading
  MaxRecords          \* bound: validation and invalidation records in all

Tier == 1 .. NumTiers

ASSUME ManifestAssumption ==
  /\ ActionOf \in [Result -> Action]
  /\ BlobsOf \in [Result -> SUBSET Blob]
  /\ DepsOf \in [Result -> SUBSET Result]
  /\ ProducedAt \in [Result -> Nat]
  /\ FreshUntil \in [Result -> Nat \cup {NoExpiry}]
  /\ NoExpiry \notin Nat
  /\ Lineage \subseteq Result
  /\ \A r \in Result \ Lineage : DepsOf[r] = {}
ASSUME PolicyAssumption ==
  /\ NumTiers \in Nat \ {0} /\ Flaky \subseteq Tier
  /\ Seed \in [Tier -> SUBSET Result]
  /\ LaxModes \subseteq BOOLEAN /\ StrictModes \subseteq BOOLEAN
  /\ PermitNoExpiry \in BOOLEAN
  /\ MaxDepth \in Nat \ {0} /\ MaxEdges \in Nat \ {0}
  /\ Second \in Nat \ {0} /\ MaxTime \in Nat /\ MaxRecords \in Nat
  /\ Publishable \subseteq Result \X Tier /\ Recordable \subseteq Result \X Tier

VARIABLES
  blobs, byDigest, byAction,  \* [Tier -> the files of blobs/, results/, actions/]
  valid, invalid,             \* [Tier -> validation and invalidation records]
  clock,
  pub,       \* [Publisher -> the running publication]
  pc,        \* where the lookup is
  query,     \* its arguments: [action, now, lax, strict]
  tier,      \* the store whose candidates it tries
  cands,     \* candidates of that store not tried yet
  stack,     \* the calls of _evaluate, the root candidate first
  edges,     \* traversal.edges
  want, probe, \* _locate_result: the dependency sought, the store to ask next
  checked,   \* history: <<result, tier>> of evaluations that returned success
  known,     \* history: the invalidations committed when the lookup began
  due        \* history: complete results of the action when it began

stores == <<blobs, byDigest, byAction, valid, invalid>>
walk == <<tier, cands, stack, edges, want, probe>>
history == <<checked, known, due>>
lookup == <<pc, query, walk, history>>
vars == <<stores, clock, pub, lookup>>

Validation == [res : Result, until : Nat, trusted : BOOLEAN]
Invalidation == [res : Result, at : Nat, trusted : BOOLEAN]
Frame == [res : Result, tier : Tier, todo : SUBSET Result]
Publication ==
  [st : {"blobs", "action"}, res : Result, tier : Tier, todo : SUBSET Blob]
Query == [action : Action, now : Nat, lax : BOOLEAN, strict : BOOLEAN]
Location == {"idle", "scan", "pick", "visit", "fresh", "blobs", "deps",
             "locate", "hit", "miss", "raise"}

NoPublication == [st |-> "idle"]
NoQuery == [now |-> 0]

TypeOK ==
  /\ blobs \in [Tier -> SUBSET Blob]
  /\ byDigest \in [Tier -> SUBSET Result]
  /\ byAction \in [Tier -> SUBSET Result]
  /\ valid \in [Tier -> SUBSET Validation]
  /\ invalid \in [Tier -> SUBSET Invalidation]
  /\ clock \in Nat
  /\ pub \in [Publisher -> Publication \cup {NoPublication}]
  /\ pc \in Location
  /\ query \in Query \cup {NoQuery}
  /\ tier \in Nat \ {0}
  /\ cands \subseteq Result
  /\ stack \in Seq(Frame)
  /\ edges \in 0 .. MaxEdges
  /\ want \subseteq Result
  /\ probe \in Nat \ {0}
  /\ checked \subseteq Result \X Tier
  /\ known \in [Tier -> SUBSET Invalidation]
  /\ due \subseteq Result

-----------------------------------------------------------------------------
\* The results r stands on: in every set that holds r and is closed under
\* dependencies.  r itself is one of them.
Closure(r) ==
  {d \in Result : \A C \in SUBSET Result :
     (r \in C /\ \A x \in C : DepsOf[x] \subseteq C) => d \in C}

\* produced_at is compared as text.  isoformat leaves the fraction out when
\* it is zero, and "Z" sorts after ".", so a whole second sorts after every
\* other instant of that second.
SortKey(t) == IF t % Second = 0 THEN t + Second ELSE t

\* The candidates first in FilesystemStore.candidates' order.
First(S) == {r \in S : \A s \in S : SortKey(ProducedAt[s]) <= SortKey(ProducedAt[r])}

\* A trusted record among recs has taken effect on r at time t.
Invalidated(recs, r, t) ==
  \E rec \in recs : rec.res = r /\ rec.trusted /\ rec.at <= t

\* A trusted record among recs says r is fresh at time t.
Validated(recs, r, t) ==
  \E rec \in recs : rec.res = r /\ rec.trusted /\ rec.until >= t

FreshAt(recs, r, t) ==
  \/ FreshUntil[r] # NoExpiry /\ FreshUntil[r] >= t
  \/ Validated(recs, r, t)
  \/ FreshUntil[r] = NoExpiry /\ PermitNoExpiry

Stored(r, t) == r \in byDigest[t] /\ BlobsOf[r] \subseteq blobs[t]

Init ==
  /\ byDigest = Seed
  /\ byAction = Seed
  /\ blobs = [t \in Tier |-> UNION {BlobsOf[r] : r \in Seed[t]}]
  /\ valid = [t \in Tier |-> {}]
  /\ invalid = [t \in Tier |-> {}]
  /\ clock = 0
  /\ pub = [p \in Publisher |-> NoPublication]
  /\ pc = "idle" /\ query = NoQuery
  /\ tier = 1 /\ cands = {} /\ stack = <<>> /\ edges = 0
  /\ want = {} /\ probe = 1
  /\ checked = {} /\ known = invalid /\ due = {}

-----------------------------------------------------------------------------
(* publish_result.  _atomic_write links a finished temporary file to its    *)
(* place or leaves the file that is there: it adds to a set, in one step.   *)

PublishResult(p, r, t) ==
  /\ pub[p] = NoPublication
  /\ pub' = [pub EXCEPT ![p] = [st |-> "blobs", res |-> r, tier |-> t,
                                todo |-> BlobsOf[r]]]
  /\ UNCHANGED <<stores, clock, lookup>>

PutBlob(p) ==
  /\ pub[p].st = "blobs"
  /\ \E b \in pub[p].todo :
       /\ blobs' = [blobs EXCEPT ![pub[p].tier] = @ \cup {b}]
       /\ pub' = [pub EXCEPT ![p].todo = @ \ {b}]
  /\ UNCHANGED <<byDigest, byAction, valid, invalid, clock, lookup>>

\* Mutant: the manifest goes in while artifacts are still missing.
PutResultEarly(p) ==
  /\ pub[p].st = "blobs"
  /\ byDigest' = [byDigest EXCEPT ![pub[p].tier] = @ \cup {pub[p].res}]
  /\ pub' = [pub EXCEPT ![p].st = "action"]
  /\ UNCHANGED <<blobs, byAction, valid, invalid, clock, lookup>>

\* put_result, first the file under results/ ...
PutResult(p) ==
  /\ pub[p].st = "blobs" /\ pub[p].todo = {}
  /\ byDigest' = [byDigest EXCEPT ![pub[p].tier] = @ \cup {pub[p].res}]
  /\ pub' = [pub EXCEPT ![p].st = "action"]
  /\ UNCHANGED <<blobs, byAction, valid, invalid, clock, lookup>>

\* ... then the one under actions/, by which lookups find it.
PutAction(p) ==
  /\ pub[p].st = "action"
  /\ byAction' = [byAction EXCEPT ![pub[p].tier] = @ \cup {pub[p].res}]
  /\ pub' = [pub EXCEPT ![p] = NoPublication]
  /\ UNCHANGED <<blobs, byDigest, valid, invalid, clock, lookup>>

\* The process ends, or a write raises OSError out of publish_result.
Abandon(p) ==
  /\ pub[p] # NoPublication
  /\ pub' = [pub EXCEPT ![p] = NoPublication]
  /\ UNCHANGED <<stores, clock, lookup>>

\* Bound on exploration: how many records there are.
Recorded == MapThenSumSet(LAMBDA t : Cardinality(valid[t]) + Cardinality(invalid[t]), Tier)

PutValidation(t, rec) ==
  /\ Recorded < MaxRecords
  /\ valid' = [valid EXCEPT ![t] = @ \cup {rec}]
  /\ UNCHANGED <<blobs, byDigest, byAction, invalid, clock, pub, lookup>>

PutInvalidation(t, rec) ==
  /\ Recorded < MaxRecords
  /\ invalid' = [invalid EXCEPT ![t] = @ \cup {rec}]
  /\ UNCHANGED <<blobs, byDigest, byAction, valid, clock, pub, lookup>>

Tick ==
  /\ clock < MaxTime
  /\ clock' = clock + 1
  /\ UNCHANGED <<stores, pub, lookup>>

-----------------------------------------------------------------------------
(* reuse, and candidate_for_revalidation (lax), which ignores the freshness *)
(* of the root.  strict is policy.require_lineage.                          *)

top == stack[Len(stack)]
depth == Len(stack) - 1

\* A result of the action that is on record with all it stands on.
Complete(r, a) ==
  /\ ActionOf[r] = a
  /\ \E t \in Tier : r \in byAction[t]
  /\ \A d \in Closure(r) : \E t \in Tier : d \in byDigest[t]

Start(a, lax, strict) ==
  /\ pc = "idle"
  /\ pc' = "scan"
  /\ query' = [action |-> a, now |-> clock, lax |-> lax, strict |-> strict]
  /\ known' = invalid
  /\ due' = {r \in Result : Complete(r, a)}
  /\ UNCHANGED <<stores, clock, pub, walk, checked>>

\* store.candidates, or, when a file cannot be read, the next store.
Scan ==
  /\ pc = "scan" /\ tier <= NumTiers
  /\ \/ /\ cands' = {r \in byAction[tier] : ActionOf[r] = query.action}
        /\ pc' = "pick" /\ tier' = tier
     \/ /\ tier \in Flaky
        /\ tier' = tier + 1
        /\ UNCHANGED <<pc, cands>>
  /\ UNCHANGED <<stores, clock, pub, query, stack, edges, want, probe, history>>

\* Mutant: one traversal for all candidates of the lookup.
PickSharesTraversal ==
  /\ pc = "pick"
  /\ \E r \in First(cands) :
       /\ cands' = cands \ {r}
       /\ stack' = <<[res |-> r, tier |-> tier, todo |-> DepsOf[r]]>>
  /\ pc' = "visit" /\ checked' = {}
  /\ UNCHANGED <<stores, clock, pub, query, tier, edges, want, probe,
                 known, due>>

\* The next candidate, with a new _DependencyTraversal.
Pick ==
  /\ pc = "pick"
  /\ \E r \in First(cands) :
       /\ cands' = cands \ {r}
       /\ stack' = <<[res |-> r, tier |-> tier, todo |-> DepsOf[r]]>>
  /\ pc' = "visit"
  /\ edges' = 0 /\ checked' = {}
  /\ UNCHANGED <<stores, clock, pub, query, tier, want, probe, known, due>>

\* Mutant: the same store is asked again.
NextTierStays ==
  /\ pc = "pick" /\ cands = {}
  /\ pc' = "scan"
  /\ UNCHANGED <<stores, clock, pub, query, walk, history>>

NextTier ==
  /\ pc = "pick" /\ cands = {}
  /\ pc' = "scan" /\ tier' = tier + 1
  /\ UNCHANGED <<stores, clock, pub, query, cands, stack, edges, want, probe, history>>

\* A failure at any depth fails the root candidate.
Reject ==
  /\ pc' = "pick" /\ stack' = <<>> /\ want' = {} /\ probe' = 1
  /\ UNCHANGED <<stores, clock, pub, query, tier, cands, edges, history>>

Advance(from, to) ==
  /\ pc = from /\ pc' = to
  /\ UNCHANGED <<stores, clock, pub, query, walk, history>>

\* Mutant: only the root candidate is looked up in the invalidations.
AcceptableRootOnly ==
  /\ query.strict => top.res \in Lineage
  /\ depth <= MaxDepth
  /\ \A i \in 1 .. depth : stack[i].res # top.res
  /\ top.res \notin Distrusted
  /\ depth = 0 => ~ Invalidated(invalid[top.tier], top.res, query.now)

\* _evaluate up to and with _effective_invalidated.
Acceptable ==
  /\ query.strict => top.res \in Lineage
  /\ depth <= MaxDepth
  /\ \A i \in 1 .. depth : stack[i].res # top.res
  /\ top.res \notin Distrusted
  /\ ~ Invalidated(invalid[top.tier], top.res, query.now)

Visit ==
  /\ pc = "visit"
  /\ \/ Acceptable /\ Advance("visit", "fresh")
     \/ (~ Acceptable \/ top.tier \in Flaky) /\ Reject

\* The freshness rule, with the validations of the result's own store.
FreshEnough ==
  \/ query.lax /\ depth = 0
  \/ FreshAt(valid[top.tier], top.res, query.now)

Freshness ==
  /\ pc = "fresh"
  /\ \/ FreshEnough /\ Advance("fresh", "blobs")
     \/ (~ FreshEnough \/ top.tier \in Flaky) /\ Reject

\* An unreadable blob raises StoreReadError out of the lookup.
Artifacts ==
  /\ pc = "blobs"
  /\ \/ BlobsOf[top.res] \subseteq blobs[top.tier] /\ Advance("blobs", "deps")
     \/ ~ (BlobsOf[top.res] \subseteq blobs[top.tier]) /\ Reject
     \/ top.tier \in Flaky /\ Advance("blobs", "raise")

\* The next dependency, within the limit on edges.
Descend ==
  /\ pc = "deps"
  /\ \E d \in top.todo :
       IF edges + 1 > MaxEdges
       THEN Reject
       ELSE /\ pc' = "locate" /\ want' = {d}
            /\ edges' = edges + 1
            /\ stack' = [stack EXCEPT ![Len(stack)].todo = @ \ {d}]
            /\ UNCHANGED <<stores, clock, pub, query, tier, cands, probe,
                           checked, known, due>>

\* _locate_result: the first store that has the manifest.
Locate ==
  /\ pc = "locate" /\ probe <= NumTiers
  /\ \E d \in want :
       \/ /\ d \in byDigest[probe]
          /\ stack' = Append(stack, [res |-> d, tier |-> probe, todo |-> DepsOf[d]])
          /\ pc' = "visit" /\ want' = {} /\ probe' = 1
       \/ /\ d \notin byDigest[probe] \/ probe \in Flaky
          /\ probe' = probe + 1
          /\ UNCHANGED <<pc, stack, want>>
  /\ UNCHANGED <<stores, clock, pub, query, tier, cands, edges, history>>

NotLocated == pc = "locate" /\ probe > NumTiers /\ Reject

\* _evaluate returns success: to its caller, or, at the root, out of reuse.
Ascend ==
  /\ pc = "deps" /\ top.todo = {}
  /\ IF depth = 0
     THEN /\ pc' = "hit"
          /\ UNCHANGED <<stack, checked>>
     ELSE /\ pc' = "deps"
          /\ stack' = SubSeq(stack, 1, depth)
          /\ checked' = checked \cup {<<top.res, top.tier>>}
  /\ UNCHANGED <<stores, clock, pub, query, tier, cands, edges, want, probe,
                 known, due>>

Exhausted ==
  /\ tier > NumTiers
  /\ Advance("scan", "miss")

\* The outcome is with the caller.
Return ==
  /\ pc \in {"hit", "miss", "raise"}
  /\ pc' = "idle" /\ query' = NoQuery
  /\ tier' = 1 /\ cands' = {} /\ stack' = <<>> /\ edges' = 0
  /\ want' = {} /\ probe' = 1
  /\ checked' = {} /\ known' = [t \in Tier |-> {}] /\ due' = {}
  /\ UNCHANGED <<stores, clock, pub>>

Publishing ==
  \E p \in Publisher :
    \/ \E r \in Result, t \in Tier :
         <<r, t>> \in Publishable /\ PublishResult(p, r, t)
    \/ PutBlob(p) \/ PutResult(p) \/ PutAction(p) \/ Abandon(p)

Recording ==
  \E t \in Tier, r \in Result, at \in 0 .. MaxTime, trusted \in BOOLEAN :
    /\ <<r, t>> \in Recordable
    /\ \/ PutValidation(t, [res |-> r, until |-> at, trusted |-> trusted])
       \/ PutInvalidation(t, [res |-> r, at |-> at, trusted |-> trusted])

Looking ==
  \/ Scan \/ Pick \/ NextTier \/ Visit \/ Freshness \/ Artifacts
  \/ Descend \/ Locate \/ NotLocated \/ Ascend \/ Exhausted \/ Return

Next ==
  \/ Publishing \/ Recording \/ Tick
  \/ \E a \in Action, lax \in LaxModes, strict \in StrictModes : Start(a, lax, strict)
  \/ Looking

Spec == Init /\ [][Next]_vars

\* The thread of a lookup is scheduled; it waits for nothing.
FairSpec == Spec /\ WF_vars(Looking)

-----------------------------------------------------------------------------
(* Properties.                                                              *)

\* put_blob comes before put_result, and results/ before actions/: wherever a
\* publication stops, what the action index names can be resolved in the same
\* store, with its artifacts (derived-result-lineage-v0, section 6).
IndexResolves ==
  \A t \in Tier : \A r \in byAction[t] : Stored(r, t)

\* d passes every check of _evaluate in tier t for the running lookup, by the
\* invalidations that were committed before it began.
Admissible(d, t) ==
  /\ Stored(d, t)
  /\ d \notin Distrusted
  /\ query.strict => d \in Lineage
  /\ ~ Invalidated(known[t], d, query.now)

\* A hit is admissible through its whole lineage, however the stores changed
\* during the traversal: everything it stands on is stored with its artifacts,
\* trusted, fresh, and not invalidated before the lookup began.
HitIsAdmissible ==
  pc = "hit" =>
    \A d \in Closure(stack[1].res) :
      \E t \in Tier :
        /\ Admissible(d, t)
        /\ d = stack[1].res => t = stack[1].tier
        /\ FreshAt(valid[t], d, query.now) \/ (query.lax /\ d = stack[1].res)

\* The chains of n dependencies down from r.  The traversal walks an edge once
\* for every chain that ends with it.
Chain(r, n) ==
  {w \in [0 .. n -> Result] : w[0] = r /\ \A i \in 1 .. n : w[i] \in DepsOf[w[i - 1]]}
Chains(r) == UNION {Chain(r, n) : n \in 1 .. MaxDepth + 1}

TooDeep(r) == Chain(r, MaxDepth + 1) # {}
TooMany(r) == \E S \in SUBSET Chains(r) : IsFiniteSet(S) /\ Cardinality(S) > MaxEdges

\* Why a lookup may reject r: a limit, or something it stands on, which may
\* also be in a store that cannot be read.
Refusable(r) ==
  \/ TooMany(r) \/ TooDeep(r)
  \/ \E d \in Closure(r) :
       \/ d \in Distrusted
       \/ query.strict /\ d \notin Lineage
       \/ \E t \in Tier : Invalidated(invalid[t], d, query.now)
       \/ \E t \in Flaky : d \in byDigest[t]
       \/ ~ FreshAt({}, d, query.now) /\ ~ (query.lax /\ d = r)

\* A lookup does not miss what it should find, also when it has to pass over
\* stores that fail: no result of the action was complete when it began, is
\* fresh, trusted and within the limits through its lineage, is not invalidated
\* even now, and has all of its lineage in stores that can be read.
NoFalseMiss == pc = "miss" => \A r \in due : Refusable(r)

\* A lookup ends, whatever the other processes do meanwhile: candidates,
\* stores and the dependency graph are finite and each is tried once.
LookupEnds == (pc # "idle") ~> (pc = "idle")
=============================================================================
