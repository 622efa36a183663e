------------------------- MODULE IndexedCacheProofs -------------------------
(***************************************************************************)
(* Theorems about IndexedCache for any number of processes, keys, values   *)
(* and calls.                                                              *)
(***************************************************************************)
EXTENDS IndexedCache, TLAPS

Critical == {"read", "publish", "commit", "unlock"}

\* The publisher runs for a put only, with the identifier drawn for it.
PublishIsPut ==
  \A c \in Client : pc[c] = "publish" => call[c].op = "put" /\ pub[c] \in Pub

\* Whoever is between taking and releasing the index lock holds it.
CriticalHoldsLock == \A c \in Client : pc[c] \in Critical => lock = c

\* Identifiers in use were drawn, and the one of a put that has not published
\* yet is in no object.
PubsDrawn ==
  /\ \A o \in objects : o.pub < nextPub
  /\ \A c \in Client : pc[c] = "publish" =>
       pub[c] < nextPub /\ \A o \in objects : o.pub # pub[c]

\* An inactive entry names no publication.
InactiveIsClean == \A k \in Key : ~index[k].active => index[k].pub = NoPub

Inv ==
  /\ PublishIsPut
  /\ CriticalHoldsLock
  /\ SnapshotCurrent
  /\ PubsDrawn
  /\ IdentityUnique
  /\ InactiveIsClean

\* The inductive invariant.
IInv == TypeOK /\ Inv

\* A put on its way to publish: the bridge was enabled when the call began.
Publishing(c) == pc[c] \in {"lock", "read", "publish"} /\ call[c].op = "put"

\* While no bridge is disabled under a call of its own, a put still finds it
\* enabled when it publishes, and has its object stored when it commits.
PutStored ==
  /\ \A c \in Client : Publishing(c) => enabled[c]
  /\ \A c \in Client : pc[c] = "commit" /\ call[c].op = "put" =>
       \A k \in call[c].keys :
         \E o \in objects :
           o.key = k /\ o.gen = NextGen(snap[c][k]) /\ o.pub = pub[c]

-----------------------------------------------------------------------------
\* Type correctness.

LEMMA TypeInit == Init => TypeOK
  BY NoPubAssumption DEF Init, TypeOK, ImplTypeOK, Mutex!Init, Mutex!TypeOK, Absent, Entry, Pub,
     NoCall, Call, NoAnswer, Location

LEMMA FinishType ==
  ASSUME ImplTypeOK, NEW c \in Client, Finish(c)
  PROVE  /\ pc' \in [Client -> Location]
         /\ call' \in [Client -> Call]
         /\ snap' \in [Client -> [Key -> Entry]]
         /\ pub' \in [Client -> Pub \cup {NoPub}]
         /\ todo' \in [Client -> SUBSET Key]
         /\ rev' \in [Client -> SUBSET [key : Key, entry : Entry]]
         /\ answer' \in [Client -> [Key -> Val \cup {NoVal}]]
  BY DEF ImplTypeOK, Finish, Goto, Location, NoCall, Call, Absent, Entry, Pub, NoAnswer

LEMMA BeginType ==
  ASSUME ImplTypeOK, NEW c \in Client,
         NEW op, NEW keys \in SUBSET Key, NEW val,
         [op |-> op, keys |-> keys, val |-> val] \in Call,
         NEW at \in Location, Begin(c, op, keys, val, at)
  PROVE  ImplTypeOK'
  BY DEF ImplTypeOK, Begin, Goto, Mutex!TypeOK

LEMMA CallsType ==
  ASSUME ImplTypeOK, NEW c \in Client
  PROVE  /\ Put(c) => ImplTypeOK'
         /\ PreparePut(c) => ImplTypeOK'
         /\ Activate(c) => ImplTypeOK'
         /\ Delete(c) => ImplTypeOK'
         /\ ClearNamespace(c) => ImplTypeOK'
         /\ ClearAll(c) => ImplTypeOK'
         /\ Get(c) => ImplTypeOK'
         /\ GetAll(c) => ImplTypeOK'
  <1>1. Put(c) => ImplTypeOK'
    BY BeginType DEF Put, Call, Location
  <1>2. PreparePut(c) => ImplTypeOK'
    BY BeginType DEF PreparePut, Call, Location
  <1>3. Activate(c) => ImplTypeOK'
    BY BeginType DEF Activate, Call, Location
  <1>4. Delete(c) => ImplTypeOK'
    BY BeginType DEF Delete, Call, Location
  <1>5. ClearNamespace(c) => ImplTypeOK'
    BY BeginType DEF ClearNamespace, KeysOf, Call, Location
  <1>6. ClearAll(c) => ImplTypeOK'
    BY BeginType DEF ClearAll, Call, Location
  <1>7. Get(c) => ImplTypeOK'
    BY BeginType DEF Get, Call, Location
  <1>8. GetAll(c) => ImplTypeOK'
    BY BeginType DEF GetAll, KeysOf, Call, Location
  <1> QED
    BY <1>1, <1>2, <1>3, <1>4, <1>5, <1>6, <1>7, <1>8

LEMMA PublishType ==
  ASSUME ImplTypeOK, NEW c \in Client, Publish(c), PublishIsPut
  PROVE  ImplTypeOK'
  <1>1. call[c].val \in Val /\ pub[c] \in Pub /\ call[c].keys \subseteq Key
    BY DEF Publish, PublishIsPut, ImplTypeOK, Call
  <1>2. \A k \in call[c].keys : NextGen(snap[c][k]) \in Nat
    BY <1>1 DEF ImplTypeOK, NextGen, Entry
  <1>3. objects' \subseteq Object
    BY <1>1, <1>2 DEF Publish, ImplTypeOK, Object
  <1> QED
    BY <1>3 DEF Publish, ImplTypeOK, clientVars, Goto, Location, Mutex!TypeOK

LEMMA MutatedType ==
  ASSUME ImplTypeOK, NEW c \in Client, NEW e \in Entry
  PROVE  Mutated(c, e) \in Entry
  BY DEF ImplTypeOK, Mutated, Published, Prepared, Activated, Removed, NextGen, Entry, Pub

LEMMA CommitType ==
  ASSUME ImplTypeOK, NEW c \in Client, Commit(c)
  PROVE  ImplTypeOK'
  <1>1. index' \in [Key -> Entry]
    BY MutatedType DEF Commit, ImplTypeOK
  <1> QED
    BY <1>1 DEF Commit, ImplTypeOK, clientVars, Goto, Location, Mutex!TypeOK

LEMMA ReadRevisionType ==
  ASSUME ImplTypeOK, NEW c \in Client, ReadRevision(c)
  PROVE  ImplTypeOK'
  <1>1. PICK k \in todo[c] :
          /\ todo' = [todo EXCEPT ![c] = @ \ {k}]
          /\ IF index[k].active
             THEN /\ rev' = [rev EXCEPT ![c] = {[key |-> k, entry |-> index[k]]}]
                  /\ Goto(c, "lookup")
             ELSE /\ Goto(c, IF todo[c] = {k} THEN "return" ELSE "revision")
                  /\ UNCHANGED rev
    BY DEF ReadRevision
  <1>2. k \in Key /\ index[k] \in Entry
    BY DEF ImplTypeOK
  <1>3. rev' \in [Client -> SUBSET [key : Key, entry : Entry]]
    <2>1. {[key |-> k, entry |-> index[k]]} \in SUBSET [key : Key, entry : Entry]
      BY <1>2
    <2> QED
      BY <1>1, <2>1 DEF ImplTypeOK
  <1>4. pc' \in [Client -> Location] /\ todo' \in [Client -> SUBSET Key]
    BY <1>1 DEF ImplTypeOK, Goto, Location
  <1> QED
    BY <1>3, <1>4 DEF ReadRevision, ImplTypeOK, Mutex!TypeOK

LEMMA ValueType ==
  ASSUME ImplTypeOK, NEW k, NEW e
  PROVE  ValueAt(k, e) \in Val \cup {NoVal}
  BY DEF ImplTypeOK, ValueAt, Stored, Object

LEMMA LookupType ==
  ASSUME ImplTypeOK, NEW c \in Client, Lookup(c)
  PROVE  ImplTypeOK'
  <1>1. answer' \in [Client -> [Key -> Val \cup {NoVal}]]
    <2>1. PICK r \in rev[c] :
            \/ answer' = [answer EXCEPT ![c] = [@ EXCEPT ![r.key] = ValueAt(r.key, r.entry)]]
            \/ UNCHANGED answer
      BY DEF Lookup
    <2>2. ValueAt(r.key, r.entry) \in Val \cup {NoVal}
      BY ValueType
    <2>3. r.key \in Key
      BY DEF ImplTypeOK
    <2>4. [answer[c] EXCEPT ![r.key] = ValueAt(r.key, r.entry)] \in [Key -> Val \cup {NoVal}]
      BY <2>2, <2>3 DEF ImplTypeOK
    <2> QED
      BY <2>1, <2>4 DEF ImplTypeOK
  <1> QED
    BY <1>1 DEF Lookup, ImplTypeOK, Goto, Location, Mutex!TypeOK

LEMMA MoveType ==
  ASSUME ImplTypeOK, PublishIsPut, Move
  PROVE  ImplTypeOK'
  <1>1. CASE Terminated
    BY <1>1 DEF Terminated, clientVars, ImplTypeOK, Mutex!TypeOK
  <1>2. ASSUME NEW c \in Client, Step(c) PROVE ImplTypeOK'
    <2>1. CASE Acquire(c)
      BY <2>1 DEF Acquire, Mutex!Acquire, Mutex!TypeOK, Goto, Location, clientVars, ImplTypeOK
    <2>2. CASE LockTimeout(c)
      BY <2>2, FinishType DEF LockTimeout, Mutex!TypeOK, ImplTypeOK
    <2>3. CASE Read(c)
      <3>1. snap' \in [Client -> [Key -> Entry]]
        BY <2>3 DEF Read, ImplTypeOK
      <3>2. pub' \in [Client -> Pub \cup {NoPub}] /\ nextPub' \in Nat
        BY <2>3 DEF Read, ImplTypeOK, Pub
      <3> QED
        BY <2>3, <3>1, <3>2 DEF Read, Mutex!TypeOK, Goto, Location, ImplTypeOK
    <2>4. CASE Fail(c)
      BY <2>4, FinishType DEF Fail, Mutex!Release, Mutex!TypeOK, ImplTypeOK
    <2>5. CASE Unlock(c)
      BY <2>5, FinishType DEF Unlock, Mutex!Release, Mutex!TypeOK, ImplTypeOK
    <2>6. CASE List(c)
      BY <2>6 DEF List, Mutex!TypeOK, Goto, Location, Call, ImplTypeOK
    <2>7. CASE Return(c)
      BY <2>7, FinishType DEF Return, Mutex!TypeOK, ImplTypeOK
    <2>8. CASE SetEnabled(c)
      BY <2>8 DEF SetEnabled, clientVars, Mutex!TypeOK, ImplTypeOK
    <2>9. CASE Crash(c)
      BY <2>9, FinishType DEF Crash, Mutex!TypeOK, ImplTypeOK
    <2> QED
      BY <1>2, <2>1, <2>2, <2>3, <2>4, <2>5, <2>6, <2>7, <2>8, <2>9,
         CallsType, PublishType, CommitType, ReadRevisionType, LookupType DEF Step
  <1> QED
    BY <1>1, <1>2 DEF Move

-----------------------------------------------------------------------------
\* The inductive invariant.

LEMMA InvInit == Init => Inv
  BY DEF Init, Inv, PublishIsPut, CriticalHoldsLock, Critical, SnapshotCurrent,
     PubsDrawn, IdentityUnique, InactiveIsClean, Absent

\* A step that leaves the shared state alone and takes its client neither into
\* the lock nor through it preserves the invariant.
LEMMA OutsideStep ==
  ASSUME IInv, NEW c \in Client, NEW to \in Location \ Critical,
         pc' = [pc EXCEPT ![c] = to],
         \A d \in Client \ {c} :
           snap'[d] = snap[d] /\ pub'[d] = pub[d] /\ call'[d] = call[d],
         index' = index, objects' = objects, nextPub' = nextPub,
         \A d \in Client \ {c} : lock = d => lock' = d
  PROVE  Inv'
  <1> USE DEF IInv, Inv
  <1>1. \A d \in Client : pc'[d] \in Critical => d # c /\ pc'[d] = pc[d]
    BY DEF TypeOK, ImplTypeOK, Critical
  <1>2. PublishIsPut'
    BY <1>1 DEF PublishIsPut, Critical
  <1>3. CriticalHoldsLock'
    BY <1>1 DEF CriticalHoldsLock
  <1>4. SnapshotCurrent'
    BY <1>1 DEF SnapshotCurrent, Critical
  <1>5. PubsDrawn'
    BY <1>1 DEF PubsDrawn, Critical
  <1>6. IdentityUnique' /\ InactiveIsClean'
    BY DEF IdentityUnique, InactiveIsClean
  <1> QED
    BY <1>2, <1>3, <1>4, <1>5, <1>6

LEMMA CallInv ==
  ASSUME IInv, NEW c \in Client, NEW op, NEW keys, NEW val,
         NEW at \in {"lock", "revision", "list"}, Begin(c, op, keys, val, at)
  PROVE  Inv'
  <1>1. at \in Location \ Critical
    BY DEF Location, Critical
  <1> QED
    BY <1>1, OutsideStep DEF Begin, Goto, IInv, TypeOK, ImplTypeOK

LEMMA FinishInv ==
  ASSUME IInv, NEW c \in Client, Finish(c),
         index' = index, objects' = objects, nextPub' = nextPub,
         \A d \in Client \ {c} : lock = d => lock' = d
  PROVE  Inv'
  <1>1. "idle" \in Location \ Critical
    BY DEF Location, Critical
  <1>2. \A d \in Client \ {c} :
          snap'[d] = snap[d] /\ pub'[d] = pub[d] /\ call'[d] = call[d]
    BY DEF Finish, IInv, TypeOK, ImplTypeOK
  <1>3. pc' = [pc EXCEPT ![c] = "idle"]
    BY DEF Finish, Goto
  <1> QED
    BY <1>1, <1>2, <1>3, OutsideStep

\* Nobody else is inside while one client holds the lock or finds it free.
LEMMA OthersOutside ==
  ASSUME IInv, NEW c \in Client, lock \in {c, NoClient}, NEW d \in Client, d # c
  PROVE  pc[d] \notin Critical
  BY ClientAssumption DEF IInv, Inv, CriticalHoldsLock

LEMMA AcquireInv ==
  ASSUME IInv, NEW c \in Client, Acquire(c)
  PROVE  Inv'
  <1> USE DEF IInv, Inv
  <1>1. \A d \in Client : d # c => pc[d] \notin Critical
    BY OthersOutside DEF Acquire, Mutex!Acquire
  <1>2. pc' = [pc EXCEPT ![c] = "read"] /\ lock' = c
    BY DEF Acquire, Mutex!Acquire, Goto
  <1>3. \A d \in Client : pc'[d] \in Critical => d = c /\ pc'[d] = "read"
    BY <1>1, <1>2 DEF TypeOK, ImplTypeOK
  <1>4. PublishIsPut' /\ CriticalHoldsLock' /\ SnapshotCurrent'
    BY <1>2, <1>3 DEF PublishIsPut, CriticalHoldsLock, SnapshotCurrent, Critical
  <1>5. PubsDrawn'
    BY <1>3 DEF PubsDrawn, Acquire, Critical
  <1>6. IdentityUnique' /\ InactiveIsClean'
    BY DEF IdentityUnique, InactiveIsClean, Acquire
  <1> QED
    BY <1>4, <1>5, <1>6

LEMMA ReadInv ==
  ASSUME IInv, NEW c \in Client, Read(c)
  PROVE  Inv'
  <1> USE DEF IInv, Inv
  <1>1. lock = c /\ lock' = c
    BY DEF Read, CriticalHoldsLock, Critical
  <1>2. \A d \in Client : pc'[d] \in Critical => d = c
    BY <1>1, OthersOutside DEF Read, Goto, TypeOK, ImplTypeOK
  <1>3. PublishIsPut'
    BY <1>2 DEF Read, Goto, PublishIsPut, Critical, TypeOK, ImplTypeOK, Pub
  <1>4. CriticalHoldsLock'
    BY <1>1, <1>2 DEF CriticalHoldsLock
  <1>5. SnapshotCurrent'
    BY <1>1, <1>2 DEF Read, SnapshotCurrent, Critical, TypeOK, ImplTypeOK
  <1>6. PubsDrawn'
    <2>1. \A o \in objects : o.pub \in Nat /\ o.pub < nextPub
      BY DEF PubsDrawn, TypeOK, ImplTypeOK, Object, Pub
    <2>2. nextPub' \in {nextPub, nextPub + 1} /\ nextPub \in Nat /\ objects' = objects
      BY DEF Read, TypeOK, ImplTypeOK
    <2>3. pc'[c] = "publish" => pub'[c] = nextPub /\ nextPub' = nextPub + 1
      BY DEF Read, Goto, TypeOK, ImplTypeOK
    <2> QED
      BY <1>2, <2>1, <2>2, <2>3 DEF PubsDrawn, Critical
  <1>7. IdentityUnique' /\ InactiveIsClean'
    BY DEF IdentityUnique, InactiveIsClean, Read
  <1> QED
    BY <1>3, <1>4, <1>5, <1>6, <1>7

LEMMA PublishInv ==
  ASSUME IInv, NEW c \in Client, Publish(c)
  PROVE  Inv'
  <1> USE DEF IInv, Inv
  <1>1. lock = c /\ lock' = c
    BY DEF Publish, CriticalHoldsLock, Critical
  <1>2. pc' = [pc EXCEPT ![c] = "commit"]
    BY DEF Publish, Goto
  <1>3. \A d \in Client : pc'[d] \in Critical => d = c /\ pc'[d] = "commit"
    BY <1>1, <1>2, OthersOutside DEF TypeOK, ImplTypeOK
  <1>4. PublishIsPut' /\ CriticalHoldsLock'
    BY <1>1, <1>3 DEF PublishIsPut, CriticalHoldsLock, Critical
  <1>5. SnapshotCurrent'
    BY <1>1, <1>3 DEF Publish, SnapshotCurrent, Critical, clientVars
  <1>6. \A o \in objects' : o \in objects \/ o.pub = pub[c]
    BY DEF Publish
  <1>7. pub[c] < nextPub /\ \A o \in objects : o.pub # pub[c]
    BY DEF Publish, PubsDrawn
  <1>8. PubsDrawn'
    BY <1>3, <1>6, <1>7 DEF Publish, PubsDrawn, Critical
  <1>9. IdentityUnique'
    BY <1>7 DEF Publish, IdentityUnique
  <1>10. InactiveIsClean'
    BY DEF Publish, InactiveIsClean
  <1> QED
    BY <1>4, <1>5, <1>8, <1>9, <1>10

\* What Commit writes, entry by entry.
LEMMA CommitEntry ==
  ASSUME IInv, NEW c \in Client, Commit(c), NEW k \in Key
  PROVE  /\ index[k] \in Entry
         /\ index'[k] = IF k \in call[c].keys THEN Mutated(c, index[k]) ELSE index[k]
  BY DEF IInv, Inv, TypeOK, ImplTypeOK, Commit, SnapshotCurrent

LEMMA CommitInv ==
  ASSUME IInv, NEW c \in Client, Commit(c)
  PROVE  Inv'
  <1> USE DEF IInv, Inv
  <1>1. lock = c /\ lock' = c
    BY DEF Commit, CriticalHoldsLock, Critical
  <1>2. pc' = [pc EXCEPT ![c] = "unlock"]
    BY DEF Commit, Goto
  <1>3. \A d \in Client : pc'[d] \in Critical => d = c /\ pc'[d] = "unlock"
    BY <1>1, <1>2, OthersOutside DEF TypeOK, ImplTypeOK
  <1>4. PublishIsPut' /\ CriticalHoldsLock' /\ SnapshotCurrent'
    BY <1>1, <1>3 DEF PublishIsPut, CriticalHoldsLock, SnapshotCurrent, Critical
  <1>5. PubsDrawn' /\ IdentityUnique'
    BY <1>3 DEF PubsDrawn, IdentityUnique, Commit, Critical
  <1>6. InactiveIsClean'
    <2>1. \A e \in Entry : (~e.active => e.pub = NoPub) =>
             (~Mutated(c, e).active => Mutated(c, e).pub = NoPub)
      BY DEF Mutated, Published, Prepared, Activated, Removed, Entry
    <2> QED
      BY <2>1, CommitEntry DEF InactiveIsClean
  <1> QED
    BY <1>4, <1>5, <1>6

LEMMA StepInv ==
  ASSUME IInv, NEW c \in Client, Step(c)
  PROVE  Inv'
  <1> USE DEF IInv
  <1>1. CASE Put(c) \/ PreparePut(c) \/ Activate(c) \/ Delete(c)
    BY <1>1, CallInv DEF Put, PreparePut, Activate, Delete
  <1>2. CASE ClearNamespace(c) \/ ClearAll(c) \/ Get(c) \/ GetAll(c)
    BY <1>2, CallInv DEF ClearNamespace, ClearAll, Get, GetAll
  <1>3. CASE LockTimeout(c) \/ Return(c)
    BY <1>3, FinishInv DEF LockTimeout, Return
  <1>4. CASE Fail(c) \/ Unlock(c)
    BY <1>4, FinishInv DEF Fail, Unlock, Mutex!Release
  <1>5. CASE Crash(c)
    BY <1>5, FinishInv DEF Crash
  <1>6. CASE List(c)
    <2>1. PICK to \in {"return", "revision"} : pc' = [pc EXCEPT ![c] = to]
      BY <1>6 DEF List, Goto
    <2>2. to \in Location \ Critical
      BY DEF Location, Critical
    <2> QED
      BY <1>6, <2>1, <2>2, OutsideStep DEF List
  <1>7. CASE ReadRevision(c)
    <2>1. PICK to \in {"lookup", "return", "revision"} : pc' = [pc EXCEPT ![c] = to]
      BY <1>7 DEF ReadRevision, Goto
    <2>2. to \in Location \ Critical
      BY DEF Location, Critical
    <2> QED
      BY <1>7, <2>1, <2>2, OutsideStep DEF ReadRevision
  <1>8. CASE Lookup(c)
    <2>1. PICK to \in {"return", "revision"} : pc' = [pc EXCEPT ![c] = to]
      BY <1>8 DEF Lookup, Goto
    <2>2. to \in Location \ Critical
      BY DEF Location, Critical
    <2> QED
      BY <1>8, <2>1, <2>2, OutsideStep DEF Lookup
  <1>9. CASE SetEnabled(c)
    BY <1>9 DEF SetEnabled, clientVars, Inv, PublishIsPut, CriticalHoldsLock,
       SnapshotCurrent, PubsDrawn, IdentityUnique, InactiveIsClean
  <1> QED
    BY <1>1, <1>2, <1>3, <1>4, <1>5, <1>6, <1>7, <1>8, <1>9,
       AcquireInv, ReadInv, PublishInv, CommitInv DEF Step

\* The history variable: what a key may hold now and after the step.
LEMMA ObserveType ==
  ASSUME TypeOK, ImplTypeOK', Observe
  PROVE  seen' \in [Client -> [Key -> SUBSET (Val \cup {NoVal})]]
  <1>1. \A k \in Key : Current[k] \in Val \cup {NoVal}
    BY ValueType DEF TypeOK, Current
  <1>2. \A k \in Key : Current'[k] \in Val \cup {NoVal}
    BY DEF ImplTypeOK, Current, ValueAt, Stored, Object
  <1>3. \A c \in Client, k \in Key : seen[c][k] \in SUBSET (Val \cup {NoVal})
    BY DEF TypeOK
  <1> QED
    BY <1>1, <1>2, <1>3 DEF Observe

LEMMA IInvStep == IInv /\ [Next]_vars => IInv'
  <1> SUFFICES ASSUME IInv, [Next]_vars PROVE IInv'
    OBVIOUS
  <1>1. CASE Next
    <2>1. ImplTypeOK'
      BY <1>1, MoveType DEF Next, IInv, Inv, TypeOK
    <2>2. TypeOK'
      BY <1>1, <2>1, ObserveType DEF Next, IInv, TypeOK
    <2>3. CASE Terminated
      BY <2>2, <2>3 DEF Terminated, clientVars, IInv, Inv, PublishIsPut,
         CriticalHoldsLock, SnapshotCurrent, PubsDrawn, IdentityUnique, InactiveIsClean
    <2> QED
      BY <1>1, <2>2, <2>3, StepInv DEF Next, Move, IInv
  <1>2. CASE UNCHANGED vars
    BY <1>2 DEF vars, clientVars, IInv, TypeOK, ImplTypeOK, Mutex!TypeOK, Inv,
       PublishIsPut, CriticalHoldsLock, SnapshotCurrent, PubsDrawn, IdentityUnique,
       InactiveIsClean
  <1> QED
    BY <1>1, <1>2

LEMMA IInvAlways == Spec => []IInv
  <1>1. Init => IInv
    BY TypeInit, InvInit DEF IInv
  <1> QED
    BY <1>1, IInvStep, PTL DEF Spec

-----------------------------------------------------------------------------
\* Every variable keeps its type through all calls, failures and crashes.
THEOREM TypeCorrect == Spec => []TypeOK
  <1>1. IInv => TypeOK
    BY DEF IInv
  <1> QED
    BY <1>1, IInvAlways, PTL

\* No lost update: between a writer's read of the index and its replacement
\* nobody else changes the index, for any number of processes.
THEOREM NoLostUpdate == Spec => []SnapshotCurrent
  <1>1. IInv => SnapshotCurrent
    BY DEF IInv, Inv
  <1> QED
    BY <1>1, IInvAlways, PTL

\* Two published objects never share an identity, so an orphan of a dead
\* writer is never served in place of a committed value.
THEOREM OneValuePerIdentity == Spec => []IdentityUnique
  <1>1. IInv => IdentityUnique
    BY DEF IInv, Inv
  <1> QED
    BY <1>1, IInvAlways, PTL

LEMMA MutatedAdvances ==
  ASSUME NEW c \in Client, NEW e \in Entry, ~e.active => e.pub = NoPub
  PROVE  EntryAdvances(e, Mutated(c, e))
  BY DEF EntryAdvances, Mutated, Published, Prepared, Activated, Removed, NextGen, Entry

LEMMA IndexStep ==
  ASSUME IInv, Move
  PROVE  index' = index \/ \E c \in Client : Commit(c)
  BY DEF Move, Terminated, Step, Put, PreparePut, Activate, Delete, ClearNamespace,
     ClearAll, Get, GetAll, Begin, Acquire, LockTimeout, Read, Publish, Fail, Unlock,
     List, ReadRevision, Lookup, Return, SetEnabled, Crash

\* A deactivated or overwritten revision never becomes active again, and each
\* commit advances the generation of an active key exactly once.
THEOREM NeverResurrected == Spec => RevisionsAdvance
  <1>1. IInv /\ [Next]_vars => [\A k \in Key : EntryAdvances(index[k], index'[k])]_vars
    <2> SUFFICES ASSUME IInv, Next, NEW k \in Key
                 PROVE  EntryAdvances(index[k], index'[k])
      OBVIOUS
    <2>1. CASE index' = index
      BY <2>1 DEF EntryAdvances
    <2>2. ASSUME NEW c \in Client, Commit(c)
          PROVE  EntryAdvances(index[k], index'[k])
      <3>1. EntryAdvances(index[k], Mutated(c, index[k]))
        BY <2>2, CommitEntry, MutatedAdvances DEF IInv, Inv, InactiveIsClean
      <3> QED
        BY <2>2, <3>1, CommitEntry DEF EntryAdvances
    <2> QED
      BY <2>1, <2>2, IndexStep DEF Next
  <1> QED
    BY <1>1, IInvAlways, PTL DEF Spec, RevisionsAdvance

-----------------------------------------------------------------------------
\* While no bridge is disabled under its own calls, activation implies
\* publication.

StoredInv == IInv /\ PutStored /\ ActivatedIsStored

\* Steps that keep index, objects and every client's commit-relevant state.
LEMMA StoredFrame ==
  ASSUME StoredInv, NEW c \in Client, NEW to \in Location \ {"commit"},
         pc' = [pc EXCEPT ![c] = to],
         \A d \in Client \ {c} :
           snap'[d] = snap[d] /\ pub'[d] = pub[d] /\ call'[d] = call[d],
         index' = index, objects' = objects,
         enabled' = [enabled EXCEPT ![c] = TRUE] \/ enabled' = enabled,
         Publishing(c)' => enabled[c]
  PROVE  (PutStored /\ ActivatedIsStored)'
  <1>1. \A d \in Client : pc'[d] = "commit" => d # c /\ pc[d] = "commit"
    BY DEF StoredInv, IInv, TypeOK, ImplTypeOK
  <1>2. ASSUME NEW d \in Client, Publishing(d)'
        PROVE  enabled'[d]
    <2>1. enabled[d] => enabled'[d]
      BY DEF StoredInv, IInv, TypeOK, ImplTypeOK
    <2>2. CASE d = c
      BY <1>2, <2>1, <2>2
    <2>3. CASE d # c
      BY <1>2, <2>1, <2>3 DEF Publishing, StoredInv, PutStored, IInv, TypeOK, ImplTypeOK
    <2> QED
      BY <2>2, <2>3
  <1>3. PutStored'
    BY <1>1, <1>2 DEF StoredInv, PutStored, NextGen
  <1> QED
    BY <1>3 DEF StoredInv, ActivatedIsStored

LEMMA StoredFinish ==
  ASSUME StoredInv, NEW c \in Client, Finish(c), index' = index, objects' = objects,
         enabled' = [enabled EXCEPT ![c] = TRUE] \/ enabled' = enabled
  PROVE  (PutStored /\ ActivatedIsStored)'
  <1>1. "idle" \in Location \ {"commit"} /\ pc' = [pc EXCEPT ![c] = "idle"]
    BY DEF Finish, Goto, Location
  <1>2. \A d \in Client \ {c} :
          snap'[d] = snap[d] /\ pub'[d] = pub[d] /\ call'[d] = call[d]
    BY DEF Finish, StoredInv, IInv, TypeOK, ImplTypeOK
  <1>3. ~Publishing(c)'
    BY <1>1 DEF Publishing, StoredInv, IInv, TypeOK, ImplTypeOK
  <1> QED
    BY <1>1, <1>2, <1>3, StoredFrame

LEMMA StoredCall ==
  ASSUME StoredInv, NEW c \in Client, NEW op, NEW keys, NEW val,
         NEW at \in {"lock", "revision", "list"}, Begin(c, op, keys, val, at),
         op = "put" => enabled[c]
  PROVE  (PutStored /\ ActivatedIsStored)'
  <1>1. at \in Location \ {"commit"} /\ pc' = [pc EXCEPT ![c] = at]
    BY DEF Begin, Goto, Location
  <1>2. \A d \in Client \ {c} :
          snap'[d] = snap[d] /\ pub'[d] = pub[d] /\ call'[d] = call[d]
    BY DEF Begin, StoredInv, IInv, TypeOK, ImplTypeOK
  <1>3. Publishing(c)' => enabled[c]
    BY DEF Publishing, Begin, StoredInv, IInv, TypeOK, ImplTypeOK
  <1> QED
    BY <1>1, <1>2, <1>3, StoredFrame DEF Begin

LEMMA StoredRead ==
  ASSUME StoredInv, NEW c \in Client, Read(c)
  PROVE  (PutStored /\ ActivatedIsStored)'
  <1>1. pc'[c] = "commit" => call'[c].op # "put"
    BY DEF Read, Goto, StoredInv, IInv, TypeOK, ImplTypeOK
  <1>2. \A d \in Client : d # c =>
          pc'[d] = pc[d] /\ call'[d] = call[d] /\ snap'[d] = snap[d] /\ pub'[d] = pub[d]
    BY DEF Read, Goto, StoredInv, IInv, TypeOK, ImplTypeOK
  <1>3. \A d \in Client : Publishing(d)' => Publishing(d)
    BY <1>2 DEF Publishing, Read
  <1>4. PutStored'
    BY <1>1, <1>2, <1>3 DEF StoredInv, PutStored, Read, NextGen
  <1> QED
    BY <1>4 DEF StoredInv, ActivatedIsStored, Read

LEMMA StoredPublish ==
  ASSUME StoredInv, NEW c \in Client, Publish(c)
  PROVE  (PutStored /\ ActivatedIsStored)'
  <1>1. enabled[c] /\ objects \subseteq objects'
    BY DEF StoredInv, PutStored, Publish, Publishing, IInv, Inv, PublishIsPut
  <1>2. \A k \in call[c].keys :
          [key |-> k, gen |-> NextGen(snap[c][k]), pub |-> pub[c], val |-> call[c].val]
            \in objects'
    BY <1>1 DEF Publish
  <1>3. ASSUME NEW k \in call[c].keys
        PROVE  \E o \in objects' :
                 o.key = k /\ o.gen = NextGen(snap[c][k]) /\ o.pub = pub[c]
    <2> DEFINE new == [key |-> k, gen |-> NextGen(snap[c][k]), pub |-> pub[c],
                       val |-> call[c].val]
    <2>1. new \in objects' /\ new.key = k /\ new.gen = NextGen(snap[c][k]) /\ new.pub = pub[c]
      BY <1>2
    <2> QED
      BY <2>1
  <1>4. \A d \in Client : d # c => pc'[d] = pc[d]
    BY DEF Publish, Goto, StoredInv, IInv, TypeOK, ImplTypeOK
  <1>5. call' = call /\ snap' = snap /\ pub' = pub /\ index' = index /\ enabled' = enabled
    BY DEF Publish, clientVars
  <1>6. \A d \in Client : Publishing(d)' => Publishing(d)
    BY <1>4, <1>5 DEF Publishing, Publish
  <1>7. PutStored'
    BY <1>1, <1>3, <1>4, <1>5, <1>6 DEF StoredInv, PutStored, NextGen
  <1> QED
    BY <1>1, <1>5, <1>7 DEF StoredInv, ActivatedIsStored

LEMMA StoredCommit ==
  ASSUME StoredInv, NEW c \in Client, Commit(c)
  PROVE  (PutStored /\ ActivatedIsStored)'
  <1>1. \A d \in Client : pc'[d] = "commit" => d # c /\ pc[d] = "commit"
    BY DEF Commit, Goto, StoredInv, IInv, TypeOK, ImplTypeOK
  <1>2. call' = call /\ snap' = snap /\ pub' = pub /\ objects' = objects /\ enabled' = enabled
    BY DEF Commit, clientVars
  <1>3. PutStored'
    <2>1. \A d \in Client : Publishing(d)' => Publishing(d)
      BY <1>2 DEF Publishing, Commit, Goto, StoredInv, IInv, TypeOK, ImplTypeOK
    <2> QED
      BY <1>1, <1>2, <2>1 DEF StoredInv, PutStored, NextGen
  <1>4. ASSUME NEW k \in Key, index'[k].active, index'[k].pub # NoPub
        PROVE  \E o \in objects' :
                 o.key = k /\ o.gen = index'[k].gen /\ o.pub = index'[k].pub
    <2>1. index[k] \in Entry /\ snap[c][k] = index[k]
      BY CommitEntry DEF StoredInv, IInv, Inv, SnapshotCurrent, Commit
    <2>2. CASE index'[k] = index[k]
      BY <1>2, <1>4, <2>2 DEF StoredInv, ActivatedIsStored
    <2>3. CASE k \in call[c].keys /\ call[c].op = "put"
      <3>1. index'[k] = Published(index[k], pub[c])
        BY <2>3, CommitEntry DEF StoredInv, Mutated
      <3>2. PICK o \in objects :
              o.key = k /\ o.gen = NextGen(snap[c][k]) /\ o.pub = pub[c]
        BY <2>3 DEF StoredInv, PutStored, Commit
      <3> QED
        BY <1>2, <2>1, <3>1, <3>2 DEF Published
    <2>4. CASE k \in call[c].keys /\ call[c].op # "put"
      <3>1. index'[k] = Mutated(c, index[k])
        BY <2>4, CommitEntry DEF StoredInv
      <3>2. ~index[k].active => index[k].pub = NoPub
        BY DEF StoredInv, IInv, Inv, InactiveIsClean
      <3>3. index'[k].active => index'[k] = index[k] \/ index'[k].pub = NoPub
        <4>1. CASE call[c].op = "activate"
          <5>1. index'[k] = Activated(index[k])
            BY <3>1, <4>1 DEF Mutated
          <5>2. index[k].active => Activated(index[k]) = index[k]
            BY <2>1 DEF Activated, Entry
          <5>3. Activated(index[k]).pub = index[k].pub
            BY DEF Activated
          <5> QED
            BY <3>2, <5>1, <5>2, <5>3
        <4>2. CASE call[c].op # "activate"
          BY <2>1, <2>4, <3>1, <4>2 DEF Mutated, Prepared, Removed, Entry
        <4> QED
          BY <4>1, <4>2
      <3> QED
        BY <1>4, <2>2, <3>3
    <2> QED
      BY <2>2, <2>3, <2>4, CommitEntry DEF StoredInv
  <1> QED
    BY <1>3, <1>4 DEF ActivatedIsStored

LEMMA StoredStep ==
  ASSUME ~MayDisable, StoredInv, NEW c \in Client, Step(c)
  PROVE  (PutStored /\ ActivatedIsStored)'
  <1>1. CASE Put(c) \/ PreparePut(c) \/ Activate(c) \/ Delete(c)
    BY <1>1, StoredCall DEF Put, PreparePut, Activate, Delete
  <1>2. CASE ClearNamespace(c) \/ ClearAll(c) \/ Get(c) \/ GetAll(c)
    BY <1>2, StoredCall DEF ClearNamespace, ClearAll, Get, GetAll
  <1>3. CASE LockTimeout(c) \/ Return(c) \/ Fail(c) \/ Unlock(c)
    BY <1>3, StoredFinish DEF LockTimeout, Return, Fail, Unlock
  <1>4. CASE Crash(c)
    BY <1>4, StoredFinish DEF Crash
  <1>5. CASE Acquire(c) \/ List(c) \/ ReadRevision(c) \/ Lookup(c)
    <2>1. PICK to \in Location \ {"commit"} : pc' = [pc EXCEPT ![c] = to]
      BY <1>5 DEF Acquire, List, ReadRevision, Lookup, Goto, Location
    <2>2. Publishing(c)' => Publishing(c)
      BY <1>5 DEF Publishing, Acquire, List, ReadRevision, Lookup, Goto, clientVars,
                  StoredInv, IInv, TypeOK, ImplTypeOK
    <2>3. Publishing(c)' => enabled[c]
      BY <2>2 DEF StoredInv, PutStored
    <2> QED
      BY <1>5, <2>1, <2>3, StoredFrame DEF Acquire, List, ReadRevision, Lookup, clientVars
  <1>6. CASE SetEnabled(c)
    <2>1. /\ index' = index /\ objects' = objects /\ pc' = pc
          /\ call' = call /\ snap' = snap /\ pub' = pub
      BY <1>6 DEF SetEnabled, clientVars
    <2>2. \A d \in Client : Publishing(d) => enabled'[d] = enabled[d]
      BY <1>6 DEF SetEnabled, Publishing, StoredInv, IInv, TypeOK, ImplTypeOK
    <2>3. \A d \in Client : Publishing(d)' => enabled'[d]
      BY <2>1, <2>2 DEF Publishing, StoredInv, PutStored
    <2>4. PutStored'
      BY <2>1, <2>3 DEF StoredInv, PutStored, NextGen
    <2> QED
      BY <2>1, <2>4 DEF StoredInv, ActivatedIsStored
  <1> QED
    BY <1>1, <1>2, <1>3, <1>4, <1>5, <1>6, StoredRead, StoredPublish, StoredCommit
       DEF Step

LEMMA StoredInvAlways ==
  ASSUME ~MayDisable
  PROVE  Spec => []StoredInv
  <1>1. Init => StoredInv
    BY TypeInit, InvInit DEF StoredInv, IInv, PutStored, Publishing, ActivatedIsStored, Init, Absent
  <1>2. StoredInv /\ [Next]_vars => StoredInv'
    <2> SUFFICES ASSUME StoredInv, [Next]_vars PROVE StoredInv'
      OBVIOUS
    <2>1. IInv'
      BY IInvStep DEF StoredInv
    <2>2. (PutStored /\ ActivatedIsStored)'
      <3>1. CASE UNCHANGED vars \/ Terminated
        <4>1. /\ index' = index /\ objects' = objects /\ enabled' = enabled /\ pc' = pc
              /\ call' = call /\ snap' = snap /\ pub' = pub
          BY <3>1 DEF vars, clientVars, Terminated
        <4>2. PutStored'
          BY <4>1 DEF StoredInv, PutStored, Publishing, NextGen
        <4> QED
          BY <4>1, <4>2 DEF StoredInv, ActivatedIsStored
      <3> QED
        BY <3>1, StoredStep DEF Next, Move
    <2> QED
      BY <2>1, <2>2 DEF StoredInv
  <1> QED
    BY <1>1, <1>2, PTL DEF Spec

\* A put that publishes nothing activates nothing, as long as no bridge is
\* disabled while one of its own calls runs (MayDisable: where this fails).
THEOREM ActivationImpliesPublication ==
  ASSUME ~MayDisable
  PROVE  Spec => []ActivatedIsStored
  <1>1. StoredInv => ActivatedIsStored
    BY DEF StoredInv
  <1> QED
    BY <1>1, StoredInvAlways, PTL

-----------------------------------------------------------------------------
\* What a step does to the client that takes it and to the others.

LEMMA OthersKept ==
  ASSUME IInv, NEW c \in Client, Step(c), NEW d \in Client, d # c
  PROVE  /\ pc'[d] = pc[d] /\ call'[d] = call[d] /\ pub'[d] = pub[d]
         /\ rev'[d] = rev[d] /\ answer'[d] = answer[d]
  <1> USE DEF IInv, TypeOK, ImplTypeOK, Goto
  <1>1. CASE Put(c) \/ PreparePut(c) \/ Activate(c) \/ Delete(c)
    BY <1>1 DEF Put, PreparePut, Activate, Delete, Begin
  <1>2. CASE ClearNamespace(c) \/ ClearAll(c) \/ Get(c) \/ GetAll(c)
    BY <1>2 DEF ClearNamespace, ClearAll, Get, GetAll, Begin
  <1>3. CASE LockTimeout(c) \/ Return(c) \/ Fail(c) \/ Unlock(c) \/ Crash(c)
    BY <1>3 DEF LockTimeout, Return, Fail, Unlock, Crash, Finish
  <1>4. CASE Acquire(c) \/ Read(c) \/ Publish(c) \/ Commit(c) \/ SetEnabled(c)
    BY <1>4 DEF Acquire, Read, Publish, Commit, SetEnabled, clientVars
  <1>5. CASE List(c)
    BY <1>5 DEF List
  <1>6. CASE ReadRevision(c)
    BY <1>6 DEF ReadRevision
  <1>7. CASE Lookup(c)
    BY <1>7 DEF Lookup
  <1> QED
    BY <1>1, <1>2, <1>3, <1>4, <1>5, <1>6, <1>7 DEF Step

\* A request on its way to the commit.
Writing == {"lock", "read", "publish", "commit"}

\* Only a writer is on that way, and a put is for one key.
CallShape ==
  \A c \in Client : pc[c] \in Writing =>
    /\ call[c].op # "get"
    /\ call[c].op = "put" => \E k \in Key : call[c].keys = {k}

\* A client enters that way with its call and keeps it until it leaves.
LEMMA WritingStep ==
  ASSUME IInv, NEW c \in Client, Step(c), pc'[c] \in Writing
  PROVE  \/ pc[c] \in Writing /\ call'[c] = call[c]
         \/ /\ call'[c].op # "get"
            /\ call'[c].op = "put" => \E k \in Key : call'[c].keys = {k}
  <1> USE DEF IInv, TypeOK, ImplTypeOK, Goto, Writing
  <1>1. CASE Put(c)
    BY <1>1 DEF Put, Begin
  <1>2. CASE PreparePut(c) \/ Activate(c) \/ Delete(c) \/ ClearNamespace(c) \/ ClearAll(c)
    BY <1>2 DEF PreparePut, Activate, Delete, ClearNamespace, ClearAll, Begin
  <1>3. CASE Get(c) \/ GetAll(c)
    BY <1>3 DEF Get, GetAll, Begin
  <1>4. CASE LockTimeout(c) \/ Return(c) \/ Fail(c) \/ Unlock(c) \/ Crash(c)
    BY <1>4 DEF LockTimeout, Return, Fail, Unlock, Crash, Finish
  <1>5. CASE Acquire(c) \/ Read(c) \/ Publish(c) \/ Commit(c) \/ SetEnabled(c)
    BY <1>5 DEF Acquire, Read, Publish, Commit, SetEnabled, clientVars
  <1>6. CASE List(c) \/ ReadRevision(c) \/ Lookup(c)
    BY <1>6 DEF List, ReadRevision, Lookup
  <1> QED
    BY <1>1, <1>2, <1>3, <1>4, <1>5, <1>6 DEF Step

LEMMA CallShapeStep ==
  ASSUME IInv, CallShape, NEW c \in Client, Step(c)
  PROVE  CallShape'
  BY OthersKept, WritingStep DEF CallShape

-----------------------------------------------------------------------------
\* A publication identifier no put will publish under any more.
Settled(p) ==
  p = NoPub \/ (p < nextPub /\ \A c \in Client : pc[c] = "publish" => pub[c] # p)

IndexSettled == \A k \in Key : Settled(index[k].pub)

\* A put that has published commits its own identifier, and whatever is
\* stored under that identifier is its own value.
CommitsOwnValue ==
  \A c \in Client : pc[c] = "commit" /\ call[c].op = "put" =>
    /\ pub[c] \in Pub /\ pub[c] < nextPub
    /\ \A o \in objects : o.pub = pub[c] => o.val = call[c].val

WriteInv == CallShape /\ IndexSettled /\ CommitsOwnValue

\* Where a client at the publisher, and where one at the commit, comes from.
LEMMA DrawStep ==
  ASSUME IInv, NEW c \in Client, Step(c)
  PROVE  /\ nextPub' \in {nextPub, nextPub + 1}
         /\ pc'[c] = "publish" =>
              \/ pc[c] = "publish" /\ pub'[c] = pub[c]
              \/ pub'[c] = nextPub
         /\ pc'[c] = "commit" =>
              \/ Publish(c)
              \/ pc[c] = "commit" /\ pub'[c] = pub[c] /\ call'[c] = call[c] /\ objects' = objects
              \/ call'[c].op # "put"
  <1> USE DEF IInv, TypeOK, ImplTypeOK, Goto
  <1>1. CASE Put(c) \/ PreparePut(c) \/ Activate(c) \/ Delete(c)
    BY <1>1 DEF Put, PreparePut, Activate, Delete, Begin
  <1>2. CASE ClearNamespace(c) \/ ClearAll(c) \/ Get(c) \/ GetAll(c)
    BY <1>2 DEF ClearNamespace, ClearAll, Get, GetAll, Begin
  <1>3. CASE LockTimeout(c) \/ Return(c) \/ Fail(c) \/ Unlock(c) \/ Crash(c)
    BY <1>3 DEF LockTimeout, Return, Fail, Unlock, Crash, Finish
  <1>4. CASE Acquire(c) \/ Publish(c) \/ Commit(c) \/ SetEnabled(c)
    BY <1>4 DEF Acquire, Publish, Commit, SetEnabled, clientVars
  <1>5. CASE Read(c)
    BY <1>5 DEF Read
  <1>6. CASE List(c) \/ ReadRevision(c) \/ Lookup(c)
    BY <1>6 DEF List, ReadRevision, Lookup
  <1> QED
    BY <1>1, <1>2, <1>3, <1>4, <1>5, <1>6 DEF Step

\* A settled identifier stays settled.
LEMMA SettledStays ==
  ASSUME IInv, NEW c \in Client, Step(c), NEW p \in Pub \cup {NoPub}, Settled(p)
  PROVE  Settled(p)'
  <1>1. CASE p = NoPub
    BY <1>1 DEF Settled
  <1>2. CASE p # NoPub
    <2>1. p \in Nat /\ nextPub \in Nat /\ p < nextPub
      BY <1>2 DEF Settled, Pub, IInv, TypeOK, ImplTypeOK
    <2>2. p < nextPub'
      BY <2>1, DrawStep
    <2>3. ASSUME NEW d \in Client, pc'[d] = "publish" PROVE pub'[d] # p
      <3>1. \/ pc[d] = "publish" /\ pub'[d] = pub[d]
            \/ pub'[d] = nextPub
        BY <2>3, OthersKept, DrawStep
      <3> QED
        BY <1>2, <2>1, <3>1 DEF Settled
    <2> QED
      BY <2>2, <2>3 DEF Settled
  <1> QED
    BY <1>1, <1>2

LEMMA ObjectsStep ==
  ASSUME NEW c \in Client, Step(c)
  PROVE  objects' = objects \/ Publish(c)
  BY DEF Step, Put, PreparePut, Activate, Delete, ClearNamespace, ClearAll, Get, GetAll,
     Begin, Acquire, LockTimeout, Read, Commit, Fail, Unlock, List, ReadRevision, Lookup,
     Return, SetEnabled, Crash

LEMMA IndexStepOf ==
  ASSUME NEW c \in Client, Step(c)
  PROVE  index' = index \/ Commit(c)
  BY DEF Step, Put, PreparePut, Activate, Delete, ClearNamespace, ClearAll, Get, GetAll,
     Begin, Acquire, LockTimeout, Read, Publish, Fail, Unlock, List, ReadRevision, Lookup,
     Return, SetEnabled, Crash

\* Publishing, the only step that adds objects, adds them under its own
\* identifier and for the value of its call.
LEMMA NewObjects ==
  ASSUME IInv, NEW c \in Client, Publish(c)
  PROVE  /\ pc[c] = "publish" /\ pub[c] \in Pub /\ pub[c] < nextPub
         /\ objects \subseteq objects'
         /\ \A o \in objects' \ objects : o.pub = pub[c] /\ o.val = call[c].val
         /\ \A o \in objects : o.pub # pub[c]
  BY DEF Publish, IInv, Inv, PublishIsPut, PubsDrawn

LEMMA IndexSettledStep ==
  ASSUME IInv, WriteInv, NEW c \in Client, Step(c)
  PROVE  IndexSettled'
  <1> SUFFICES ASSUME NEW k \in Key PROVE Settled(index[k].pub)'
    BY DEF IndexSettled
  <1>1. index[k] \in Entry /\ index[k].pub \in Pub \cup {NoPub} /\ Settled(index[k].pub)
    BY DEF IInv, TypeOK, ImplTypeOK, Entry, WriteInv, IndexSettled
  <1>2. PICK p : p = index[k].pub
    OBVIOUS
  <1>3. Settled(p)'
    BY <1>1, <1>2, SettledStays
  <1>4. CASE index'[k].pub = p
    BY <1>3, <1>4 DEF Settled
  <1>5. CASE index'[k].pub = NoPub
    BY <1>5 DEF Settled
  <1>6. CASE index'[k].pub # p /\ index'[k].pub # NoPub
    <2>1. Commit(c)
      BY <1>2, <1>6, IndexStepOf
    <2>2. call[c].op = "put" /\ index'[k].pub = pub[c]
      <3>1. index'[k] = Mutated(c, index[k])
        BY <1>2, <1>6, <2>1, CommitEntry
      <3>2. Activated(index[k]).pub = p /\ Prepared(index[k]).pub = NoPub
        BY <1>2 DEF Activated, Prepared
      <3>3. Removed(index[k]).pub \in {p, NoPub}
        BY <1>2 DEF Removed
      <3>4. Published(index[k], pub[c]).pub = pub[c]
        BY DEF Published
      <3> QED
        BY <1>6, <3>1, <3>2, <3>3, <3>4 DEF Mutated
    <2>3. pub[c] < nextPub
      BY <2>1, <2>2 DEF WriteInv, CommitsOwnValue, Commit
    <2>4. nextPub' = nextPub /\ \A d \in Client : pc'[d] # "publish"
      <3>1. lock = c
        BY <2>1 DEF Commit, IInv, Inv, CriticalHoldsLock, Critical
      <3> QED
        BY <2>1, <3>1, OthersOutside DEF Commit, Goto, IInv, TypeOK, ImplTypeOK, Critical
    <2> QED
      BY <2>2, <2>3, <2>4 DEF Settled
  <1> QED
    BY <1>4, <1>5, <1>6

LEMMA CommitsOwnValueStep ==
  ASSUME IInv, WriteInv, NEW c \in Client, Step(c)
  PROVE  CommitsOwnValue'
  <1> SUFFICES ASSUME NEW d \in Client, pc'[d] = "commit", call'[d].op = "put"
               PROVE  /\ pub'[d] \in Pub /\ pub'[d] < nextPub'
                      /\ \A o \in objects' : o.pub = pub'[d] => o.val = call'[d].val
    BY DEF CommitsOwnValue
  <1>0. nextPub \in Nat /\ nextPub' \in {nextPub, nextPub + 1}
    BY DrawStep DEF IInv, TypeOK, ImplTypeOK
  <1>1. CASE d = c /\ Publish(c)
    <2>1. pub' = pub /\ call' = call /\ nextPub' = nextPub
      BY <1>1 DEF Publish, clientVars
    <2> QED
      BY <1>1, <2>1, NewObjects
  <1>2. CASE pc[d] = "commit" /\ pub'[d] = pub[d] /\ call'[d] = call[d] /\ objects' = objects
    BY <1>0, <1>2 DEF WriteInv, CommitsOwnValue, Pub
  <1>3. CASE d # c
    <2>1. pc[d] = "commit" /\ pub'[d] = pub[d] /\ call'[d] = call[d]
      BY <1>3, OthersKept
    <2>2. ~Publish(c)
      BY <1>3, <2>1 DEF Publish, IInv, Inv, CriticalHoldsLock, Critical
    <2>3. objects' = objects
      BY <2>2, ObjectsStep
    <2> QED
      BY <1>2, <2>1, <2>3
  <1> QED
    BY <1>1, <1>2, <1>3, DrawStep

LEMMA WriteInvStep ==
  ASSUME IInv, WriteInv, NEW c \in Client, Step(c)
  PROVE  WriteInv'
  BY CallShapeStep, IndexSettledStep, CommitsOwnValueStep DEF WriteInv

-----------------------------------------------------------------------------
\* The value of an identity in a set of objects.

StoredIn(O, k, e) == {o \in O : o.key = k /\ o.gen = e.gen /\ o.pub = e.pub}
ValueIn(O, k, e) ==
  IF e.active /\ StoredIn(O, k, e) # {} THEN (CHOOSE o \in StoredIn(O, k, e) : TRUE).val
  ELSE NoVal

LEMMA ValueAtIn == \A k, e : ValueAt(k, e) = ValueIn(objects, k, e)
  BY DEF ValueAt, ValueIn, Stored, StoredIn

LEMMA CurrentIn ==
  ASSUME NEW k \in Key
  PROVE  /\ Current[k] = ValueIn(objects, k, index[k])
         /\ Current'[k] = ValueIn(objects', k, index'[k])
  BY DEF Current, ValueAt, ValueIn, Stored, StoredIn

\* What a settled entry stands for never changes: objects are only added, and
\* only under an identifier that is not settled yet.
LEMMA ValueStable ==
  ASSUME IInv, NEW c \in Client, Step(c), NEW k, NEW e, Settled(e.pub)
  PROVE  ValueIn(objects', k, e) = ValueIn(objects, k, e)
  <1>1. CASE objects' = objects
    BY <1>1
  <1>2. CASE Publish(c)
    <2>1. e.pub # pub[c]
      BY <1>2, NewObjects, NoPubAssumption DEF Settled, Pub
    <2>2. StoredIn(objects', k, e) = StoredIn(objects, k, e)
      BY <1>2, <2>1, NewObjects DEF StoredIn
    <2> QED
      BY <2>2 DEF ValueIn
  <1> QED
    BY <1>1, <1>2, ObjectsStep

\* Only a commit changes the current value of a key.
LEMMA CurrentKept ==
  ASSUME IInv, WriteInv, NEW c \in Client, Step(c), index' = index
  PROVE  Current' = Current
  <1>1. \A k \in Key : Settled(index[k].pub)
    BY DEF WriteInv, IndexSettled
  <1>2. \A k \in Key : ValueIn(objects', k, index[k]) = ValueIn(objects, k, index[k])
    BY <1>1, ValueStable
  <1>3. \A k \in Key : Current'[k] = Current[k]
    BY <1>2, CurrentIn
  <1> QED
    BY <1>3 DEF Current

-----------------------------------------------------------------------------
\* Reads.  The active revision a reader has taken from the index stood for a
\* value that was current at that instant, and still stands for it; so does
\* every value it has already looked up.

ReadsSettled ==
  \A c \in Client : \A r \in rev[c] :
    Settled(r.entry.pub) /\ ValueIn(objects, r.key, r.entry) \in seen[c][r.key]

AnswersSeen ==
  \A c \in Client :
    /\ \A k \in Key : answer[c][k] # NoVal => answer[c][k] \in seen[c][k]
    /\ ~Reading(c) => answer[c] = NoAnswer /\ rev[c] = {}

ReadsInv == ReadsSettled /\ AnswersSeen

\* What happens to the read of the client that takes the step.
LEMMA ReadStep ==
  ASSUME IInv, NEW c \in Client, Step(c)
  PROVE  \/ /\ rev'[c] = rev[c] /\ answer'[c] = answer[c]
            /\ Reading(c) => Reading(c)'
         \/ rev'[c] = {} /\ answer'[c] = NoAnswer
         \/ ReadRevision(c)
         \/ Lookup(c)
  <1> USE DEF IInv, TypeOK, ImplTypeOK, Goto, Reading
  <1>1. CASE Put(c) \/ PreparePut(c) \/ Activate(c) \/ Delete(c)
    BY <1>1 DEF Put, PreparePut, Activate, Delete, Begin
  <1>2. CASE ClearNamespace(c) \/ ClearAll(c) \/ Get(c) \/ GetAll(c)
    BY <1>2 DEF ClearNamespace, ClearAll, Get, GetAll, Begin
  <1>3. CASE LockTimeout(c) \/ Return(c) \/ Fail(c) \/ Unlock(c) \/ Crash(c)
    BY <1>3 DEF LockTimeout, Return, Fail, Unlock, Crash, Finish
  <1>4. CASE Acquire(c) \/ Read(c) \/ Publish(c) \/ Commit(c) \/ SetEnabled(c)
    BY <1>4 DEF Acquire, Read, Publish, Commit, SetEnabled, clientVars
  <1>5. CASE List(c)
    BY <1>5 DEF List
  <1> QED
    BY <1>1, <1>2, <1>3, <1>4, <1>5 DEF Step

\* The history of a read that goes on.
LEMMA SeenGrows ==
  ASSUME TypeOK, Observe, NEW d \in Client, Reading(d)', NEW k \in Key
  PROVE  /\ seen[d][k] \subseteq seen'[d][k]
         /\ Current[k] \in seen'[d][k]
  BY DEF Observe

\* What was read before the step is as good after it.
LEMMA OldReadKept ==
  ASSUME IInv, ReadsInv, NEW c \in Client, Step(c), Observe,
         NEW d \in Client, Reading(d)', NEW r \in rev[d]
  PROVE  Settled(r.entry.pub)' /\ ValueIn(objects', r.key, r.entry) \in seen'[d][r.key]
  <1>1. r.key \in Key /\ r.entry \in Entry /\ r.entry.pub \in Pub \cup {NoPub}
    BY DEF IInv, TypeOK, ImplTypeOK, Entry
  <1>2. Settled(r.entry.pub) /\ ValueIn(objects, r.key, r.entry) \in seen[d][r.key]
    BY DEF ReadsInv, ReadsSettled
  <1>3. Settled(r.entry.pub)'
    BY <1>1, <1>2, SettledStays
  <1> QED
    BY <1>1, <1>2, <1>3, ValueStable, SeenGrows DEF IInv

\* The two conjuncts of ReadsInv for one client.
ReadOK(d) ==
  /\ \A r \in rev[d] : Settled(r.entry.pub) /\ ValueIn(objects, r.key, r.entry) \in seen[d][r.key]
  /\ \A k \in Key : answer[d][k] # NoVal => answer[d][k] \in seen[d][k]
  /\ ~Reading(d) => answer[d] = NoAnswer /\ rev[d] = {}

LEMMA ReadUnchanged ==
  ASSUME IInv, ReadsInv, NEW c \in Client, Step(c), Observe, NEW d \in Client,
         rev'[d] = rev[d], answer'[d] = answer[d], Reading(d) => Reading(d)'
  PROVE  ReadOK(d)'
  <1>1. CASE Reading(d)'
    <2>1. \A r \in rev'[d] :
            Settled(r.entry.pub)' /\ ValueIn(objects', r.key, r.entry) \in seen'[d][r.key]
      BY <1>1, OldReadKept
    <2>2. \A k \in Key : answer'[d][k] # NoVal => answer'[d][k] \in seen'[d][k]
      BY <1>1, SeenGrows DEF IInv, ReadsInv, AnswersSeen
    <2> QED
      BY <1>1, <2>1, <2>2 DEF ReadOK, Settled
  <1>2. CASE ~Reading(d)'
    <2>1. answer[d] = NoAnswer /\ rev[d] = {}
      BY <1>2 DEF ReadsInv, AnswersSeen
    <2> QED
      BY <2>1 DEF ReadOK, NoAnswer
  <1> QED
    BY <1>1, <1>2

LEMMA ReadRevisionOK ==
  ASSUME IInv, WriteInv, ReadsInv, NEW c \in Client, ReadRevision(c), Observe
  PROVE  ReadOK(c)'
  <1>0. Step(c)
    BY DEF Step
  <1>1. Reading(c) /\ Reading(c)'
    BY DEF ReadRevision, Goto, Reading, IInv, TypeOK, ImplTypeOK
  <1>2. answer' = answer /\ objects' = objects /\ index' = index
    BY DEF ReadRevision
  <1>3. \A k \in Key : answer'[c][k] # NoVal => answer'[c][k] \in seen'[c][k]
    BY <1>1, <1>2, SeenGrows DEF IInv, ReadsInv, AnswersSeen
  <1>4. ASSUME NEW r \in rev'[c]
        PROVE  Settled(r.entry.pub)' /\ ValueIn(objects', r.key, r.entry) \in seen'[c][r.key]
    <2>1. CASE r \in rev[c]
      BY <1>0, <1>1, <2>1, OldReadKept
    <2>2. CASE r \notin rev[c]
      <3>1. PICK k \in Key : r.key = k /\ r.entry = index[k]
        BY <2>2 DEF ReadRevision, IInv, TypeOK, ImplTypeOK
      <3>2. r.entry.pub \in Pub \cup {NoPub} /\ Settled(r.entry.pub)
        BY <3>1 DEF IInv, TypeOK, ImplTypeOK, Entry, WriteInv, IndexSettled
      <3>3. Settled(r.entry.pub)'
        BY <1>0, <3>2, SettledStays
      <3>4. ValueIn(objects', r.key, r.entry) = Current[k]
        BY <1>2, <3>1, CurrentIn
      <3> QED
        BY <1>1, <3>1, <3>3, <3>4, SeenGrows DEF IInv
    <2> QED
      BY <2>1, <2>2
  <1> QED
    BY <1>1, <1>3, <1>4 DEF ReadOK, Settled

LEMMA LookupOK ==
  ASSUME IInv, ReadsInv, NEW c \in Client, Lookup(c), Observe
  PROVE  ReadOK(c)'
  <1>0. Step(c)
    BY DEF Step
  <1>1. Reading(c) /\ Reading(c)' /\ rev'[c] = {}
    BY DEF Lookup, Goto, Reading, IInv, TypeOK, ImplTypeOK
  <1>2. ASSUME NEW k \in Key, answer'[c][k] # NoVal
        PROVE  answer'[c][k] \in seen'[c][k]
    <2>1. CASE answer'[c][k] = answer[c][k]
      BY <1>1, <1>2, <2>1, SeenGrows DEF IInv, ReadsInv, AnswersSeen
    <2>2. CASE answer'[c][k] # answer[c][k]
      <3>1. PICK r \in rev[c] :
              answer' = [answer EXCEPT ![c] = [@ EXCEPT ![r.key] = ValueAt(r.key, r.entry)]]
        BY <2>2 DEF Lookup
      <3>2. k = r.key /\ answer'[c][k] = ValueAt(r.key, r.entry)
        BY <2>2, <3>1 DEF IInv, TypeOK, ImplTypeOK
      <3>3. ValueIn(objects, r.key, r.entry) \in seen[c][r.key]
        BY <3>1 DEF ReadsInv, ReadsSettled
      <3> QED
        BY <1>1, <3>2, <3>3, ValueAtIn, SeenGrows DEF IInv
    <2> QED
      BY <2>1, <2>2
  <1> QED
    BY <1>1, <1>2 DEF ReadOK

LEMMA ReadsInvStep ==
  ASSUME IInv, WriteInv, ReadsInv, NEW c \in Client, Step(c), Observe
  PROVE  ReadsInv'
  <1>1. ASSUME NEW d \in Client PROVE ReadOK(d)'
    <2>1. CASE d # c
      <3>1. rev'[d] = rev[d] /\ answer'[d] = answer[d] /\ pc'[d] = pc[d]
        BY <2>1, OthersKept
      <3>2. Reading(d) => Reading(d)'
        BY <3>1 DEF Reading
      <3> QED
        BY <3>1, <3>2, ReadUnchanged
    <2>2. CASE d = c /\ rev'[c] = {} /\ answer'[c] = NoAnswer
      BY <2>2 DEF ReadOK, NoAnswer
    <2>3. CASE d = c
      BY <2>2, <2>3, ReadStep, ReadUnchanged, ReadRevisionOK, LookupOK
    <2> QED
      BY <2>1, <2>3
  <1> QED
    BY <1>1 DEF ReadsInv, ReadsSettled, AnswersSeen, ReadOK

\* A step of nobody, or of the history alone, preserves all of it.
LEMMA WriteInvIdle ==
  ASSUME WriteInv, UNCHANGED <<index, objects, pc, call, pub, nextPub>>
  PROVE  WriteInv'
  BY DEF WriteInv, CallShape, IndexSettled, Settled, CommitsOwnValue

LEMMA ReadsInvIdle ==
  ASSUME IInv, ReadsInv, UNCHANGED <<objects, pc, pub, rev, answer, nextPub>>,
         Observe \/ seen' = seen
  PROVE  ReadsInv'
  <1>1. ASSUME NEW d \in Client PROVE ReadOK(d)'
    <2>1. CASE Reading(d)
      <3>1. \A k \in Key : seen[d][k] \subseteq seen'[d][k]
        BY <2>1, SeenGrows DEF IInv, Reading
      <3>2. \A r \in rev[d] : r.key \in Key
        BY DEF IInv, TypeOK, ImplTypeOK
      <3>3. \A r \in rev[d] :
              Settled(r.entry.pub)' /\ ValueIn(objects', r.key, r.entry) \in seen'[d][r.key]
        BY <3>1, <3>2 DEF ReadsInv, ReadsSettled, Settled
      <3>4. \A k \in Key : answer[d][k] # NoVal => answer[d][k] \in seen'[d][k]
        BY <3>1 DEF ReadsInv, AnswersSeen
      <3> QED
        BY <2>1, <3>3, <3>4 DEF ReadOK, Reading, Settled
    <2>2. CASE ~Reading(d)
      <3>1. answer'[d] = NoAnswer /\ rev'[d] = {}
        BY <2>2 DEF ReadsInv, AnswersSeen
      <3> QED
        BY <3>1 DEF ReadOK, NoAnswer
    <2> QED
      BY <2>1, <2>2
  <1> QED
    BY <1>1 DEF ReadsInv, ReadsSettled, AnswersSeen, ReadOK

\* The second layer of the inductive invariant.
FullInv == IInv /\ WriteInv /\ ReadsInv

LEMMA FullInvInit == Init => FullInv
  <1> SUFFICES ASSUME Init PROVE FullInv
    OBVIOUS
  <1>1. IInv
    BY TypeInit, InvInit DEF IInv
  <1>2. WriteInv
    BY DEF Init, WriteInv, CallShape, Writing, IndexSettled, Settled, CommitsOwnValue, Absent
  <1>3. ReadsInv
    BY DEF Init, ReadsInv, ReadsSettled, AnswersSeen, NoAnswer
  <1> QED
    BY <1>1, <1>2, <1>3 DEF FullInv

LEMMA FullInvStep == FullInv /\ [Next]_vars => FullInv'
  <1> SUFFICES ASSUME FullInv, [Next]_vars PROVE FullInv'
    OBVIOUS
  <1>1. IInv'
    BY IInvStep DEF FullInv
  <1>2. CASE UNCHANGED vars \/ (Terminated /\ Observe)
    <2>1. /\ UNCHANGED <<index, objects, pc, call, pub, nextPub, rev, answer>>
          /\ Observe \/ seen' = seen
      BY <1>2 DEF vars, clientVars, Terminated
    <2> QED
      BY <1>1, <2>1, WriteInvIdle, ReadsInvIdle DEF FullInv
  <1>3. ASSUME NEW c \in Client, Step(c), Observe PROVE FullInv'
    BY <1>1, <1>3, WriteInvStep, ReadsInvStep DEF FullInv
  <1> QED
    BY <1>2, <1>3 DEF Next, Move

LEMMA FullInvAlways == Spec => []FullInv
  BY FullInvInit, FullInvStep, PTL DEF Spec

\* What get and get_all return was current during the call, for any number of
\* processes that write, fail, die or disable their bridges between the read
\* of the index and the lookup of the object.
THEOREM ReadsAreCurrent == Spec => []GetReturnsCurrent
  <1>1. FullInv => GetReturnsCurrent
    BY DEF FullInv, ReadsInv, AnswersSeen, GetReturnsCurrent
  <1> QED
    BY <1>1, FullInvAlways, PTL

-----------------------------------------------------------------------------
\* The refinement: the pending requests as the callers see them.

Req == [c \in Client |-> Request(c)]

RequestShown(c) ==
  /\ pc[c] \in Writing =>
       Request(c) = [op |-> IF call[c].op = "prepare_put" THEN "remove" ELSE call[c].op,
                     keys |-> call[c].keys, val |-> call[c].val]
  /\ pc[c] = "unlock" => Request(c) = KV!Done
  /\ pc[c] \notin Writing \cup {"unlock"} => Request(c) = KV!Idle

LEMMA RequestIs == \A c \in Client : RequestShown(c)
  BY DEF RequestShown, Request, Writing, KV!Done, KV!Idle

\* A call on its way to the commit is a pending request of the map.
WritersPending == \A c \in Client : pc[c] \in Writing => Request(c) \in KV!Request

LEMMA RequestPending == IInv /\ CallShape => WritersPending
  <1> SUFFICES ASSUME IInv, CallShape, NEW c \in Client, pc[c] \in Writing
               PROVE  Request(c) \in KV!Request
    BY DEF WritersPending
  <1>1. call[c] \in Call /\ call[c].op # "get"
    BY DEF IInv, TypeOK, ImplTypeOK, CallShape
  <1>2. CASE call[c].op = "put"
    <2>1. call[c].val \in Val
      BY <1>1, <1>2 DEF Call
    <2>2. \E k \in Key : call[c].keys = {k}
      BY <1>2 DEF CallShape
    <2>3. Request(c) = [op |-> "put", keys |-> call[c].keys, val |-> call[c].val]
      BY <1>2, RequestIs DEF RequestShown
    <2> QED
      BY <2>1, <2>2, <2>3 DEF KV!Request
  <1>3. CASE call[c].op # "put"
    <2>1. call[c].val = NoVal /\ call[c].keys \in SUBSET Key
          /\ call[c].op \in {"prepare_put", "activate", "remove"}
      BY <1>1, <1>3 DEF Call
    <2>2. \E op \in {"remove", "activate"} :
            Request(c) = [op |-> op, keys |-> call[c].keys, val |-> NoVal]
      BY <2>1, RequestIs DEF RequestShown
    <2> QED
      BY <2>1, <2>2 DEF KV!Request
  <1> QED
    BY <1>2, <1>3

\* The same of the next state.
LEMMA RequestNext ==
  /\ (\A c \in Client : RequestShown(c))'
  /\ (IInv /\ CallShape => WritersPending)'
  BY RequestIs, RequestPending, PTL

\* A step changes the request of the client that takes it, if any.
LEMMA ReqStep ==
  ASSUME IInv, NEW c \in Client, Step(c)
  PROVE  Req' = [Req EXCEPT ![c] = Request(c)']
  <1>1. \A d \in Client : d # c => Request(d)' = Request(d)
    BY OthersKept DEF Request
  <1> QED
    BY <1>1 DEF Req

\* How a step other than a commit moves its client along its call.
LEMMA PhaseStep ==
  ASSUME IInv, NEW c \in Client, Step(c), ~Commit(c)
  PROVE  \/ call'[c] = call[c] /\ (pc'[c] = pc[c] \/ {pc[c], pc'[c]} \subseteq Writing)
         \/ pc[c] \notin Writing \cup {"unlock"} /\ pc'[c] \notin Writing \cup {"unlock"}
         \/ pc[c] = "idle" /\ pc'[c] = "lock"
         \/ pc'[c] = "idle"
  <1>0. CASE SetEnabled(c)
    BY <1>0 DEF SetEnabled, clientVars
  <1> USE DEF IInv, TypeOK, ImplTypeOK, Goto, Writing
  <1>1. CASE Put(c) \/ PreparePut(c) \/ Activate(c) \/ Delete(c)
    BY <1>1 DEF Put, PreparePut, Activate, Delete, Begin
  <1>2. CASE ClearNamespace(c) \/ ClearAll(c) \/ Get(c) \/ GetAll(c)
    BY <1>2 DEF ClearNamespace, ClearAll, Get, GetAll, Begin
  <1>3. CASE LockTimeout(c) \/ Return(c) \/ Fail(c) \/ Unlock(c) \/ Crash(c)
    BY <1>3 DEF LockTimeout, Return, Fail, Unlock, Crash, Finish
  <1>4. CASE Acquire(c)
    BY <1>4 DEF Acquire, clientVars
  <1>5. CASE Read(c)
    BY <1>5 DEF Read
  <1>6. CASE Publish(c)
    BY <1>6 DEF Publish, clientVars
  <1>7. CASE List(c) \/ ReadRevision(c) \/ Lookup(c)
    BY <1>7 DEF List, ReadRevision, Lookup
  <1> QED
    BY <1>0, <1>1, <1>2, <1>3, <1>4, <1>5, <1>6, <1>7 DEF Step

\* Every step but a commit invokes, abandons or returns a request, or is
\* invisible to the callers.
LEMMA OtherStepMaps ==
  ASSUME FullInv, FullInv', NEW c \in Client, Step(c), ~Commit(c)
  PROVE  KV!Next \/ UNCHANGED <<Current, Req>>
  <1>0. IInv /\ IInv' /\ WriteInv /\ CallShape /\ CallShape'
    BY DEF FullInv, WriteInv
  <1>1. Current' = Current
    BY <1>0, IndexStepOf, CurrentKept
  <1>2. Req' = [Req EXCEPT ![c] = Request(c)'] /\ Req[c] = Request(c)
    BY <1>0, ReqStep DEF Req
  <1>3. pc[c] \in Location /\ pc'[c] \in Location
    BY <1>0 DEF IInv, TypeOK, ImplTypeOK
  <1>4. RequestShown(c) /\ RequestShown(c)'
    BY RequestIs, RequestNext
  <1>5. /\ pc[c] \in Writing => Request(c) \in KV!Request
        /\ pc'[c] \in Writing => Request(c)' \in KV!Request
    BY <1>0, RequestPending, RequestNext DEF WritersPending
  <1>6. \/ Request(c)' = Request(c)
        \/ Request(c) = KV!Idle /\ Request(c)' \in KV!Request
        \/ Request(c) \in KV!Request /\ Request(c)' = KV!Idle
        \/ Request(c) = KV!Done /\ Request(c)' = KV!Idle
    <2>1. CASE call'[c] = call[c] /\ (pc'[c] = pc[c] \/ {pc[c], pc'[c]} \subseteq Writing)
      BY <1>3, <1>4, <2>1 DEF RequestShown
    <2>2. CASE pc[c] \notin Writing \cup {"unlock"} /\ pc'[c] \notin Writing \cup {"unlock"}
      BY <1>4, <2>2 DEF RequestShown
    <2>3. CASE pc[c] = "idle" /\ pc'[c] = "lock"
      BY <1>4, <1>5, <2>3 DEF RequestShown, Writing
    <2>4. CASE pc'[c] = "idle"
      <3>1. Request(c)' = KV!Idle
        BY <1>4, <2>4 DEF RequestShown, Writing
      <3> QED
        BY <1>4, <1>5, <3>1 DEF RequestShown
    <2> QED
      BY <1>0, <2>1, <2>2, <2>3, <2>4, PhaseStep
  <1>7. CASE Request(c)' = Request(c)
    BY <1>1, <1>2, <1>7 DEF Req
  <1>8. CASE Request(c) = KV!Idle /\ Request(c)' \in KV!Request
    <2>1. KV!Invoke(c)
      BY <1>1, <1>2, <1>8 DEF KV!Invoke, Req
    <2> QED
      BY <2>1 DEF KV!Next
  <1>9. CASE Request(c) \in KV!Request /\ Request(c)' = KV!Idle
    <2>1. KV!Abandon(c)
      BY <1>1, <1>2, <1>9 DEF KV!Abandon, Req
    <2> QED
      BY <2>1 DEF KV!Next
  <1>10. CASE Request(c) = KV!Done /\ Request(c)' = KV!Idle
    <2>1. KV!Return(c)
      BY <1>1, <1>2, <1>10 DEF KV!Return, Req
    <2> QED
      BY <2>1 DEF KV!Next
  <1> QED
    BY <1>6, <1>7, <1>8, <1>9, <1>10

\* An entry without a publication stands for no value.
LEMMA NoPubNoValue ==
  ASSUME IInv, NEW k, NEW e, e.pub = NoPub
  PROVE  ValueIn(objects, k, e) = NoVal
  <1>1. StoredIn(objects, k, e) = {}
    BY NoPubAssumption DEF StoredIn, IInv, TypeOK, ImplTypeOK, Object, Pub
  <1> QED
    BY <1>1 DEF ValueIn

\* What a put activates is the value it was called with.
LEMMA PutValue ==
  ASSUME StoredInv, WriteInv, NEW c \in Client, Commit(c), call[c].op = "put",
         NEW k \in call[c].keys, k \in Key
  PROVE  ValueIn(objects, k, Published(index[k], pub[c])) = call[c].val
  <1> DEFINE e == Published(index[k], pub[c])
             S == StoredIn(objects, k, e)
  <1>1. pc[c] = "commit" /\ snap[c] = index
    BY DEF Commit, StoredInv, IInv, Inv, SnapshotCurrent
  <1>2. e.active /\ e.gen = NextGen(index[k]) /\ e.pub = pub[c]
    BY DEF Published
  <1>3. S # {}
    <2>1. PICK o \in objects : o.key = k /\ o.gen = NextGen(snap[c][k]) /\ o.pub = pub[c]
      BY <1>1 DEF StoredInv, PutStored
    <2>2. o \in S
      BY <1>1, <1>2, <2>1 DEF StoredIn
    <2> QED
      BY <2>2
  <1>4. \A o \in S : o.val = call[c].val
    BY <1>1, <1>2 DEF StoredIn, WriteInv, CommitsOwnValue
  <1>5. (CHOOSE o \in S : TRUE) \in S
    BY <1>3
  <1> HIDE DEF e, S
  <1>6. ValueIn(objects, k, e) = (CHOOSE o \in S : TRUE).val
    BY <1>2, <1>3 DEF ValueIn, S
  <1> QED
    BY <1>4, <1>5, <1>6 DEF e

\* A commit has exactly the effect of its request on the values of the keys.
LEMMA CommitEffect ==
  ASSUME StoredInv, WriteInv, NEW c \in Client, Commit(c), NEW k \in Key
  PROVE  Current'[k] = IF k \in call[c].keys /\ call[c].op # "activate"
                       THEN call[c].val ELSE Current[k]
  <1>0. IInv /\ objects' = objects /\ pc[c] \in Writing /\ call[c].op # "get" /\ call[c] \in Call
    BY DEF StoredInv, Commit, Writing, WriteInv, CallShape, IInv, TypeOK, ImplTypeOK
  <1>1. /\ index[k] \in Entry
        /\ index'[k] = IF k \in call[c].keys THEN Mutated(c, index[k]) ELSE index[k]
    BY <1>0, CommitEntry
  <1>2. /\ Current[k] = ValueIn(objects, k, index[k])
        /\ Current'[k] = ValueIn(objects, k, index'[k])
    BY <1>0, CurrentIn
  <1>3. ~index[k].active => index[k].pub = NoPub
    BY <1>0 DEF IInv, Inv, InactiveIsClean
  <1>4. CASE k \notin call[c].keys
    BY <1>1, <1>2, <1>4
  <1>5. CASE k \in call[c].keys /\ call[c].op = "put"
    <2>1. index'[k] = Published(index[k], pub[c])
      BY <1>1, <1>5 DEF Mutated
    <2> QED
      BY <1>2, <1>5, <2>1, PutValue
  <1>6. CASE k \in call[c].keys /\ call[c].op \in {"prepare_put", "remove"}
    <2>1. call[c].val = NoVal
      BY <1>0, <1>6 DEF Call
    <2>2. ~index'[k].active
      BY <1>1, <1>6 DEF Mutated, Prepared, Removed
    <2>3. Current'[k] = NoVal
      BY <1>2, <2>2 DEF ValueIn
    <2> QED
      BY <1>6, <2>1, <2>3
  <1>7. CASE k \in call[c].keys /\ call[c].op = "activate"
    <2>1. index'[k] = Activated(index[k])
      BY <1>1, <1>7 DEF Mutated
    <2>2. CASE index[k].active
      <3>1. Activated(index[k]) = index[k]
        BY <1>1, <2>2 DEF Activated, Entry
      <3> QED
        BY <1>2, <1>7, <2>1, <3>1
    <2>3. CASE ~index[k].active
      <3>1. Activated(index[k]).pub = NoPub
        BY <1>3, <2>3 DEF Activated
      <3>2. Current'[k] = NoVal
        BY <1>0, <1>2, <2>1, <3>1, NoPubNoValue
      <3>3. Current[k] = NoVal
        BY <1>2, <2>3 DEF ValueIn
      <3> QED
        BY <1>7, <3>2, <3>3
    <2> QED
      BY <2>2, <2>3
  <1>8. call[c].op \in {"put", "prepare_put", "remove", "activate"}
    BY <1>0 DEF Call
  <1> QED
    BY <1>4, <1>5, <1>6, <1>7, <1>8

\* The commit is the instant at which the request takes effect.
LEMMA CommitMaps ==
  ASSUME StoredInv, FullInv, NEW c \in Client, Commit(c)
  PROVE  KV!Apply(c)
  <1>0. IInv /\ WriteInv /\ CallShape /\ Step(c) /\ pc[c] \in Writing /\ call[c] \in Call
    BY DEF FullInv, WriteInv, Step, Commit, Writing, IInv, TypeOK, ImplTypeOK
  <1>1. Req' = [Req EXCEPT ![c] = Request(c)'] /\ Req[c] = Request(c)
    BY <1>0, ReqStep DEF Req
  <1>2. Request(c) \in KV!Request
    BY <1>0, RequestPending DEF WritersPending
  <1>3. Request(c)' = KV!Done
    <2>1. pc'[c] = "unlock"
      BY <1>0 DEF Commit, Goto, IInv, TypeOK, ImplTypeOK
    <2> QED
      BY <2>1, RequestNext DEF RequestShown
  <1>4. Request(c) = [op |-> IF call[c].op = "prepare_put" THEN "remove" ELSE call[c].op,
                      keys |-> call[c].keys, val |-> call[c].val]
    BY <1>0, RequestIs DEF RequestShown
  <1>5. call[c].op \in {"put", "prepare_put", "remove", "activate"}
    BY <1>0 DEF Call, CallShape
  <1>6. \A k \in Key : Current'[k] =
          IF k \in Request(c).keys /\ Request(c).op \in {"put", "remove"}
          THEN Request(c).val ELSE Current[k]
    <2>1. /\ Request(c).keys = call[c].keys /\ Request(c).val = call[c].val
          /\ Request(c).op \in {"put", "remove"} <=> call[c].op # "activate"
      BY <1>4, <1>5
    <2> QED
      BY <1>0, <2>1, CommitEffect
  <1>7. Current' = KV!Effect(Request(c))
    <2>1. Current' = [k \in Key |-> Current'[k]]
      BY DEF Current
    <2> QED
      BY <1>6, <2>1 DEF KV!Effect
  <1> QED
    BY <1>1, <1>2, <1>3, <1>7 DEF KV!Apply, Req

\* The indexed adapter implements the atomic map: every put, delete, clear and
\* prepare_put takes effect at its commit, on its own keys and with its own
\* value, or not at all, and activate changes no value, whatever fails, times
\* out or dies; publishing objects and reading are invisible.  A bridge that is
\* disabled under its own put breaks it, hence the hypothesis.
THEOREM Refinement ==
  ASSUME ~MayDisable
  PROVE  Spec => ImplementsMutableKV
  <1>1. Init => KV!Init
    <2> SUFFICES ASSUME Init PROVE KV!Init
      OBVIOUS
    <2>1. \A c \in Client : Request(c) = KV!Idle
      BY RequestIs DEF Init, RequestShown, Writing
    <2>2. Current = [k \in Key |-> NoVal]
      BY DEF Init, Current, ValueAt, Absent
    <2> QED
      BY <2>1, <2>2 DEF KV!Init
  <1>2. StoredInv /\ FullInv /\ FullInv' /\ [Next]_vars => [KV!Next]_<<Current, Req>>
    <2> SUFFICES ASSUME StoredInv, FullInv, FullInv', [Next]_vars
                 PROVE  KV!Next \/ UNCHANGED <<Current, Req>>
      OBVIOUS
    <2>1. CASE UNCHANGED vars \/ Terminated
      <3>1. UNCHANGED <<index, objects, pc, call>>
        BY <2>1 DEF vars, clientVars, Terminated
      <3>2. Current' = Current
        BY <3>1 DEF Current, ValueAt, Stored
      <3>3. Req' = Req
        BY <3>1 DEF Req, Request
      <3> QED
        BY <3>2, <3>3
    <2>2. ASSUME NEW c \in Client, Step(c)
          PROVE  KV!Next \/ UNCHANGED <<Current, Req>>
      BY <2>2, OtherStepMaps, CommitMaps DEF KV!Next
    <2> QED
      BY <2>1, <2>2 DEF Next, Move
  <1>3. StoredInv /\ FullInv /\ FullInv' /\ [Next]_vars => [KV!Next]_(KV!vars)
    BY <1>2 DEF Req, KV!vars
  <1> QED
    BY <1>1, <1>3, StoredInvAlways, FullInvAlways, PTL DEF Spec, KV!Spec, ImplementsMutableKV
=============================================================================
