------------------------ MODULE ExecutionCacheProofs ------------------------
(***************************************************************************)
(* Theorems about ExecutionCache for any number of processes, keys,        *)
(* namespaces and calls.                                                   *)
(***************************************************************************)
EXTENDS ExecutionCache, TLAPS

Critical == {"read", "write", "unlock"}

\* A clear holds the lock from reading to unlocking, and what it has read is
\* still what the file holds.
CriticalHoldsLock == \A c \in Client : pc[c] \in Critical => lock = c
SnapshotCurrent == \A c \in Client : pc[c] = "write" => snap[c] = file

\* Identity i is behind the registry f in one epoch and ahead of it in none.
Behind(i, f) ==
  /\ i.global <= f.global
  /\ i.ns <= f.ns[NsOf[i.key]]
  /\ i.global < f.global \/ i.ns < f.ns[NsOf[i.key]]

RetiredBehind == \A i \in retired : Behind(i, file)

\* A get holds no identity and no result that was retired before it began;
\* between calls and before execute() it holds none at all.
FloorRetired == \A c \in Client : floor[c] \subseteq retired
CurLive == \A c \in Client : cur[c] \cap floor[c] = {}
AnswerLive ==
  \A c \in Client : \A r \in answer[c] : r.id \notin floor[c] /\ Fresh(r, now[c])
HandsEmpty ==
  \A c \in Client : /\ pc[c] \in {"idle", "execute"} => answer[c] = {}
                    /\ pc[c] = "idle" => cur[c] = {}

LockInv == CriticalHoldsLock /\ SnapshotCurrent
ReadInv == FloorRetired /\ CurLive /\ AnswerLive /\ HandsEmpty

\* The inductive invariant.
IInv == TypeOK /\ LockInv /\ RetiredBehind /\ ReadInv

-----------------------------------------------------------------------------
\* Type correctness.

LEMMA TypeInit == Init => TypeOK
  BY DEF Init, TypeOK, Mutex!Init, Mutex!TypeOK, NewFile, Epochs, NoCall, Call, Op, Location

LEMMA FinishType ==
  ASSUME TypeOK, NEW c \in Client, Finish(c)
  PROVE  /\ pc' \in [Client -> Location]
         /\ call' \in [Client -> Call]
         /\ now' \in [Client -> Nat]
         /\ todo' \in [Client -> SUBSET Key]
         /\ cur' \in [Client -> SUBSET IdentitySet]
         /\ snap' \in [Client -> Epochs]
         /\ answer' \in [Client -> SUBSET Result]
         /\ retired' \subseteq IdentitySet
         /\ floor' \in [Client -> SUBSET IdentitySet]
  <1>1. NewFile \in Epochs /\ NoCall \in Call /\ "idle" \in Location
    BY DEF NewFile, Epochs, NoCall, Call, Op, Location
  <1> QED
    BY <1>1 DEF TypeOK, Finish, Goto

LEMMA BeginType ==
  ASSUME TypeOK, NEW c \in Client, NEW op \in Op, NEW keys \in SUBSET Key,
         NEW nss \in SUBSET Namespace, NEW ttl \in Ttl \cup {NoExpiry},
         NEW at \in Location, Begin(c, op, keys, nss, ttl, at)
  PROVE  TypeOK'
  <1>1. [op |-> op, keys |-> keys, nss |-> nss, ttl |-> ttl] \in Call
    BY DEF Call
  <1> QED
    BY <1>1 DEF TypeOK, Begin, Goto, Mutex!TypeOK

LEMMA CallsType ==
  ASSUME TypeOK, NEW c \in Client
  PROVE  /\ Get(c) => TypeOK'
         /\ Set(c) => TypeOK'
         /\ GetOrExecute(c) => TypeOK'
         /\ ClearAll(c) => TypeOK'
         /\ ClearNamespaces(c) => TypeOK'
  <1>1. Get(c) => TypeOK'
    BY BeginType DEF Get, Op, Location
  <1>2. Set(c) => TypeOK'
    BY BeginType DEF Set, Op, Location
  <1>3. GetOrExecute(c) => TypeOK'
    BY BeginType DEF GetOrExecute, Op, Location
  <1>4. ClearAll(c) => TypeOK'
    BY BeginType DEF ClearAll, Op, Location
  <1>5. ClearNamespaces(c) => TypeOK'
    BY BeginType DEF ClearNamespaces, Op, Location
  <1> QED
    BY <1>1, <1>2, <1>3, <1>4, <1>5

LEMMA IdentityType ==
  ASSUME NEW k \in Key, NEW f \in Epochs
  PROVE  Identity(k, f) \in IdentitySet
  BY NsOfAssumption DEF Identity, IdentitySet, Epochs

LEMMA ReadEpochsType ==
  ASSUME TypeOK, NEW c \in Client, ReadEpochs(c)
  PROVE  TypeOK'
  <1>1. PICK k \in todo[c] :
          /\ todo' = [todo EXCEPT ![c] = @ \ {k}]
          /\ cur' = [cur EXCEPT ![c] = {Identity(k, file)}]
    BY DEF ReadEpochs
  <1>2. {Identity(k, file)} \in SUBSET IdentitySet
    BY IdentityType DEF TypeOK
  <1>3. todo' \in [Client -> SUBSET Key] /\ cur' \in [Client -> SUBSET IdentitySet]
    BY <1>1, <1>2 DEF TypeOK
  <1> QED
    BY <1>3 DEF ReadEpochs, TypeOK, Goto, Location, Mutex!TypeOK, history

LEMMA LookupType ==
  ASSUME TypeOK, NEW c \in Client, Lookup(c)
  PROVE  TypeOK'
  <1>1. answer' \in [Client -> SUBSET Result]
    BY DEF Lookup, TypeOK, Newest
  <1> QED
    BY <1>1 DEF Lookup, TypeOK, Goto, Location, Mutex!TypeOK, history

LEMMA ExecuteType ==
  ASSUME TypeOK, NEW c \in Client, Execute(c)
  PROVE  TypeOK'
  <1>1. [op |-> "set", keys |-> call[c].keys, nss |-> call[c].nss, ttl |-> call[c].ttl] \in Call
    BY DEF TypeOK, Call, Op
  <1>2. call[c].keys \in SUBSET Key
    BY DEF TypeOK, Call
  <1> QED
    BY <1>1, <1>2 DEF Execute, TypeOK, Goto, Location, Mutex!TypeOK, history

LEMMA PublishType ==
  ASSUME TypeOK, NEW c \in Client, Publish(c)
  PROVE  TypeOK'
  <1>1. call[c].ttl \in Nat \cup {NoExpiry} /\ now[c] \in Nat
    BY TtlAssumption DEF TypeOK, Call
  <1>2. (IF call[c].ttl = NoExpiry THEN NoExpiry ELSE now[c] + call[c].ttl)
          \in Nat \cup {NoExpiry}
    BY <1>1
  <1>3. \A i \in cur[c] : i \in IdentitySet
    BY DEF TypeOK
  <1>4. store' \subseteq Result
    BY <1>1, <1>2, <1>3 DEF Publish, TypeOK, Result
  <1> QED
    BY <1>4 DEF Publish, TypeOK, Goto, Location, Mutex!TypeOK, history

LEMMA RotatedType ==
  ASSUME NEW c \in Client, NEW f \in Epochs
  PROVE  Rotated(c, f) \in Epochs
  BY DEF Rotated, Epochs

LEMMA WriteType ==
  ASSUME TypeOK, NEW c \in Client, Write(c)
  PROVE  TypeOK'
  <1>1. file' \in Epochs
    BY RotatedType DEF Write, TypeOK
  <1>2. retired' \subseteq IdentitySet
    BY IdentityType DEF Write, TypeOK, Covered
  <1> QED
    BY <1>1, <1>2 DEF Write, TypeOK, Goto, Location, Mutex!TypeOK

LEMMA NextType ==
  ASSUME TypeOK, [Next]_vars
  PROVE  TypeOK'
  <1>1. CASE Tick
    BY <1>1 DEF Tick, TypeOK, Mutex!TypeOK, local, history
  <1>2. CASE UNCHANGED vars
    BY <1>2 DEF vars, local, history, TypeOK, Mutex!TypeOK
  <1>3. ASSUME NEW c \in Client, Step(c) PROVE TypeOK'
    <2>1. CASE Acquire(c)
      BY <2>1 DEF Acquire, Mutex!Acquire, Mutex!TypeOK, Goto, Location, TypeOK, history
    <2>2. CASE Read(c)
      BY <2>2 DEF Read, Mutex!TypeOK, Goto, Location, TypeOK, history
    <2>3. CASE Unlock(c)
      BY <2>3, FinishType DEF Unlock, Mutex!Release, Mutex!TypeOK, TypeOK
    <2>4. CASE Return(c)
      BY <2>4, FinishType DEF Return, Mutex!TypeOK, TypeOK
    <2>5. CASE Raise(c)
      BY <2>5, FinishType DEF Raise, FreeLock, Mutex!TypeOK, TypeOK
    <2>6. CASE Crash(c)
      BY <2>6, FinishType DEF Crash, FreeLock, Mutex!TypeOK, TypeOK
    <2>7. CASE SetEnabled(c)
      BY <2>7 DEF SetEnabled, Mutex!TypeOK, TypeOK, local, history
    <2> QED
      BY <1>3, <2>1, <2>2, <2>3, <2>4, <2>5, <2>6, <2>7, CallsType, ReadEpochsType,
         LookupType, ExecuteType, PublishType, WriteType DEF Step
  <1> QED
    BY <1>1, <1>2, <1>3 DEF Next, Terminated

\* Every variable keeps its type, for any number of processes and calls.
THEOREM TypeCorrect == Spec => []TypeOK
  BY TypeInit, NextType, PTL DEF Spec

-----------------------------------------------------------------------------
\* The lock and the copy of the registry a clear works on.

LEMMA LockInit == Init => LockInv
  BY DEF Init, LockInv, CriticalHoldsLock, SnapshotCurrent, Critical

\* A step that takes its client neither into the lock nor through it.
LEMMA OutsideStep ==
  ASSUME TypeOK, LockInv, NEW c \in Client, NEW to \in Location \ Critical,
         pc' = [pc EXCEPT ![c] = to], file' = file,
         \A d \in Client \ {c} : snap'[d] = snap[d],
         \A d \in Client \ {c} : lock = d => lock' = d
  PROVE  LockInv'
  <1>1. \A d \in Client : pc'[d] \in Critical => d # c /\ pc'[d] = pc[d]
    BY DEF TypeOK
  <1> QED
    BY <1>1 DEF LockInv, CriticalHoldsLock, SnapshotCurrent, Critical

LEMMA BeginLock ==
  ASSUME TypeOK, LockInv, NEW c \in Client, NEW op, NEW keys, NEW nss, NEW ttl,
         NEW at \in {"epochs", "execute", "lock"}, Begin(c, op, keys, nss, ttl, at)
  PROVE  LockInv'
  <1>1. at \in Location \ Critical
    BY DEF Location, Critical
  <1> QED
    BY <1>1, OutsideStep DEF Begin, Goto

LEMMA FinishLock ==
  ASSUME TypeOK, LockInv, NEW c \in Client, Finish(c), file' = file,
         \A d \in Client \ {c} : lock = d => lock' = d
  PROVE  LockInv'
  <1>1. "idle" \in Location \ Critical
    BY DEF Location, Critical
  <1>2. \A d \in Client \ {c} : snap'[d] = snap[d]
    BY DEF Finish, TypeOK
  <1>3. pc' = [pc EXCEPT ![c] = "idle"]
    BY DEF Finish, Goto
  <1> QED
    BY <1>1, <1>2, <1>3, OutsideStep

LEMMA OthersOutside ==
  ASSUME LockInv, NEW c \in Client, lock \in {c, NoClient}, NEW d \in Client, d # c
  PROVE  pc[d] \notin Critical
  BY ClientAssumption DEF LockInv, CriticalHoldsLock

LEMMA StepLock ==
  ASSUME TypeOK, LockInv, NEW c \in Client, Step(c)
  PROVE  LockInv'
  <1>1. CASE Get(c) \/ Set(c) \/ GetOrExecute(c) \/ ClearAll(c) \/ ClearNamespaces(c)
    BY <1>1, BeginLock DEF Get, Set, GetOrExecute, ClearAll, ClearNamespaces
  <1>2. CASE ReadEpochs(c) \/ Lookup(c) \/ Execute(c) \/ Publish(c)
    <2>1. PICK to \in {"epochs", "lookup", "execute", "publish", "return"} :
            pc' = [pc EXCEPT ![c] = to]
      BY <1>2 DEF ReadEpochs, Lookup, Execute, Publish, Goto
    <2>2. to \in Location \ Critical
      BY DEF Location, Critical
    <2>3. file' = file /\ snap' = snap /\ lock' = lock
      BY <1>2 DEF ReadEpochs, Lookup, Execute, Publish
    <2> QED
      BY <2>1, <2>2, <2>3, OutsideStep
  <1>3. CASE Unlock(c) \/ Return(c) \/ Raise(c) \/ Crash(c)
    BY <1>3, FinishLock DEF Unlock, Return, Raise, Crash, FreeLock, Mutex!Release
  <1>4. CASE Acquire(c)
    <2>1. \A d \in Client : pc'[d] \in Critical => d = c /\ pc'[d] = "read"
      BY <1>4, OthersOutside DEF Acquire, Mutex!Acquire, Goto, TypeOK
    <2> QED
      BY <1>4, <2>1 DEF Acquire, Mutex!Acquire, LockInv, CriticalHoldsLock,
         SnapshotCurrent, Critical
  <1>5. CASE Read(c) \/ Write(c)
    <2>1. lock = c /\ lock' = c
      BY <1>5 DEF Read, Write, LockInv, CriticalHoldsLock, Critical
    <2>2. \A d \in Client : pc'[d] \in Critical => d = c
      BY <1>5, <2>1, OthersOutside DEF Read, Write, Goto, TypeOK
    <2>3. pc'[c] = "write" => snap'[c] = file'
      BY <1>5 DEF Read, Write, Goto, TypeOK
    <2> QED
      BY <2>1, <2>2, <2>3 DEF LockInv, CriticalHoldsLock, SnapshotCurrent, Critical
  <1>6. CASE SetEnabled(c)
    BY <1>6 DEF SetEnabled, local, LockInv, CriticalHoldsLock, SnapshotCurrent
  <1> QED
    BY <1>1, <1>2, <1>3, <1>4, <1>5, <1>6 DEF Step

-----------------------------------------------------------------------------
\* Rotation moves the covered identities forward, and only those.

LEMMA RotationExact ==
  ASSUME NEW f \in Epochs, NEW c \in Client, NEW k \in Key
  PROVE  /\ Rotated(c, f).global >= f.global
         /\ Rotated(c, f).ns[NsOf[k]] >= f.ns[NsOf[k]]
         /\ k \in Covered(c) => Behind(Identity(k, f), Rotated(c, f))
         /\ k \notin Covered(c) => Identity(k, Rotated(c, f)) = Identity(k, f)
  BY NsOfAssumption DEF Rotated, Covered, Behind, Identity, Epochs

\* Only Write changes the registry and the retired identities.
LEMMA OnlyWriteRotates ==
  ASSUME NEW c \in Client, Step(c), ~Write(c)
  PROVE  file' = file /\ retired' = retired
  BY DEF Step, Get, Set, GetOrExecute, ClearAll, ClearNamespaces, Begin, ReadEpochs, Lookup,
     Execute, Publish, Acquire, Read, Unlock, Return, Raise, Crash, SetEnabled, Finish, history

LEMMA StepRetired ==
  ASSUME TypeOK, LockInv, RetiredBehind, NEW c \in Client, Step(c)
  PROVE  RetiredBehind'
  <1>1. CASE ~Write(c)
    BY <1>1, OnlyWriteRotates DEF RetiredBehind, Behind
  <1>2. CASE Write(c)
    <2>1. file' = Rotated(c, file)
      BY <1>2 DEF Write, LockInv, SnapshotCurrent
    <2>2. ASSUME NEW i \in retired PROVE Behind(i, file')
      <3>1. i.key \in Key /\ i.global \in Nat /\ i.ns \in Nat /\ Behind(i, file)
        BY DEF TypeOK, IdentitySet, RetiredBehind
      <3>2. /\ file.global \in Nat /\ file'.global \in Nat
            /\ file.ns[NsOf[i.key]] \in Nat /\ file'.ns[NsOf[i.key]] \in Nat
        BY <2>1, <3>1, RotatedType, NsOfAssumption DEF TypeOK, Epochs
      <3>3. file'.global >= file.global /\ file'.ns[NsOf[i.key]] >= file.ns[NsOf[i.key]]
        BY <2>1, <3>1, RotationExact DEF TypeOK
      <3> QED
        BY <3>1, <3>2, <3>3 DEF Behind
    <2>3. ASSUME NEW k \in Covered(c) PROVE Behind(Identity(k, file), file')
      BY <2>1, RotationExact DEF TypeOK, Covered
    <2> QED
      BY <1>2, <2>2, <2>3 DEF Write, RetiredBehind
  <1> QED
    BY <1>1, <1>2

\* What is behind the registry is not current.
LEMMA BehindNotCurrent ==
  ASSUME TypeOK, RetiredBehind
  PROVE  NoLostRotation
  <1> SUFFICES ASSUME NEW k \in Key, Identity(k, file) \in retired PROVE FALSE
    BY DEF NoLostRotation
  <1>1. Behind(Identity(k, file), file)
    BY DEF RetiredBehind
  <1>2. file.global \in Nat /\ file.ns[NsOf[k]] \in Nat
    BY NsOfAssumption DEF TypeOK, Epochs
  <1> QED
    BY <1>1, <1>2 DEF Behind, Identity

-----------------------------------------------------------------------------
\* What a get holds.

LEMMA BeginRead ==
  ASSUME TypeOK, ReadInv, NEW c \in Client, NEW op, NEW keys, NEW nss, NEW ttl,
         NEW at \in {"epochs", "execute", "lock"}, Begin(c, op, keys, nss, ttl, at)
  PROVE  ReadInv'
  <1>1. answer[c] = {} /\ cur[c] = {}
    BY DEF ReadInv, HandsEmpty, Begin
  <1>2. FloorRetired' /\ CurLive'
    BY <1>1 DEF ReadInv, FloorRetired, CurLive, Begin, TypeOK
  <1>3. AnswerLive'
    BY <1>1 DEF ReadInv, AnswerLive, Begin, TypeOK, Fresh
  <1>4. HandsEmpty'
    BY <1>1 DEF ReadInv, HandsEmpty, Begin, Goto, TypeOK
  <1> QED
    BY <1>2, <1>3, <1>4 DEF ReadInv

LEMMA FinishRead ==
  ASSUME TypeOK, ReadInv, NEW c \in Client, Finish(c)
  PROVE  ReadInv'
  <1>1. FloorRetired' /\ CurLive'
    BY DEF ReadInv, FloorRetired, CurLive, Finish, TypeOK
  <1>2. AnswerLive'
    BY DEF ReadInv, AnswerLive, Finish, TypeOK, Fresh
  <1>3. HandsEmpty'
    BY DEF ReadInv, HandsEmpty, Finish, Goto, TypeOK
  <1> QED
    BY <1>1, <1>2, <1>3 DEF ReadInv

LEMMA ReadEpochsRead ==
  ASSUME TypeOK, RetiredBehind, ReadInv, NEW c \in Client, ReadEpochs(c)
  PROVE  ReadInv'
  <1>1. PICK k \in todo[c] : cur' = [cur EXCEPT ![c] = {Identity(k, file)}]
    BY DEF ReadEpochs
  <1>2. Identity(k, file) \notin floor[c]
    BY BehindNotCurrent DEF NoLostRotation, TypeOK, ReadInv, FloorRetired
  <1>3. floor' = floor /\ retired' = retired /\ answer' = answer /\ now' = now
    BY DEF ReadEpochs, history
  <1>4. CurLive'
    BY <1>1, <1>2, <1>3 DEF ReadInv, CurLive, TypeOK
  <1>5. FloorRetired' /\ AnswerLive'
    BY <1>3 DEF ReadInv, FloorRetired, AnswerLive, Fresh
  <1>6. HandsEmpty'
    BY <1>1, <1>3 DEF ReadInv, HandsEmpty, ReadEpochs, Goto, TypeOK
  <1> QED
    BY <1>4, <1>5, <1>6 DEF ReadInv

LEMMA LookupRead ==
  ASSUME TypeOK, ReadInv, NEW c \in Client, Lookup(c)
  PROVE  ReadInv'
  <1>1. floor' = floor /\ retired' = retired /\ now' = now /\ cur' = [cur EXCEPT ![c] = {}]
    BY DEF Lookup, history
  <1>2. FloorRetired' /\ CurLive'
    BY <1>1 DEF ReadInv, FloorRetired, CurLive, TypeOK
  <1>3. \A r \in answer'[c] \ answer[c] : r.id \in cur[c] /\ Fresh(r, now[c])
    BY DEF Lookup, Newest, TypeOK
  <1>4. \A d \in Client \ {c} : answer'[d] = answer[d]
    BY DEF Lookup, TypeOK
  <1>5. AnswerLive'
    BY <1>1, <1>3, <1>4 DEF ReadInv, CurLive, AnswerLive, Fresh
  <1>6. HandsEmpty'
    BY <1>1, <1>4 DEF ReadInv, HandsEmpty, Lookup, Goto, TypeOK
  <1> QED
    BY <1>2, <1>5, <1>6 DEF ReadInv

LEMMA ExecuteRead ==
  ASSUME TypeOK, ReadInv, NEW c \in Client, Execute(c)
  PROVE  ReadInv'
  <1>1. answer[c] = {}
    BY DEF ReadInv, HandsEmpty, Execute
  <1>2. floor' = floor /\ retired' = retired /\ cur' = cur /\ answer' = answer
    BY DEF Execute, history
  <1>3. FloorRetired' /\ CurLive'
    BY <1>2 DEF ReadInv, FloorRetired, CurLive
  <1>4. AnswerLive'
    BY <1>1, <1>2 DEF ReadInv, AnswerLive, Execute, TypeOK, Fresh
  <1>5. HandsEmpty'
    BY <1>2 DEF ReadInv, HandsEmpty, Execute, Goto, TypeOK
  <1> QED
    BY <1>3, <1>4, <1>5 DEF ReadInv

LEMMA OtherRead ==
  ASSUME TypeOK, ReadInv, NEW c \in Client,
         Publish(c) \/ Acquire(c) \/ Read(c) \/ Write(c)
  PROVE  ReadInv'
  <1>1. /\ floor' = floor /\ answer' = answer /\ now' = now /\ retired \subseteq retired'
        /\ cur' \in {cur, [cur EXCEPT ![c] = {}]}
    BY DEF Publish, Acquire, Read, Write, history
  <1>2. PICK to \in Location \ {"idle", "execute"} : pc' = [pc EXCEPT ![c] = to]
    BY DEF Publish, Acquire, Read, Write, Goto, Location
  <1>3. FloorRetired' /\ CurLive'
    BY <1>1 DEF ReadInv, FloorRetired, CurLive, TypeOK
  <1>4. AnswerLive'
    BY <1>1 DEF ReadInv, AnswerLive, Fresh
  <1>5. HandsEmpty'
    BY <1>1, <1>2 DEF ReadInv, HandsEmpty, TypeOK
  <1> QED
    BY <1>3, <1>4, <1>5 DEF ReadInv

LEMMA StepRead ==
  ASSUME TypeOK, RetiredBehind, ReadInv, NEW c \in Client, Step(c)
  PROVE  ReadInv'
  <1>1. CASE Get(c) \/ Set(c) \/ GetOrExecute(c) \/ ClearAll(c) \/ ClearNamespaces(c)
    BY <1>1, BeginRead DEF Get, Set, GetOrExecute, ClearAll, ClearNamespaces
  <1>2. CASE Unlock(c) \/ Return(c) \/ Raise(c) \/ Crash(c)
    BY <1>2, FinishRead DEF Unlock, Return, Raise, Crash
  <1>3. CASE SetEnabled(c)
    BY <1>3 DEF SetEnabled, local, history, ReadInv, FloorRetired, CurLive, AnswerLive,
       HandsEmpty, Fresh
  <1> QED
    BY <1>1, <1>2, <1>3, ReadEpochsRead, LookupRead, ExecuteRead, OtherRead DEF Step

-----------------------------------------------------------------------------
LEMMA InvInit == Init => IInv
  BY TypeInit, LockInit DEF Init, IInv, RetiredBehind, ReadInv, FloorRetired, CurLive,
     AnswerLive, HandsEmpty

LEMMA InvNext ==
  ASSUME IInv, [Next]_vars
  PROVE  IInv'
  <1> USE DEF IInv
  <1>1. TypeOK'
    BY NextType
  <1>2. ASSUME NEW c \in Client, Step(c) PROVE IInv'
    BY <1>1, <1>2, StepLock, StepRetired, StepRead
  <1>3. CASE Tick \/ UNCHANGED vars
    <2>1. UNCHANGED <<file, lock, pc, now, cur, snap, answer, retired, floor>>
      BY <1>3 DEF Tick, vars, local, history
    <2>2. LockInv' /\ RetiredBehind'
      BY <2>1 DEF LockInv, CriticalHoldsLock, SnapshotCurrent, RetiredBehind, Behind
    <2>3. ReadInv'
      BY <2>1 DEF ReadInv, FloorRetired, CurLive, AnswerLive, HandsEmpty, Fresh
    <2> QED
      BY <1>1, <2>2, <2>3
  <1> QED
    BY <1>2, <1>3 DEF Next, Terminated

LEMMA Invariance == Spec => []IInv
  BY InvInit, InvNext, PTL DEF Spec

\* No concurrent, failed or killed clear loses a rotation or brings an epoch
\* back: every committed clear makes what it covers unreachable for good.
THEOREM ClearIsForever == Spec => []NoLostRotation
  <1>1. IInv => NoLostRotation
    BY BehindNotCurrent DEF IInv
  <1> QED
    BY <1>1, Invariance, PTL

\* A get never returns a result cleared before it began, or one that had
\* expired by then, whatever sets and clears run between its steps.
THEOREM GetServesLive == Spec => []ServesLive
  <1>1. IInv => ServesLive
    BY DEF IInv, ReadInv, AnswerLive, ServesLive
  <1> QED
    BY <1>1, Invariance, PTL

\* A committed clear changes the identity of the keys it covers and of no
\* other key, and nothing else ever changes one.
THEOREM ClearExact == Spec => ClearIsExact
  <1> DEFINE Commits(c) == pc[c] = "write" /\ pc'[c] = "unlock"
             Exact == \A k \in Key : Identity(k, file') # Identity(k, file) <=>
                        \E c \in Client : Commits(c) /\ k \in Covered(c)
  <1>1. ASSUME IInv, [Next]_vars PROVE Exact \/ UNCHANGED vars
    <2>1. ASSUME NEW c \in Client, Write(c) PROVE Exact
      <3>1. file' = Rotated(c, file)
        BY <1>1, <2>1 DEF Write, IInv, LockInv, SnapshotCurrent
      <3>2. \A d \in Client : Commits(d) <=> d = c
        BY <1>1, <2>1 DEF Write, Goto, IInv, TypeOK
      <3>3. ASSUME NEW k \in Covered(c) PROVE Identity(k, file') # Identity(k, file)
        <4>1. k \in Key /\ Behind(Identity(k, file), file')
          BY <1>1, <3>1, RotationExact DEF IInv, TypeOK, Covered
        <4>2. file.global \in Nat /\ file.ns[NsOf[k]] \in Nat
          BY <1>1, <4>1, NsOfAssumption DEF IInv, TypeOK, Epochs
        <4> QED
          BY <4>1, <4>2 DEF Behind, Identity
      <3>4. \A k \in Key \ Covered(c) : Identity(k, file') = Identity(k, file)
        BY <1>1, <3>1, RotationExact DEF IInv, TypeOK
      <3> QED
        BY <3>2, <3>3, <3>4
    <2>2. ASSUME NEW c \in Client, Step(c), ~Write(c) PROVE Exact
      <3>1. file' = file
        BY <2>2, OnlyWriteRotates
      <3>2. \A d \in Client : ~Commits(d)
        BY <1>1, <2>2 DEF IInv, TypeOK, Step, Get, Set, GetOrExecute, ClearAll,
           ClearNamespaces, Begin, ReadEpochs, Lookup, Execute, Publish, Acquire, Read,
           Unlock, Return, Raise, Crash, SetEnabled, Finish, Goto, local
      <3> QED
        BY <3>1, <3>2
    <2>3. CASE Tick
      BY <2>3 DEF Tick, local
    <2> QED
      BY <1>1, <2>1, <2>2, <2>3 DEF Next, Terminated
  <1>2. IInv /\ [Next]_vars => [Exact]_vars
    BY <1>1
  <1> QED
    BY <1>2, Invariance, PTL DEF Spec, ClearIsExact
=============================================================================
