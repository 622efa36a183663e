-------------------------- MODULE SharedFileProofs --------------------------
(***************************************************************************)
(* Theorems about the two files that processes share outside the store:    *)
(* the lock file (module ProcessFileLock), for any finite set of threads   *)
(* in any processes, any nesting depth and any closes that raise, and the  *)
(* event log (module Evaluation), for any runs, ids, urls and versions.    *)
(* The two halves have no step in common: a lock excludes by the operating *)
(* system's rule, the log has no lock at all.                              *)
(***************************************************************************)
EXTENDS ProcessFileLock, Evaluation, FiniteSetTheorems, TLAPS

(***************************************************************************)
(* The lock file.                                                          *)
(***************************************************************************)
USE DEF Proc

\* Where a statement owns its share of the RLock, and where its file is open.
HasRLock == {"open", "try", "sleep", "held", "cleanup", "exit"}
HasFile == {"try", "sleep", "held", "exit"}

\* The flags of a statement follow from where it stands, and only the body and
\* the first half of __exit__ can have the flock.
FlagsMatch ==
  \A u \in Use :
    /\ acquired[u] <=> pc[u] \in HasRLock
    /\ pc[u] \in HasFile => handle[u]
    /\ handle[u] => pc[u] \in HasFile \cup {"cleanup"}
    /\ pc[u] = "held" => flock = u
    /\ flock = u => pc[u] \in {"held", "exit"}

\* The inductive invariant.
IInv == TypeOK /\ FlagsMatch /\ ThreadLockBalanced

-----------------------------------------------------------------------------
LEMMA UseFinite == IsFiniteSet(Use)
  <1>1. IsFiniteSet(1..MaxDepth)
    BY FS_Interval, MaxDepthAssumption
  <1> QED
    BY <1>1, ThreadFinite, FS_Product DEF Use

LEMMA HoldersFinite == \A p \in Process : IsFiniteSet(HoldersIn(p))
  BY UseFinite, FS_Subset DEF HoldersIn

LEMMA UseType ==
  ASSUME NEW u \in Use
  PROVE  u[1] \in Thread /\ Proc(u) \in Process /\ u # NoUse
  BY ProcOfAssumption, NoUseAssumption DEF Use

LEMMA InitIInv == Init => IInv
  <1> SUFFICES ASSUME Init PROVE IInv
    OBVIOUS
  <1>1. TypeOK
    BY DEF Init, TypeOK, Location, FreeRLock
  <1>2. FlagsMatch
    BY UseType DEF Init, FlagsMatch, HasRLock, HasFile
  <1>3. \A p \in Process : HoldersIn(p) = {}
    BY DEF Init, HoldersIn
  <1>4. ThreadLockBalanced
    BY <1>3, FS_EmptySet DEF Init, ThreadLockBalanced, FreeRLock
  <1> QED
    BY <1>1, <1>2, <1>4 DEF IInv

-----------------------------------------------------------------------------
\* How the count of an RLock follows the set of statements that share it.

LEMMA BalanceKept ==
  ASSUME ThreadLockBalanced, rlock' = rlock, acquired' = acquired, kept' = kept
  PROVE  ThreadLockBalanced'
  BY DEF ThreadLockBalanced, HoldersIn

LEMMA BalanceGain ==
  ASSUME IInv, NEW u \in Use, ThreadAcquire(u)
  PROVE  ThreadLockBalanced'
  <1> USE DEF IInv
  <1>1. ~acquired[u]
    BY DEF FlagsMatch, ThreadAcquire, HasRLock
  <1>2. HoldersIn(Proc(u))' = HoldersIn(Proc(u)) \cup {u}
    BY DEF HoldersIn, ThreadAcquire, TypeOK
  <1>3. \A p \in Process : p # Proc(u) => HoldersIn(p)' = HoldersIn(p) /\ rlock'[p] = rlock[p]
    BY DEF HoldersIn, ThreadAcquire, TypeOK
  <1>4. /\ rlock'[Proc(u)].count = rlock[Proc(u)].count + 1
        /\ rlock'[Proc(u)].owner = u[1]
    BY UseType DEF ThreadAcquire, TypeOK
  <1>5. Cardinality(HoldersIn(Proc(u))') = Cardinality(HoldersIn(Proc(u))) + 1
    <2>1. u \notin HoldersIn(Proc(u)) /\ IsFiniteSet(HoldersIn(Proc(u)))
      BY <1>1, HoldersFinite, UseType DEF HoldersIn
    <2> QED
      BY <1>2, <2>1, FS_AddElement
  <1>6. \A v \in HoldersIn(Proc(u)) : v[1] = u[1]
    <2>1. \A v \in HoldersIn(Proc(u)) : rlock[Proc(u)].owner = v[1]
      BY UseType DEF ThreadLockBalanced
    <2>2. \A v \in HoldersIn(Proc(u)) : v[1] # NoThread
      BY UseType, NoThreadAssumption DEF HoldersIn
    <2> QED
      BY <2>1, <2>2 DEF ThreadAcquire
  <1>k. kept' = kept
    BY DEF ThreadAcquire
  <1>7. ASSUME NEW p \in Process
        PROVE  /\ rlock'[p].count = Cardinality(HoldersIn(p)') + kept'[p]
               /\ rlock'[p].owner = NoThread <=> HoldersIn(p)' = {} /\ kept'[p] = 0
               /\ \A v \in HoldersIn(p)' : rlock'[p].owner = v[1]
    <2>1. CASE p # Proc(u)
      BY <1>3, <1>k, <2>1 DEF ThreadLockBalanced
    <2>2. CASE p = Proc(u)
      <3>0. Cardinality(HoldersIn(p)) \in Nat /\ kept[p] \in Nat
        BY HoldersFinite, FS_CardinalityType DEF TypeOK
      <3>1. rlock'[p].count = Cardinality(HoldersIn(p)') + kept'[p]
        BY <1>4, <1>5, <1>k, <2>2, <3>0 DEF ThreadLockBalanced
      <3>2. u[1] # NoThread
        BY UseType, NoThreadAssumption
      <3> QED
        BY <1>2, <1>4, <1>6, <2>2, <3>1, <3>2
    <2> QED
      BY <2>1, <2>2
  <1> QED
    BY <1>7 DEF ThreadLockBalanced

LEMMA BalanceLoss ==
  ASSUME IInv, NEW u \in Use, acquired[u], ReleaseRLock(Proc(u)),
         acquired' = [acquired EXCEPT ![u] = FALSE], kept' = kept
  PROVE  ThreadLockBalanced' /\ rlock' \in [Process -> [owner : Thread \cup {NoThread}, count : Nat]]
  <1> DEFINE p == Proc(u)
             n == Cardinality(HoldersIn(p))
             k == kept[p]
  <1> USE DEF IInv
  <1>0. p \in Process
    BY UseType
  <1>1. u \in HoldersIn(p) /\ IsFiniteSet(HoldersIn(p))
    BY <1>0, HoldersFinite DEF HoldersIn
  <1>2. HoldersIn(p)' = HoldersIn(p) \ {u}
    BY DEF HoldersIn, TypeOK
  <1>3. \A q \in Process : q # p => HoldersIn(q)' = HoldersIn(q) /\ rlock'[q] = rlock[q]
    BY DEF HoldersIn, TypeOK, ReleaseRLock
  <1>4. /\ rlock[p].count = n + k /\ rlock[p].owner = u[1]
        /\ n \in Nat /\ n # 0 /\ k \in Nat
    BY <1>0, <1>1, FS_CardinalityType, FS_EmptySet DEF ThreadLockBalanced, TypeOK
  <1>5. IsFiniteSet(HoldersIn(p)') /\ Cardinality(HoldersIn(p)') = n - 1
    BY <1>1, <1>2, FS_RemoveElement
  <1>6. /\ rlock'[p].count = (n - 1) + k
        /\ rlock'[p].owner = IF n = 1 /\ k = 0 THEN NoThread ELSE u[1]
        /\ rlock'[p] \in [owner : Thread \cup {NoThread}, count : Nat]
    <2>1. rlock'[p] = IF n = 1 /\ k = 0 THEN FreeRLock
                      ELSE [owner |-> u[1], count |-> (n - 1) + k]
      <3> HIDE DEF n, k
      <3>1. rlock'[p] = IF rlock[p].count = 1 THEN FreeRLock
                        ELSE [owner |-> rlock[p].owner, count |-> rlock[p].count - 1]
        BY <1>0 DEF ReleaseRLock, IInv, TypeOK
      <3>2. (n + k = 1 <=> n = 1 /\ k = 0) /\ (n + k) - 1 = (n - 1) + k
        BY <1>4
      <3> QED
        BY <1>4, <3>1, <3>2
    <2> QED
      BY <1>4, <2>1, UseType DEF FreeRLock
  <1>7. HoldersIn(p)' = {} <=> n = 1
    BY <1>4, <1>5, FS_EmptySet
  <1>8. ASSUME NEW q \in Process
        PROVE  /\ rlock'[q].count = Cardinality(HoldersIn(q)') + kept'[q]
               /\ rlock'[q].owner = NoThread <=> HoldersIn(q)' = {} /\ kept'[q] = 0
               /\ \A v \in HoldersIn(q)' : rlock'[q].owner = v[1]
    <2>1. CASE q # p
      BY <1>3, <2>1 DEF ThreadLockBalanced
    <2>2. CASE q = p
      <3>1. \A v \in HoldersIn(p) : v[1] = u[1]
        BY <1>0, <1>4 DEF ThreadLockBalanced
      <3>2. u[1] # NoThread
        BY UseType, NoThreadAssumption
      <3> QED
        BY <1>2, <1>5, <1>6, <1>7, <2>2, <3>1, <3>2
    <2> QED
      BY <2>1, <2>2
  <1>9. rlock' \in [Process -> [owner : Thread \cup {NoThread}, count : Nat]]
    BY <1>6 DEF ReleaseRLock, TypeOK
  <1> QED
    BY <1>8, <1>9 DEF ThreadLockBalanced

\* A raising close takes a statement out of the holders and leaves the count.
LEMMA BalanceSkip ==
  ASSUME IInv, NEW u \in Use, acquired[u], rlock' = rlock,
         acquired' = [acquired EXCEPT ![u] = FALSE],
         kept' = [kept EXCEPT ![Proc(u)] = kept[Proc(u)] + 1]
  PROVE  ThreadLockBalanced' /\ kept' \in [Process -> Nat]
  <1> DEFINE p == Proc(u)
             n == Cardinality(HoldersIn(p))
  <1> USE DEF IInv
  <1>0. p \in Process /\ kept \in [Process -> Nat]
    BY UseType DEF TypeOK
  <1>1. u \in HoldersIn(p) /\ IsFiniteSet(HoldersIn(p))
    BY <1>0, HoldersFinite DEF HoldersIn
  <1>2. HoldersIn(p)' = HoldersIn(p) \ {u}
    BY DEF HoldersIn, TypeOK
  <1>3. \A q \in Process : q # p => HoldersIn(q)' = HoldersIn(q) /\ kept'[q] = kept[q]
    BY <1>0 DEF HoldersIn, TypeOK
  <1>4. /\ rlock[p].count = n + kept[p] /\ rlock[p].owner = u[1]
        /\ n \in Nat /\ kept[p] \in Nat
    BY <1>0, <1>1, FS_CardinalityType DEF ThreadLockBalanced
  <1>5. Cardinality(HoldersIn(p)') = n - 1 /\ kept'[p] = kept[p] + 1
    <2>1. Cardinality(HoldersIn(p)') = n - 1
      BY <1>1, <1>2, FS_RemoveElement
    <2>2. kept'[p] = kept[p] + 1
      BY <1>0
    <2> QED
      BY <2>1, <2>2
  <1>6. u[1] # NoThread
    BY UseType, NoThreadAssumption
  <1>7. ASSUME NEW q \in Process
        PROVE  /\ rlock'[q].count = Cardinality(HoldersIn(q)') + kept'[q]
               /\ rlock'[q].owner = NoThread <=> HoldersIn(q)' = {} /\ kept'[q] = 0
               /\ \A v \in HoldersIn(q)' : rlock'[q].owner = v[1]
    <2>1. CASE q # p
      BY <1>3, <2>1 DEF ThreadLockBalanced
    <2>2. CASE q = p
      <3>1. n + kept[p] = (n - 1) + (kept[p] + 1) /\ kept[p] + 1 # 0
        <4> HIDE DEF n
        <4> QED
          BY <1>4
      <3>2. \A v \in HoldersIn(p) : v[1] = u[1]
        BY <1>0, <1>4 DEF ThreadLockBalanced
      <3> QED
        BY <1>2, <1>4, <1>5, <1>6, <2>2, <3>1, <3>2
    <2> QED
      BY <2>1, <2>2
  <1>8. kept' \in [Process -> Nat]
    BY <1>0
  <1> QED
    BY <1>7, <1>8 DEF ThreadLockBalanced

-----------------------------------------------------------------------------
\* One lemma per step of a statement.

LEMMA EnterStep ==
  ASSUME IInv, NEW u \in Use, Enter(u)
  PROVE  IInv'
  <1>1. TypeOK'
    BY DEF IInv, TypeOK, Enter, Goto, Location, Waiting
  <1>2. FlagsMatch'
    BY NoUseAssumption DEF IInv, TypeOK, FlagsMatch, Enter, Goto, HasRLock, HasFile
  <1>3. ThreadLockBalanced'
    BY BalanceKept DEF IInv, Enter
  <1> QED
    BY <1>1, <1>2, <1>3 DEF IInv

LEMMA ThreadTimeoutStep ==
  ASSUME IInv, NEW u \in Use, ThreadTimeout(u)
  PROVE  IInv'
  <1>1. TypeOK'
    BY DEF IInv, TypeOK, ThreadTimeout, Goto, Location, Waiting
  <1>2. FlagsMatch'
    BY NoUseAssumption DEF IInv, TypeOK, FlagsMatch, ThreadTimeout, Goto, HasRLock, HasFile
  <1>3. ThreadLockBalanced'
    BY BalanceKept DEF IInv, ThreadTimeout
  <1> QED
    BY <1>1, <1>2, <1>3 DEF IInv

LEMMA OpenStep ==
  ASSUME IInv, NEW u \in Use, Open(u)
  PROVE  IInv'
  <1>1. TypeOK'
    BY DEF IInv, TypeOK, Open, Goto, Location, Waiting
  <1>2. FlagsMatch'
    BY NoUseAssumption DEF IInv, TypeOK, FlagsMatch, Open, Goto, HasRLock, HasFile
  <1>3. ThreadLockBalanced'
    BY BalanceKept DEF IInv, Open
  <1> QED
    BY <1>1, <1>2, <1>3 DEF IInv

LEMMA TryLockStep ==
  ASSUME IInv, NEW u \in Use, TryLock(u)
  PROVE  IInv'
  <1>1. TypeOK'
    BY DEF IInv, TypeOK, TryLock, Goto, Location, Waiting
  <1>2. FlagsMatch'
    BY NoUseAssumption DEF IInv, TypeOK, FlagsMatch, TryLock, Goto, HasRLock, HasFile
  <1>3. ThreadLockBalanced'
    BY BalanceKept DEF IInv, TryLock
  <1> QED
    BY <1>1, <1>2, <1>3 DEF IInv

LEMMA TryFailStep ==
  ASSUME IInv, NEW u \in Use, TryFail(u)
  PROVE  IInv'
  <1>1. TypeOK'
    BY DEF IInv, TypeOK, TryFail, Goto, Location, Waiting
  <1>2. FlagsMatch'
    BY NoUseAssumption DEF IInv, TypeOK, FlagsMatch, TryFail, Goto, HasRLock, HasFile
  <1>3. ThreadLockBalanced'
    BY BalanceKept DEF IInv, TryFail
  <1> QED
    BY <1>1, <1>2, <1>3 DEF IInv

LEMMA WakeStep ==
  ASSUME IInv, NEW u \in Use, Wake(u)
  PROVE  IInv'
  <1>1. TypeOK'
    BY DEF IInv, TypeOK, Wake, Goto, Location, Waiting
  <1>2. FlagsMatch'
    BY NoUseAssumption DEF IInv, TypeOK, FlagsMatch, Wake, Goto, HasRLock, HasFile
  <1>3. ThreadLockBalanced'
    BY BalanceKept DEF IInv, Wake
  <1> QED
    BY <1>1, <1>2, <1>3 DEF IInv

LEMMA UnlockStep ==
  ASSUME IInv, NEW u \in Use, Unlock(u)
  PROVE  IInv'
  <1>1. TypeOK'
    BY DEF IInv, TypeOK, Unlock, Goto, Location, Waiting
  <1>2. FlagsMatch'
    BY NoUseAssumption DEF IInv, TypeOK, FlagsMatch, Unlock, Goto, HasRLock, HasFile
  <1>3. ThreadLockBalanced'
    BY BalanceKept DEF IInv, Unlock
  <1> QED
    BY <1>1, <1>2, <1>3 DEF IInv

LEMMA ThreadAcquireStep ==
  ASSUME IInv, NEW u \in Use, ThreadAcquire(u)
  PROVE  IInv'
  <1>1. TypeOK'
    BY UseType DEF IInv, TypeOK, ThreadAcquire, Goto, Location, Waiting
  <1>2. FlagsMatch'
    BY DEF IInv, TypeOK, FlagsMatch, ThreadAcquire, Goto, HasRLock, HasFile
  <1> QED
    BY <1>1, <1>2, BalanceGain DEF IInv

\* Both ways out of the statement, with a close that returns or raises.
LEMMA LetGoStep ==
  ASSUME IInv, NEW u \in Use, Cleanup(u) \/ ExitFinally(u)
  PROVE  IInv'
  <1>1. acquired[u] /\ LetGo(u)
    BY DEF IInv, FlagsMatch, Cleanup, ExitFinally, HasRLock
  <1>2. /\ ThreadLockBalanced'
        /\ rlock' \in [Process -> [owner : Thread \cup {NoThread}, count : Nat]]
        /\ kept' \in [Process -> Nat]
    <2>1. CASE ReleaseRLock(Proc(u)) /\ kept' = kept
      BY <1>1, <2>1, BalanceLoss DEF LetGo, IInv, TypeOK
    <2>2. CASE /\ kept' = [kept EXCEPT ![Proc(u)] = kept[Proc(u)] + 1]
               /\ UNCHANGED rlock
      BY <1>1, <2>2, BalanceSkip DEF LetGo, IInv, TypeOK
    <2> QED
      BY <1>1, <2>1, <2>2 DEF LetGo
  <1>3. TypeOK'
    BY <1>1, <1>2 DEF IInv, TypeOK, LetGo, CloseHandle, Goto, Location
  <1>4. FlagsMatch'
    BY <1>1, NoUseAssumption
       DEF IInv, TypeOK, FlagsMatch, LetGo, CloseHandle, Goto, HasRLock, HasFile
  <1> QED
    BY <1>2, <1>3, <1>4 DEF IInv

LEMMA ElapseStep ==
  ASSUME IInv, NEW u \in Use, Elapse(u)
  PROVE  IInv'
  <1>1. TypeOK'
    BY DEF IInv, TypeOK, Elapse
  <1>2. FlagsMatch'
    BY DEF IInv, FlagsMatch, Elapse
  <1>3. ThreadLockBalanced'
    BY BalanceKept DEF IInv, Elapse
  <1> QED
    BY <1>1, <1>2, <1>3 DEF IInv

LEMMA CrashStep ==
  ASSUME IInv, NEW p \in Process, Crash(p)
  PROVE  IInv'
  <1>1. TypeOK'
    BY DEF IInv, TypeOK, Crash, Location, FreeRLock
  <1>2. FlagsMatch'
    BY NoUseAssumption DEF IInv, TypeOK, FlagsMatch, Crash, HasRLock, HasFile
  <1>3. HoldersIn(p)' = {}
    BY DEF HoldersIn, Crash
  <1>4. \A q \in Process :
          q # p => HoldersIn(q)' = HoldersIn(q) /\ rlock'[q] = rlock[q] /\ kept'[q] = kept[q]
    BY DEF HoldersIn, Crash, IInv, TypeOK
  <1>5. rlock'[p] = FreeRLock /\ kept'[p] = 0
    BY DEF Crash, IInv, TypeOK
  <1>6. ThreadLockBalanced'
    BY <1>3, <1>4, <1>5, FS_EmptySet DEF ThreadLockBalanced, FreeRLock, IInv
  <1> QED
    BY <1>1, <1>2, <1>6 DEF IInv

LEMMA IInvStep == IInv /\ [Next]_vars => IInv'
  <1> SUFFICES ASSUME IInv, [Next]_vars PROVE IInv'
    OBVIOUS
  <1>1. CASE UNCHANGED vars
    <2>1. TypeOK' /\ FlagsMatch'
      BY <1>1 DEF vars, IInv, TypeOK, FlagsMatch
    <2> QED
      BY <1>1, <2>1, BalanceKept DEF vars, IInv
  <1>2. ASSUME NEW u \in Use, Enter(u) \/ Advance(u) \/ Elapse(u) PROVE IInv'
    BY <1>2, EnterStep, ThreadAcquireStep, ThreadTimeoutStep, OpenStep, TryLockStep,
       TryFailStep, WakeStep, UnlockStep, LetGoStep, ElapseStep DEF Advance
  <1> QED
    BY <1>1, <1>2, CrashStep DEF Next

LEMMA IInvAlways == Spec => []IInv
  BY InitIInv, IInvStep, PTL DEF Spec

-----------------------------------------------------------------------------
\* Types, with the RLock count never negative.
THEOREM TypeCorrect == Spec => []TypeOK
  <1>1. IInv => TypeOK
    BY DEF IInv
  <1> QED
    BY <1>1, IInvAlways, PTL

\* At most one thread of one process is in the body, for any number of
\* processes and threads and through timeouts, errors, nesting and crashes.
THEOREM Exclusive == Spec => []MutualExclusion
  <1>1. IInv => MutualExclusion
    BY DEF IInv, FlagsMatch, MutualExclusion
  <1> QED
    BY <1>1, IInvAlways, PTL

\* Each acquire of the in-process lock is either still in use, or released, or
\* one whose release the exception of a close has skipped: nothing else leaves
\* it held, and nothing releases it twice.
THEOREM RLockBalanced == Spec => []ThreadLockBalanced
  <1>1. IInv => ThreadLockBalanced
    BY DEF IInv
  <1> QED
    BY <1>1, IInvAlways, PTL

\* The RLock stays behind only after a close that raised, the flock never, and
\* the flock is only ever held under the in-process lock.
THEOREM CompleteRelease == Spec => []NothingLeaked
  <1>1. IInv => NothingLeaked
    <2> SUFFICES ASSUME IInv PROVE NothingLeaked
      OBVIOUS
    <2>1. ASSUME NEW p \in Process,
                 \A u \in Use : Proc(u) = p => pc[u] \in {"idle", "thread"}
          PROVE  rlock[p] = FreeRLock <=> kept[p] = 0
      <3>1. HoldersIn(p) = {}
        BY <2>1 DEF HoldersIn, IInv, FlagsMatch, HasRLock
      <3>0. kept[p] \in Nat
        BY DEF IInv, TypeOK
      <3>2. rlock[p].count = kept[p] /\ (rlock[p].owner = NoThread <=> kept[p] = 0)
        <4>1. Cardinality(HoldersIn(p)) = 0
          BY <3>1, FS_EmptySet
        <4>2. /\ rlock[p].count = Cardinality(HoldersIn(p)) + kept[p]
              /\ rlock[p].owner = NoThread <=> HoldersIn(p) = {} /\ kept[p] = 0
          BY DEF IInv, ThreadLockBalanced
        <4> QED
          BY <3>0, <3>1, <4>1, <4>2
      <3>3. rlock[p] \in [owner : Thread \cup {NoThread}, count : Nat]
        BY DEF IInv, TypeOK
      <3> QED
        BY <3>2, <3>3 DEF FreeRLock
    <2>2. ASSUME flock # NoUse
          PROVE  /\ pc[flock] \in {"held", "exit"}
                 /\ handle[flock]
                 /\ rlock[Proc(flock)].owner = flock[1]
      <3>1. flock \in Use /\ pc[flock] \in {"held", "exit"}
        BY <2>2 DEF IInv, TypeOK, FlagsMatch
      <3>2. handle[flock] /\ acquired[flock]
        BY <3>1 DEF IInv, FlagsMatch, HasFile, HasRLock
      <3>3. flock \in HoldersIn(Proc(flock)) /\ Proc(flock) \in Process
        BY <3>1, <3>2, UseType DEF HoldersIn
      <3> QED
        BY <3>1, <3>2, <3>3 DEF IInv, ThreadLockBalanced
    <2> QED
      BY <2>1, <2>2 DEF NothingLeaked
  <1> QED
    BY <1>1, IInvAlways, PTL
-----------------------------------------------------------------------------
\* The refinement: the body of the statement as the abstract owner.

Holder == IF Inside = {} THEN NoUse ELSE CHOOSE u \in Inside : TRUE

LEMMA HolderIsInside ==
  ASSUME IInv
  PROVE  /\ \A u \in Use : pc[u] = "held" => Holder = u
         /\ (\A u \in Use : pc[u] # "held") => Holder = NoUse
  <1>1. ASSUME NEW u \in Use, pc[u] = "held" PROVE Holder = u
    <2>1. Inside = {u}
      BY <1>1 DEF Inside, IInv, FlagsMatch
    <2> QED
      BY <2>1 DEF Holder
  <1>2. (\A u \in Use : pc[u] # "held") => Holder = NoUse
    BY DEF Holder, Inside
  <1> QED
    BY <1>1, <1>2

\* Whoever is in the body stays there, and nobody enters: a stutter.
LEMMA HolderKept ==
  ASSUME \A u \in Use : pc'[u] = "held" <=> pc[u] = "held"
  PROVE  Holder' = Holder
  <1>1. Inside' = Inside
    BY DEF Inside
  <1> QED
    BY <1>1 DEF Holder

\* The holder leaves the body.
LEMMA HolderLeaves ==
  ASSUME IInv, NEW u \in Use, pc[u] = "held",
         \A v \in Use : pc'[v] = "held" => pc[v] = "held" /\ v # u
  PROVE  Holder = u /\ Holder' = NoUse
  <1>1. Holder = u /\ \A v \in Use : pc[v] = "held" => v = u
    BY HolderIsInside DEF IInv, FlagsMatch
  <1>2. \A v \in Use : pc'[v] # "held"
    BY <1>1
  <1>3. Inside' = {}
    BY <1>2 DEF Inside
  <1> QED
    BY <1>1, <1>3 DEF Holder

LEMMA HolderStep ==
  ASSUME IInv, Next
  PROVE  Lock!Next \/ Holder' = Holder
  <1>1. ASSUME NEW u \in Use, TryLock(u)
        PROVE  Lock!Next
    <2>1. \A v \in Use : pc[v] # "held"
      BY <1>1, NoUseAssumption DEF TryLock, IInv, FlagsMatch
    <2>2. Holder = NoUse
      BY <2>1, HolderIsInside
    <2>3. pc'[u] = "held" /\ \A v \in Use : pc'[v] = "held" => v = u
      BY <1>1, <2>1 DEF TryLock, Goto, IInv, TypeOK
    <2>4. Inside' = {u}
      BY <2>3 DEF Inside
    <2>5. Holder' = u
      BY <2>4 DEF Holder
    <2> QED
      BY <2>2, <2>5 DEF Lock!Next, Lock!Acquire, Holder
  <1>2. ASSUME NEW u \in Use, Unlock(u)
        PROVE  Lock!Next
    <2>1. pc[u] = "held" /\ \A v \in Use : pc'[v] = "held" => pc[v] = "held" /\ v # u
      BY <1>2 DEF Unlock, Goto, IInv, TypeOK
    <2>2. Holder = u /\ Holder' = NoUse
      BY <2>1, HolderLeaves
    <2> QED
      BY <2>2 DEF Lock!Next, Lock!Release, Holder
  <1>3. ASSUME NEW p \in Process, Crash(p)
        PROVE  Lock!Next \/ Holder' = Holder
    <2>1. \A v \in Use : pc'[v] = "held" <=> pc[v] = "held" /\ Proc(v) # p
      BY <1>3 DEF Crash
    <2>2. CASE \E u \in Use : pc[u] = "held" /\ Proc(u) = p
      <3>1. PICK u \in Use : pc[u] = "held" /\ Proc(u) = p
        BY <2>2
      <3>2. Holder = u /\ Holder' = NoUse
        BY <2>1, <3>1, HolderLeaves
      <3> QED
        BY <3>2 DEF Lock!Next, Lock!Release, Holder
    <2>3. CASE \A u \in Use : pc[u] = "held" => Proc(u) # p
      BY <2>1, <2>3, HolderKept
    <2> QED
      BY <2>2, <2>3
  <1>4. ASSUME NEW u \in Use,
               \/ Enter(u) \/ Elapse(u) \/ ThreadAcquire(u) \/ ThreadTimeout(u) \/ Open(u)
               \/ TryFail(u) \/ Wake(u) \/ Cleanup(u) \/ ExitFinally(u)
        PROVE  Holder' = Holder
    <2>1. \A v \in Use : pc'[v] = "held" <=> pc[v] = "held"
      BY <1>4 DEF Enter, Elapse, ThreadAcquire, ThreadTimeout, Open, TryFail, Wake,
         Cleanup, ExitFinally, LetGo, Goto, Waiting, IInv, TypeOK
    <2> QED
      BY <2>1, HolderKept
  <1> QED
    BY <1>1, <1>2, <1>3, <1>4 DEF Next, Advance

\* ProcessFileLock implements the exclusive lock its callers count on: the
\* body is entered only when nobody is in it, and left by __exit__ or by the
\* death of its process, with every wait, error and retry in between invisible.
THEOREM Refinement == Spec => ImplementsExclusiveLock
  <1>1. Init => Lock!Init
    BY DEF Init, Lock!Init, Inside
  <1>2. IInv /\ [Next]_vars => [Lock!Next]_(Holder)
    <2> SUFFICES ASSUME IInv, [Next]_vars PROVE Lock!Next \/ Holder' = Holder
      OBVIOUS
    <2>1. CASE UNCHANGED vars
      BY <2>1, HolderKept DEF vars
    <2> QED
      BY <2>1, HolderStep
  <1>3. IInv /\ [Next]_vars =>
          [Lock!Next]_(IF Inside = {} THEN NoUse ELSE CHOOSE u \in Inside : TRUE)
    BY <1>2 DEF Holder
  <1> QED
    BY <1>1, <1>3, IInvAlways, PTL DEF Spec, Lock!Spec, ImplementsExclusiveLock

(***************************************************************************)
(* The event log.                                                          *)
(***************************************************************************)

-----------------------------------------------------------------------------
\* The workload.

LEMMA Sizes ==
  /\ Urls \in Seq(Url) /\ Len(Urls) \in Nat \ {0} /\ Repetitions \in Nat \ {0}
  /\ \A r \in Run : Operations(r) \in {1, 2} /\ Expected(r) \in Nat
  <1>1. Urls \in Seq(Url) /\ Len(Urls) \in Nat \ {0} /\ Repetitions \in Nat \ {0}
    BY WorkloadAssumption DEF Workload
  <1>2. \A r \in Run : Operations(r) \in {1, 2}
    BY DEF Operations
  <1>3. \A m, n \in Nat : m * n \in Nat
    OBVIOUS
  <1> QED
    BY <1>1, <1>2, <1>3 DEF Expected

LEMMA UrlAtType ==
  ASSUME NEW r \in Run, NEW i \in Nat \ {0}
  PROVE  UrlAt(r, i) \in Url
  <1> DEFINE a == (i - 1) \div Operations(r)
  <1>1. a \in Nat
    BY Sizes
  <1>2. a % Len(Urls) \in 0 .. (Len(Urls) - 1)
    <2>1. \A m \in Nat, n \in Nat \ {0} : m % n \in 0 .. (n - 1)
      OBVIOUS
    <2> QED
      BY <1>1, <2>1, Sizes
  <1>3. (a % Len(Urls)) + 1 \in 1 .. Len(Urls)
    BY <1>2, Sizes
  <1> QED
    BY <1>3, Sizes DEF UrlAt

-----------------------------------------------------------------------------
\* How far a run is, and what it has in memory.

Active(r) == stage[r] \notin {"off", "ended", "dead"}

Progress ==
  \A r \in Run :
    /\ case[r] <= Expected(r)
    /\ Active(r) /\ stage[r] # "next" => case[r] > 0
    /\ ~Active(r) => case[r] = 0
    /\ ModeOf[r] = "evaluate" => way[r] = "shadow"
    /\ stage[r] = "publish" => way[r] = "shadow"
    /\ stage[r] \in {"ask", "save"} => way[r] = "conditional"
    /\ stage[r] \in {"ask", "execute", "save", "record"} /\ way[r] = "conditional" =>
         cand[r] # None

\* Bytes are in memory from the first fetch on.
HasBody ==
  \A r \in Run :
    case[r] > 0 /\ ~(Fetches(r) /\ stage[r] \in {"lookup", "ask", "execute"}) =>
      body[r] # None

LocalInv == EvaluationTypeOK /\ Progress /\ HasBody

\* What is published and recorded is well formed.
LEMMA PublishedType ==
  ASSUME LocalInv, NEW r \in Run, stage[r] \in {"record", "save", "publish"}
  PROVE  Published(r) \in Stored
  <1>1. /\ case[r] \in Nat /\ body[r] \in Version \cup {None} /\ now[r] \in Nat
        /\ Progress /\ HasBody
    BY DEF LocalInv, EvaluationTypeOK
  <1>2. case[r] > 0
    BY <1>1 DEF Progress, Active
  <1>3. body[r] \in Version
    <2>1. stage[r] \notin {"lookup", "ask", "execute"}
      OBVIOUS
    <2>2. body[r] # None
      BY <1>1, <1>2, <2>1 DEF HasBody
    <2> QED
      BY <1>1, <2>2
  <1>4. Action(r) \in ({"fetch"} \X Url) \cup ({"convert"} \X Version)
    <2>1. UrlOf(r) \in Url
      BY <1>1, <1>2, UrlAtType DEF UrlOf
    <2>2. CASE Fetches(r)
      BY <2>1, <2>2 DEF Action
    <2>3. CASE ~Fetches(r)
      BY <1>3, <2>3 DEF Action
    <2> QED
      BY <2>2, <2>3
  <1> QED
    BY <1>1, <1>3, <1>4 DEF Published, Stored

LEMMA SourceType ==
  ASSUME LocalInv, NEW r \in Run, stage[r] \in {"ask", "execute"}
  PROVE  source[UrlOf(r)] \in Version
  <1>1. case[r] \in Nat /\ Progress /\ source \in [Url -> Version]
    BY DEF LocalInv, EvaluationTypeOK
  <1>2. case[r] > 0
    BY <1>1 DEF Progress, Active
  <1> QED
    BY <1>1, <1>2, UrlAtType DEF UrlOf

LEMMA EventType ==
  ASSUME EvaluationTypeOK, NEW r \in Run
  PROVE  Event(r) \in Line
  BY WorkloadAssumption DEF Event, Line, EvaluationTypeOK, Verified

LEMMA ExitType ==
  ASSUME EvaluationTypeOK, NEW r \in Run, NEW step \in Stage, Exit(r, step)
  PROVE  /\ stage' \in [Run -> Stage] /\ case' \in [Run -> Nat]
         /\ now' \in [Run -> Nat] /\ body' \in [Run -> Version \cup {None}]
         /\ cand' \in [Run -> Stored \cup {None}]
         /\ way' \in [Run -> {"shadow", "conditional"}] /\ status' \in [Run -> {200, 304}]
         /\ prepared' \in [Run -> BOOLEAN]
  BY DEF Exit, Proceed, EvaluationTypeOK

LEMMA SelectType ==
  ASSUME EvaluationTypeOK, NEW r \in Run, NEW S \in SUBSET results, Select(r, S)
  PROVE  cand' \in [Run -> Stored \cup {None}]
  <1>1. cand \in [Run -> Stored \cup {None}] /\ S \subseteq Stored
    BY DEF EvaluationTypeOK
  <1>2. PICK c \in Stored \cup {None} : cand' = [cand EXCEPT ![r] = c]
    BY <1>1 DEF Select, Newest
  <1> QED
    BY <1>1, <1>2

LEMMA LookupType ==
  ASSUME EvaluationTypeOK, NEW r \in Run, Lookup(r)
  PROVE  EvaluationTypeOK'
  <1>1. cand' \in [Run -> Stored \cup {None}]
    <2>1. Reusable(r) \in SUBSET results /\ Revalidatable(r) \in SUBSET results
      BY DEF Reusable, Revalidatable, Held
    <2> QED
      BY <2>1, SelectType DEF Lookup
  <1>2. stage' \in [Run -> Stage]
    <2>1. PICK step \in {"execute", "ask"} : Proceed(r, step) \/ stage' = stage
      BY DEF Lookup
    <2>2. stage \in [Run -> Stage] /\ step \in Stage
      BY DEF EvaluationTypeOK, Stage
    <2> QED
      BY <2>1, <2>2 DEF Proceed
  <1>3. way' \in [Run -> {"shadow", "conditional"}]
    <2>1. way \in [Run -> {"shadow", "conditional"}]
      BY DEF EvaluationTypeOK
    <2>2. way' = way \/ way' = [way EXCEPT ![r] = "shadow"]
      BY DEF Lookup
    <2> QED
      BY <2>1, <2>2
  <1> QED
    BY <1>1, <1>2, <1>3 DEF Lookup, EvaluationTypeOK, world, store, file

LEMMA StepType ==
  ASSUME LocalInv, NEW r \in Run, Step(r)
  PROVE  EvaluationTypeOK'
  <1> USE DEF LocalInv, world, store, file, locals
  <1>0. EvaluationTypeOK
    OBVIOUS
  <1>1. CASE NextCase(r)
    BY <1>1 DEF NextCase, Proceed, Stage, EvaluationTypeOK
  <1>2. CASE ConditionalGet(r)
    <2>1. source[UrlOf(r)] \in Version
      BY <1>2, SourceType DEF ConditionalGet
    <2>2. /\ body' \in [Run -> Version \cup {None}] /\ status' \in [Run -> {200, 304}]
          /\ stage' \in [Run -> Stage]
      <3>1. /\ body \in [Run -> Version \cup {None}] /\ status \in [Run -> {200, 304}]
            /\ stage \in [Run -> Stage] /\ {"save", "execute"} \subseteq Stage
        BY DEF Stage, EvaluationTypeOK
      <3>2. CASE source[UrlOf(r)] = cand[r].output
        BY <1>2, <3>1, <3>2 DEF ConditionalGet, Proceed
      <3>3. CASE source[UrlOf(r)] # cand[r].output
        BY <1>2, <2>1, <3>1, <3>3 DEF ConditionalGet, Proceed
      <3> QED
        BY <3>2, <3>3
    <2> QED
      BY <1>2, <2>2 DEF ConditionalGet, EvaluationTypeOK
  <1>3. CASE Execute(r)
    <2>1. source[UrlOf(r)] \in Version
      BY <1>3, SourceType DEF Execute
    <2>2. /\ body' \in [Run -> Version \cup {None}] /\ stage' \in [Run -> Stage]
      BY <1>3, <2>1 DEF Execute, Proceed, Stage, EvaluationTypeOK
    <2> QED
      BY <1>3, <2>2 DEF Execute, EvaluationTypeOK
  <1>4. CASE Save(r)
    <2>1. Published(r) \in Stored
      BY <1>4, PublishedType DEF Save
    <2>2. Verified(r) => cand[r] \in Stored /\ now[r] \in Nat
      BY <1>4 DEF Save, Verified, Progress, EvaluationTypeOK
    <2>3. results' \subseteq Stored /\ validations' \subseteq [of : Stored, at : Nat]
      BY <1>4, <2>1, <2>2 DEF Save, EvaluationTypeOK
    <2> QED
      BY <1>4, <2>3 DEF Save, Proceed, Stage, EvaluationTypeOK
  <1>5. CASE Record(r)
    <2>1. log' \in Seq(Line \cup {Glued}) /\ recorded' \subseteq Line
      BY <1>5, EventType DEF Record, EvaluationTypeOK
    <2> QED
      BY <1>5, <2>1 DEF Record, Proceed, Stage, EvaluationTypeOK
  <1>6. CASE Publish(r)
    <2>1. Published(r) \in Stored
      BY <1>6, PublishedType DEF Publish
    <2> QED
      BY <1>6, <2>1 DEF Publish, Proceed, Stage, EvaluationTypeOK
  <1>7. CASE Report(r)
    BY <1>7, ExitType DEF Report, Stage, EvaluationTypeOK
  <1> QED
    BY <1>1, <1>2, <1>3, <1>4, <1>5, <1>6, <1>7, LookupType DEF Step

LEMMA NextType ==
  ASSUME LocalInv, EvaluationNext
  PROVE  EvaluationTypeOK'
  <1> USE DEF LocalInv, world, store, file, locals
  <1>1. ASSUME NEW r \in Run, Begin(r) PROVE EvaluationTypeOK'
    BY <1>1 DEF Begin, Proceed, Stage, EvaluationTypeOK
  <1>2. ASSUME NEW r \in Run, Interrupt(r) PROVE EvaluationTypeOK'
    BY <1>2, ExitType DEF Interrupt, Stage, EvaluationTypeOK
  <1>3. ASSUME NEW r \in Run, InterruptWrite(r) PROVE EvaluationTypeOK'
    BY <1>3, ExitType, EventType DEF InterruptWrite, Stage, EvaluationTypeOK
  <1>4. ASSUME NEW u \in Url, SourceChanges(u) PROVE EvaluationTypeOK'
    BY <1>4 DEF SourceChanges, EvaluationTypeOK
  <1>5. CASE Tick
    BY <1>5 DEF Tick, EvaluationTypeOK
  <1> QED
    BY <1>1, <1>2, <1>3, <1>4, <1>5, StepType DEF EvaluationNext

-----------------------------------------------------------------------------
\* The local invariant is inductive: run by run.

LocalOK(r) ==
  /\ case[r] <= Expected(r)
  /\ Active(r) /\ stage[r] # "next" => case[r] > 0
  /\ ~Active(r) => case[r] = 0
  /\ ModeOf[r] = "evaluate" => way[r] = "shadow"
  /\ stage[r] = "publish" => way[r] = "shadow"
  /\ stage[r] \in {"ask", "save"} => way[r] = "conditional"
  /\ stage[r] \in {"ask", "execute", "save", "record"} /\ way[r] = "conditional" =>
       cand[r] # None
  /\ case[r] > 0 /\ ~(Fetches(r) /\ stage[r] \in {"lookup", "ask", "execute"}) =>
       body[r] # None

\* What one step does to the memory of the run that takes it.
LEMMA RunStep ==
  ASSUME LocalInv, NEW r \in Run,
         Begin(r) \/ Step(r) \/ Interrupt(r) \/ InterruptWrite(r)
  PROVE  LocalOK(r)'
  <1>0. /\ LocalOK(r) /\ stage[r] \in Stage /\ case[r] \in Nat
        /\ way[r] \in {"shadow", "conditional"} /\ Expected(r) \in Nat
    BY Sizes DEF LocalInv, Progress, HasBody, LocalOK, EvaluationTypeOK
  <1>t. /\ stage \in [Run -> Stage] /\ case \in [Run -> Nat]
        /\ way \in [Run -> {"shadow", "conditional"}] /\ cand \in [Run -> Stored \cup {None}]
        /\ body \in [Run -> Version \cup {None}] /\ source \in [Url -> Version]
    BY DEF LocalInv, EvaluationTypeOK
  <1> USE DEF Proceed
  <1>1. CASE Begin(r)
    <2>1. stage'[r] = "next" /\ case'[r] = 0 /\ way' = way /\ stage[r] = "off" /\ case[r] = 0
      BY <1>0, <1>1, <1>t DEF Begin, locals, LocalOK, Active
    <2> QED
      BY <1>0, <2>1 DEF LocalOK, Active
  <1>2. CASE NextCase(r)
    <2>1. /\ stage[r] = "next" /\ stage'[r] = "lookup" /\ case'[r] = case[r] + 1
          /\ case[r] < Expected(r) /\ body' = body
          /\ way'[r] = IF ModeOf[r] = "evaluate" THEN "shadow" ELSE "conditional"
      BY <1>2, <1>t DEF NextCase
    <2>2. case'[r] > 0 /\ case'[r] <= Expected(r)
      BY <1>0, <2>1
    <2>3. ~Fetches(r)' => body'[r] # None
      <3>1. SUFFICES ASSUME ~Fetches(r)' PROVE body[r] # None
        BY <2>1
      <3>2. ModeOf[r] # "revalidate" /\ case'[r] % 2 # 1
        BY <3>1 DEF Fetches
      <3>3. case[r] > 0
        BY <1>0, <2>1, <3>2
      <3> QED
        BY <1>0, <2>1, <3>3 DEF LocalOK
    <2> QED
      BY <2>1, <2>2, <2>3 DEF LocalOK, Active
  <1>3. CASE Lookup(r)
    <2>1. stage[r] = "lookup" /\ stage'[r] \in {"lookup", "ask", "execute"}
          /\ case' = case /\ body' = body
      BY <1>3, <1>t DEF Lookup
    <2>2. Fetches(r)' = Fetches(r)
      BY <2>1 DEF Fetches
    <2>3. /\ way[r] = "shadow" => way'[r] = "shadow" /\ stage'[r] = "execute"
          /\ stage'[r] = "ask" => way'[r] = "conditional" /\ cand'[r] # None
          /\ stage'[r] = "execute" => way'[r] = "shadow"
      BY <1>0, <1>3, <1>t DEF Lookup
    <2> QED
      BY <1>0, <2>1, <2>2, <2>3 DEF LocalOK, Active
  <1>4. CASE ConditionalGet(r)
    <2>1. /\ stage[r] = "ask" /\ stage'[r] \in {"execute", "save"}
          /\ case' = case /\ cand' = cand /\ way' = way
          /\ stage'[r] = "save" => body'[r] # None
      <3>1. source[UrlOf(r)] \in Version /\ None \notin Version
        BY <1>4, SourceType, NoneAssumption DEF ConditionalGet
      <3> QED
        BY <1>4, <1>t, <3>1 DEF ConditionalGet
    <2>2. Fetches(r)' = Fetches(r) /\ Fetches(r)
      <3>1. ModeOf[r] = "revalidate"
        BY <1>0, <2>1, WorkloadAssumption DEF LocalOK
      <3> QED
        BY <3>1, <2>1 DEF Fetches
    <2> QED
      BY <1>0, <2>1, <2>2 DEF LocalOK, Active
  <1>5. CASE Execute(r)
    <2>1. /\ stage[r] = "execute" /\ stage'[r] \in {"record", "save"}
          /\ stage'[r] = "save" => way[r] # "shadow"
          /\ case' = case /\ cand' = cand /\ way' = way
      BY <1>5, <1>t DEF Execute
    <2>2. Fetches(r)' = Fetches(r) /\ case[r] > 0
      BY <1>0, <2>1 DEF Fetches, LocalOK, Active
    <2>3. body'[r] # None
      <3>1. source[UrlOf(r)] \in Version /\ None \notin Version
        BY <2>1, SourceType, NoneAssumption
      <3>2. ~Fetches(r) => body[r] # None
        BY <1>0, <2>2 DEF LocalOK
      <3> QED
        BY <1>5, <1>t, <3>1, <3>2 DEF Execute
    <2> QED
      BY <1>0, <2>1, <2>2, <2>3 DEF LocalOK, Active
  <1>6. CASE Save(r) \/ Record(r) \/ Publish(r)
    <2>1. /\ stage[r] \in {"save", "record", "publish"} /\ stage'[r] \in {"record", "publish", "next"}
          /\ stage'[r] = "publish" => way[r] = "shadow"
          /\ stage'[r] = "record" => stage[r] = "save"
          /\ case' = case /\ cand' = cand /\ way' = way /\ body' = body
      BY <1>6, <1>t DEF Save, Record, Publish, locals
    <2>2. Fetches(r)' = Fetches(r)
      BY <2>1 DEF Fetches
    <2> QED
      BY <1>0, <2>1, <2>2 DEF LocalOK, Active
  <1>7. CASE Report(r) \/ Interrupt(r) \/ InterruptWrite(r)
    <2>1. PICK step \in {"ended", "dead"} : Exit(r, step)
      BY <1>7 DEF Report, Interrupt, InterruptWrite
    <2>2. stage'[r] = step /\ case'[r] = 0 /\ way'[r] = "shadow"
      BY <2>1, <1>t DEF Exit
    <2> QED
      BY <1>0, <2>2 DEF LocalOK, Active
  <1> QED
    BY <1>1, <1>2, <1>3, <1>4, <1>5, <1>6, <1>7 DEF Step

\* ... and none to the others'.
LEMMA OtherRuns ==
  ASSUME LocalInv, NEW r \in Run,
         Begin(r) \/ Step(r) \/ Interrupt(r) \/ InterruptWrite(r),
         NEW q \in Run, q # r
  PROVE  /\ stage'[q] = stage[q] /\ case'[q] = case[q] /\ now'[q] = now[q]
         /\ body'[q] = body[q] /\ cand'[q] = cand[q] /\ way'[q] = way[q]
         /\ status'[q] = status[q] /\ prepared'[q] = prepared[q]
  <1>t. /\ stage \in [Run -> Stage] /\ case \in [Run -> Nat] /\ now \in [Run -> Nat]
        /\ way \in [Run -> {"shadow", "conditional"}] /\ cand \in [Run -> Stored \cup {None}]
        /\ body \in [Run -> Version \cup {None}] /\ status \in [Run -> {200, 304}]
        /\ prepared \in [Run -> BOOLEAN]
    BY DEF LocalInv, EvaluationTypeOK
  <1> USE <1>t DEF Proceed, locals
  <1>1. CASE Begin(r) \/ NextCase(r)
    BY <1>1 DEF Begin, NextCase
  <1>2. CASE Lookup(r)
    <2>1. cand'[q] = cand[q]
      BY <1>2 DEF Lookup, Select
    <2>2. stage'[q] = stage[q] /\ way'[q] = way[q]
      BY <1>2 DEF Lookup
    <2> QED
      BY <1>2, <2>1, <2>2 DEF Lookup
  <1>3. CASE ConditionalGet(r) \/ Execute(r)
    BY <1>3 DEF ConditionalGet, Execute
  <1>4. CASE Save(r) \/ Record(r) \/ Publish(r)
    BY <1>4 DEF Save, Record, Publish
  <1>5. CASE Report(r) \/ Interrupt(r) \/ InterruptWrite(r)
    <2>1. PICK step \in {"ended", "dead"} : Exit(r, step)
      BY <1>5 DEF Report, Interrupt, InterruptWrite
    <2> QED
      BY <2>1 DEF Exit
  <1> QED
    BY <1>1, <1>2, <1>3, <1>4, <1>5 DEF Step

LEMMA LocalStep == LocalInv /\ [EvaluationNext]_evaluationVars => LocalInv'
  <1> SUFFICES ASSUME LocalInv, [EvaluationNext]_evaluationVars PROVE LocalInv'
    OBVIOUS
  <1>0. \A q \in Run : LocalOK(q)
    BY DEF LocalInv, Progress, HasBody, LocalOK
  <1>1. EvaluationTypeOK'
    <2>1. CASE UNCHANGED evaluationVars
      BY <2>1 DEF evaluationVars, world, store, file, locals, LocalInv, EvaluationTypeOK
    <2> QED
      BY <2>1, NextType
  <1>2. ASSUME NEW q \in Run PROVE LocalOK(q)'
    <2>1. ASSUME NEW r \in Run, Begin(r) \/ Step(r) \/ Interrupt(r) \/ InterruptWrite(r)
          PROVE  LocalOK(q)'
      <3>1. CASE q = r
        BY <2>1, <3>1, RunStep
      <3>2. CASE q # r
        <4>1. /\ stage'[q] = stage[q] /\ case'[q] = case[q] /\ body'[q] = body[q]
              /\ cand'[q] = cand[q] /\ way'[q] = way[q]
          BY <2>1, <3>2, OtherRuns
        <4> QED
          BY <1>0, <4>1 DEF LocalOK, Active, Fetches
      <3> QED
        BY <3>1, <3>2
    <2>2. CASE UNCHANGED <<stage, case, locals>>
      BY <1>0, <2>2 DEF LocalOK, Active, Fetches, locals
    <2> QED
      BY <2>1, <2>2 DEF EvaluationNext, SourceChanges, Tick, evaluationVars
  <1>3. Progress' /\ HasBody'
    BY <1>2 DEF Progress, HasBody, LocalOK
  <1> QED
    BY <1>1, <1>3 DEF LocalInv

LEMMA LocalInit == EvaluationInit => LocalInv
  <1> SUFFICES ASSUME EvaluationInit PROVE LocalInv
    OBVIOUS
  <1>1. EvaluationTypeOK
    BY DEF EvaluationInit, EvaluationTypeOK, Stage
  <1>2. Progress /\ HasBody
    BY Sizes DEF EvaluationInit, Progress, HasBody, Active
  <1> QED
    BY <1>1, <1>2 DEF LocalInv

LEMMA LocalAlways == EvaluationSpec => []LocalInv
  BY LocalInit, LocalStep, PTL DEF EvaluationSpec

\* Every variable keeps its type: in particular nothing is published without
\* bytes, and no validation without a candidate (run_conditional_http_shadow).
THEOREM EvaluationTypes == EvaluationSpec => []EvaluationTypeOK
  <1>1. LocalInv => EvaluationTypeOK
    BY DEF LocalInv
  <1> QED
    BY <1>1, LocalAlways, PTL

-----------------------------------------------------------------------------
\* What a step does to the file.

LEMMA FileKept ==
  ASSUME UNCHANGED file
  PROVE  Lines' = Lines /\ Events' = Events /\ Readable' = Readable
  BY DEF file, Lines, Events, Readable

LEMMA EventsType == EvaluationTypeOK => Lines \subseteq Events /\ Events \subseteq Line
  <1> SUFFICES ASSUME EvaluationTypeOK PROVE Lines \subseteq Events /\ Events \subseteq Line
    OBVIOUS
  <1>1. log \in Seq(Line \cup {Glued}) /\ tail \in Line \cup {NoTail, Torn}
    BY DEF EvaluationTypeOK
  <1>2. Lines \subseteq Line
    BY <1>1 DEF Lines
  <1> QED
    BY <1>1, <1>2 DEF Events

\* A recorded event is a line, unless it ran into what was left: then the
\* log is not readable any more.
LEMMA Recording ==
  ASSUME EvaluationTypeOK, NEW r \in Run, Record(r)
  PROVE  /\ Events' \subseteq Events \cup {Event(r)}
         /\ Readable' => Readable /\ Lines' = Lines \cup {Event(r)}
  <1> DEFINE new == IF tail = NoTail THEN Event(r) ELSE Glued
  <1>1. log \in Seq(Line \cup {Glued}) /\ new \in Line \cup {Glued}
    BY EventType DEF EvaluationTypeOK
  <1>2. log' = Append(log, new) /\ tail' = NoTail
    BY DEF Record
  <1>3. /\ Len(log') = Len(log) + 1 /\ log'[Len(log) + 1] = new /\ Len(log) \in Nat
        /\ \A i \in 1 .. Len(log) : log'[i] = log[i]
    <2> HIDE DEF new
    <2> QED
      BY <1>1, <1>2
  <1>4. /\ {log'[i] : i \in 1 .. Len(log')} = {log[i] : i \in 1 .. Len(log)} \cup {new}
        /\ Readable' => Readable /\ new # Glued
    <2>1. 1 .. Len(log') = (1 .. Len(log)) \cup {Len(log) + 1}
      BY <1>3
    <2> HIDE DEF new
    <2> QED
      BY <1>3, <2>1 DEF Readable
  <1>5. Lines' = (Lines \cup {new}) \ {Glued}
    BY <1>4 DEF Lines
  <1>6. Events' = Lines'
    BY <1>2 DEF Events
  <1>7. Events' \subseteq Events \cup {Event(r)}
    BY <1>5, <1>6 DEF Events
  <1>8. Readable' => Lines' = Lines \cup {Event(r)}
    BY <1>4, <1>5 DEF Lines
  <1> QED
    BY <1>4, <1>7, <1>8

\* An interrupted write leaves at most its own event.
LEMMA InterruptedWriting ==
  ASSUME NEW r \in Run, InterruptWrite(r)
  PROVE  Lines' = Lines /\ Readable' = Readable /\ Events' \subseteq Events \cup {Event(r)}
  <1>1. log' = log
    BY DEF InterruptWrite
  <1>2. Lines' = Lines /\ Readable' = Readable
    BY <1>1 DEF Lines, Readable
  <1>3. tail' = Torn \/ tail' = Event(r)
    BY DEF InterruptWrite
  <1> QED
    BY <1>2, <1>3 DEF Events

\* Only these two write.
LEMMA OnlyWrites ==
  ASSUME [EvaluationNext]_evaluationVars
  PROVE  \/ UNCHANGED <<file, recorded>>
         \/ \E r \in Run : Record(r) \/ InterruptWrite(r)
  BY DEF EvaluationNext, Step, Begin, NextCase, Lookup, ConditionalGet, Execute, Save,
         Publish, Report, Interrupt, SourceChanges, Tick, evaluationVars

\* The actions of a run, and the rest.
LEMMA WhoActs ==
  ASSUME [EvaluationNext]_evaluationVars
  PROVE  \/ \E r \in Run : Begin(r) \/ Step(r) \/ Interrupt(r) \/ InterruptWrite(r)
         \/ UNCHANGED <<store, file, stage, case, locals, recorded, prepared>>
  BY DEF EvaluationNext, SourceChanges, Tick, evaluationVars

-----------------------------------------------------------------------------
\* Nothing that was recorded is lost.

AllLogged == Readable => recorded \subseteq Lines

LEMMA AllLoggedStep ==
  ASSUME LocalInv, AllLogged, [EvaluationNext]_evaluationVars
  PROVE  AllLogged'
  <1>1. EvaluationTypeOK
    BY DEF LocalInv
  <1>2. CASE UNCHANGED <<file, recorded>>
    BY <1>2, FileKept DEF AllLogged
  <1>3. ASSUME NEW r \in Run, Record(r) PROVE AllLogged'
    <2>1. recorded' = recorded \cup {Event(r)}
      BY <1>3 DEF Record
    <2> QED
      BY <1>1, <1>3, <2>1, Recording DEF AllLogged
  <1>4. ASSUME NEW r \in Run, InterruptWrite(r) PROVE AllLogged'
    <2>1. recorded' = recorded
      BY <1>4 DEF InterruptWrite
    <2> QED
      BY <1>4, <2>1, InterruptedWriting DEF AllLogged
  <1> QED
    BY <1>2, <1>3, <1>4, OnlyWrites

\* Whatever is interrupted and whoever appends after it, read_jsonl refuses
\* the log or returns every event whose record() returned.
THEOREM RecordedEventsAreRead == EvaluationSpec => []NothingLost
  <1>1. EvaluationInit => AllLogged
    BY DEF EvaluationInit, AllLogged
  <1>2. LocalInv /\ AllLogged /\ [EvaluationNext]_evaluationVars => AllLogged'
    BY AllLoggedStep
  <1>3. LocalInv /\ AllLogged => NothingLost
    BY EventsType DEF LocalInv, AllLogged, NothingLost
  <1> QED
    BY <1>1, <1>2, <1>3, LocalAlways, PTL DEF EvaluationSpec

-----------------------------------------------------------------------------
\* A validation is stored before the line that reports it.

SavedFirst ==
  /\ ValidationsBacked
  /\ \A r \in Run :
       stage[r] = "record" /\ Verified(r) => [of |-> cand[r], at |-> now[r]] \in validations

LEMMA ValidationsStay ==
  ASSUME [EvaluationNext]_evaluationVars
  PROVE  validations \subseteq validations'
  BY DEF EvaluationNext, Step, Begin, NextCase, Lookup, ConditionalGet, Execute, Save, Record,
         Publish, Report, Interrupt, InterruptWrite, SourceChanges, Tick, evaluationVars, store

LEMMA SavedFirstStep ==
  ASSUME LocalInv, SavedFirst, [EvaluationNext]_evaluationVars
  PROVE  SavedFirst'
  <1>1. EvaluationTypeOK /\ ValidationsBacked /\ validations \subseteq validations'
    BY ValidationsStay DEF LocalInv, SavedFirst
  <1>2. ValidationsBacked'
    <2>1. CASE UNCHANGED <<file, recorded>>
      BY <1>1, <2>1, FileKept DEF ValidationsBacked
    <2>2. ASSUME NEW r \in Run, Record(r) \/ InterruptWrite(r) PROVE ValidationsBacked'
      <3>1. Events' \subseteq Events \cup {Event(r)} /\ stage[r] = "record"
        BY <1>1, <2>2, Recording, InterruptedWriting DEF Record, InterruptWrite
      <3>2. Event(r).validated => [of |-> Event(r).candidate, at |-> Event(r).at] \in validations
        BY <3>1 DEF SavedFirst, Event
      <3> QED
        BY <1>1, <3>1, <3>2 DEF ValidationsBacked
    <2> QED
      BY <2>1, <2>2, OnlyWrites
  <1>3. ASSUME NEW q \in Run, stage'[q] = "record", Verified(q)'
        PROVE  [of |-> cand'[q], at |-> now'[q]] \in validations'
    <2>1. ASSUME NEW r \in Run, Begin(r) \/ Step(r) \/ Interrupt(r) \/ InterruptWrite(r)
          PROVE  [of |-> cand'[q], at |-> now'[q]] \in validations'
      <3>1. CASE q # r
        <4>1. /\ stage'[q] = stage[q] /\ now'[q] = now[q] /\ body'[q] = body[q]
              /\ cand'[q] = cand[q] /\ way'[q] = way[q] /\ status'[q] = status[q]
          BY <2>1, <3>1, OtherRuns
        <4>2. stage[q] = "record" /\ Verified(q)
          BY <1>3, <4>1 DEF Verified
        <4>3. [of |-> cand[q], at |-> now[q]] \in validations
          BY <4>2 DEF SavedFirst
        <4> QED
          BY <1>1, <4>1, <4>3
      <3>2. CASE q = r
        <4>1. stage \in [Run -> Stage]
          BY <1>1 DEF EvaluationTypeOK
        <4>2. Save(r) \/ Execute(r)
          <5>1. ~(Begin(r) \/ NextCase(r) \/ Lookup(r) \/ ConditionalGet(r) \/ Record(r)
                    \/ Publish(r))
            <6>1. ~(Begin(r) \/ NextCase(r) \/ Record(r) \/ Publish(r))
              BY <1>3, <3>2, <4>1 DEF Begin, NextCase, Record, Publish, Proceed
            <6>2. ~(Lookup(r) \/ ConditionalGet(r))
              BY <1>3, <3>2, <4>1 DEF Lookup, ConditionalGet, Proceed
            <6> QED
              BY <6>1, <6>2
          <5>2. ~(Report(r) \/ Interrupt(r) \/ InterruptWrite(r))
            <6>1. \A step \in {"ended", "dead"} : ~Exit(r, step)
              BY <1>3, <3>2, <4>1 DEF Exit, Proceed
            <6> QED
              BY <6>1 DEF Report, Interrupt, InterruptWrite
          <5> QED
            BY <2>1, <5>1, <5>2 DEF Step
        <4>3. ~Execute(r)
          <5>1. SUFFICES ASSUME Execute(r) PROVE FALSE
            OBVIOUS
          <5>2. way'[r] = "conditional" /\ way' = way
            BY <1>3, <3>2, <5>1 DEF Verified, Execute
          <5> QED
            BY <1>3, <3>2, <4>1, <5>1, <5>2 DEF Execute, Proceed
        <4>4. Verified(r) /\ now' = now /\ cand' = cand
          BY <1>3, <3>2, <4>2, <4>3 DEF Save, Verified, locals
        <4> QED
          BY <3>2, <4>2, <4>3, <4>4 DEF Save
      <3> QED
        BY <3>1, <3>2
    <2>2. CASE UNCHANGED <<store, file, stage, case, locals, recorded, prepared>>
      BY <1>1, <1>3, <2>2 DEF SavedFirst, Verified, locals
    <2> QED
      BY <2>1, <2>2, WhoActs
  <1> QED
    BY <1>2, <1>3 DEF SavedFirst

\* run_conditional_http_shadow calls put_validation before record: a line
\* that claims a validation has it in the store, in every interleaving of
\* runs and after every interruption.
THEOREM ReportedValidationsAreStored == EvaluationSpec => []ValidationsBacked
  <1>1. EvaluationInit => SavedFirst
    BY DEF EvaluationInit, SavedFirst, ValidationsBacked, Events, Lines
  <1>2. LocalInv /\ SavedFirst /\ [EvaluationNext]_evaluationVars => SavedFirst'
    BY SavedFirstStep
  <1>3. SavedFirst => ValidationsBacked
    BY DEF SavedFirst
  <1> QED
    BY <1>1, <1>2, <1>3, LocalAlways, PTL DEF EvaluationSpec

-----------------------------------------------------------------------------
\* An operation has at most one event, and no run has an event of an
\* operation it has not recorded.

Written(r, i) ==
  \/ stage[r] \in {"ended", "dead"}
  \/ Active(r) /\ i < case[r]
  \/ stage[r] \in {"publish", "next"} /\ i = case[r]

EventsPlaced ==
  /\ \A e \in Events :
       e.id = IdOf[e.run] /\ e.case \in 1 .. Expected(e.run) /\ Written(e.run, e.case)
  /\ \A e, f \in Events : e.run = f.run /\ e.case = f.case => e = f

LEMMA WrittenStays ==
  ASSUME LocalInv, [EvaluationNext]_evaluationVars, NEW q \in Run, NEW i \in Nat \ {0},
         Written(q, i)
  PROVE  Written(q, i)'
  <1>1. ASSUME NEW r \in Run, Begin(r) \/ Step(r) \/ Interrupt(r) \/ InterruptWrite(r)
        PROVE  Written(q, i)'
    <2>t. stage \in [Run -> Stage] /\ case \in [Run -> Nat]
      BY DEF LocalInv, EvaluationTypeOK
    <2>1. CASE q # r
      <3>1. stage'[q] = stage[q] /\ case'[q] = case[q]
        BY <1>1, <2>1, OtherRuns
      <3> QED
        BY <3>1 DEF Written, Active
    <2> USE <2>t DEF Proceed
    <2>2. CASE q = r /\ NextCase(r)
      <3>1. stage[q] = "next" /\ stage'[q] = "lookup" /\ case'[q] = case[q] + 1
        BY <2>2 DEF NextCase
      <3>2. i < case'[q]
        BY <3>1 DEF Written
      <3> QED
        BY <3>1, <3>2 DEF Written, Active
    <2>3. CASE q = r /\ (Lookup(r) \/ ConditionalGet(r) \/ Execute(r) \/ Save(r))
      <3>1. /\ stage[q] \in {"lookup", "ask", "execute", "save"} /\ case' = case
            /\ stage'[q] \in {"lookup", "ask", "execute", "save", "record"}
        BY <2>3 DEF Lookup, ConditionalGet, Execute, Save
      <3> QED
        BY <3>1 DEF Written, Active
    <2>4. CASE q = r /\ (Record(r) \/ Publish(r))
      <3>1. /\ stage[q] \in {"record", "publish"} /\ case' = case
            /\ stage'[q] \in {"publish", "next"}
            /\ stage[q] = "publish" => stage'[q] = "next"
        BY <2>4 DEF Record, Publish
      <3> QED
        BY <3>1 DEF Written, Active
    <2>5. CASE q = r /\ Begin(r)
      BY <2>5 DEF Begin, Written, Active
    <2>6. CASE q = r /\ (Report(r) \/ Interrupt(r) \/ InterruptWrite(r))
      <3>1. stage'[q] \in {"ended", "dead"}
        BY <2>6 DEF Report, Interrupt, InterruptWrite, Exit
      <3> QED
        BY <3>1 DEF Written
    <2> QED
      BY <1>1, <2>1, <2>2, <2>3, <2>4, <2>5, <2>6 DEF Step
  <1>2. CASE UNCHANGED <<store, file, stage, case, locals, recorded, prepared>>
    BY <1>2 DEF Written, Active
  <1> QED
    BY <1>1, <1>2, WhoActs

\* The new event, of the operation its run is in, is the first one of it.
LEMMA WritingIsNew ==
  ASSUME LocalInv, EventsPlaced, NEW r \in Run, Record(r) \/ InterruptWrite(r),
         NEW i, i = case[r]
  PROVE  /\ Events' \subseteq Events \cup {Event(r)}
         /\ Event(r).run = r /\ Event(r).id = IdOf[r] /\ Event(r).case = i
         /\ i \in 1 .. Expected(r) /\ Written(r, i)'
         /\ \A e \in Events : ~(e.run = r /\ e.case = i)
  <1>1. Events' \subseteq Events \cup {Event(r)} /\ stage[r] = "record"
    BY Recording, InterruptedWriting DEF LocalInv, Record, InterruptWrite
  <1>2. Event(r).run = r /\ Event(r).id = IdOf[r] /\ Event(r).case = i
    BY DEF Event
  <1>3. i \in 1 .. Expected(r)
    <2>1. case[r] \in Nat /\ Expected(r) \in Nat /\ Progress
      BY Sizes DEF LocalInv, EvaluationTypeOK
    <2>2. case[r] > 0 /\ case[r] <= Expected(r)
      BY <1>1, <2>1 DEF Progress, Active
    <2> QED
      BY <2>1, <2>2
  <1>4. Written(r, i)'
    <2>t. stage \in [Run -> Stage]
      BY DEF LocalInv, EvaluationTypeOK
    <2>1. CASE Record(r)
      <3>1. stage'[r] \in {"publish", "next"} /\ case' = case
        BY <2>1, <2>t DEF Record, Proceed
      <3> QED
        BY <3>1 DEF Written
    <2>2. CASE InterruptWrite(r)
      <3>1. stage'[r] = "dead"
        BY <2>2, <2>t DEF InterruptWrite, Exit, Proceed
      <3> QED
        BY <3>1 DEF Written
    <2> QED
      BY <2>1, <2>2
  <1>5. ~Written(r, i)
    BY <1>1, <1>3, Sizes DEF Written
  <1>6. \A e \in Events : ~(e.run = r /\ e.case = i)
    BY <1>5 DEF EventsPlaced
  <1> QED
    BY <1>1, <1>2, <1>3, <1>4, <1>6

LEMMA EventsPlacedStep ==
  ASSUME LocalInv, EventsPlaced, [EvaluationNext]_evaluationVars
  PROVE  EventsPlaced'
  <1>1. Events \subseteq Line
    BY EventsType DEF LocalInv
  <1>2. \A e \in Events : /\ e.run \in Run /\ e.id = IdOf[e.run]
                          /\ e.case \in 1 .. Expected(e.run) /\ Written(e.run, e.case)'
    <2> SUFFICES ASSUME NEW e \in Events
                 PROVE  /\ e.run \in Run /\ e.id = IdOf[e.run]
                        /\ e.case \in 1 .. Expected(e.run) /\ Written(e.run, e.case)'
      OBVIOUS
    <2>1. /\ e.run \in Run /\ e.id = IdOf[e.run] /\ e.case \in 1 .. Expected(e.run)
          /\ Written(e.run, e.case)
      BY <1>1 DEF EventsPlaced, Line
    <2>2. e.case \in Nat \ {0}
      BY <2>1, Sizes
    <2> QED
      BY <2>1, <2>2, WrittenStays
  <1>3. \A r : Expected(r)' = Expected(r)
    BY DEF Expected, Operations
  <1>4. CASE UNCHANGED <<file, recorded>>
    <2>1. Events' = Events
      BY <1>4, FileKept
    <2> QED
      BY <1>2, <1>3, <2>1 DEF EventsPlaced
  <1>5. ASSUME NEW r \in Run, Record(r) \/ InterruptWrite(r) PROVE EventsPlaced'
    <2> PICK i : i = case[r]
      OBVIOUS
    <2> PICK new : new = Event(r)
      OBVIOUS
    <2>1. /\ Events' \subseteq Events \cup {new}
          /\ new.run = r /\ new.id = IdOf[r] /\ new.case = i
          /\ i \in 1 .. Expected(r) /\ Written(r, i)'
          /\ \A e \in Events : ~(e.run = r /\ e.case = i)
      BY <1>5, WritingIsNew
    <2>2. \A e \in Events' : /\ e.id = IdOf[e.run] /\ e.case \in 1 .. Expected(e.run)
                             /\ Written(e.run, e.case)'
      BY <1>2, <2>1
    <2>3. \A e, f \in Events' : e.run = f.run /\ e.case = f.case => e = f
      BY <2>1 DEF EventsPlaced
    <2> QED
      BY <1>3, <2>2, <2>3 DEF EventsPlaced
  <1> QED
    BY <1>4, <1>5, OnlyWrites

LEMMA PlacedAlways == EvaluationSpec => []EventsPlaced
  <1>1. EvaluationInit => EventsPlaced
    BY DEF EvaluationInit, EventsPlaced, Events, Lines
  <1>2. LocalInv /\ EventsPlaced /\ [EvaluationNext]_evaluationVars => EventsPlaced'
    BY EventsPlacedStep
  <1> QED
    BY <1>1, <1>2, LocalAlways, PTL DEF EvaluationSpec

LEMMA EventsFinite == EvaluationTypeOK => IsFiniteSet(Events)
  <1> SUFFICES ASSUME EvaluationTypeOK PROVE IsFiniteSet(Events)
    OBVIOUS
  <1>1. IsFiniteSet(1 .. Len(log))
    BY FS_Interval DEF EvaluationTypeOK
  <1> DEFINE All == {log[i] : i \in 1 .. Len(log)}
             at == [i \in 1 .. Len(log) |-> log[i]]
  <1>2. IsFiniteSet(All)
    <2>1. at \in Surjection(1 .. Len(log), All)
      BY DEF Surjection
    <2> QED
      BY <1>1, <2>1, FS_Surjection
  <1>3. IsFiniteSet(All \cup {tail})
    BY <1>2, FS_AddElement
  <1>4. Events \subseteq All \cup {tail}
    BY DEF Events, Lines
  <1> QED
    BY <1>3, <1>4, FS_Subset

\* As many places as events, one event in a place: no place is empty.
LEMMA AllPlacesTaken ==
  ASSUME NEW S, IsFiniteSet(S), NEW n \in Nat, Cardinality(S) = n,
         \A e \in S : e.case \in 1 .. n,
         \A e, f \in S : e.case = f.case => e = f
  PROVE  \A i \in 1 .. n : \E e \in S : e.case = i
  <1> DEFINE place == [e \in S |-> e.case]
  <1>1. place \in [S -> 1 .. n] /\ \A e, f \in S : place[e] = place[f] => e = f
    OBVIOUS
  <1>2. IsFiniteSet(1 .. n) /\ Cardinality(1 .. n) = n
    BY FS_Interval
  <1>3. place \in Injection(S, 1 .. n)
    BY <1>1, Z3 DEF Injection, IsInjective
  <1>4. place \in Surjection(S, 1 .. n)
    BY <1>2, <1>3, FS_Injection
  <1> QED
    BY <1>4 DEF Surjection

\* evaluation_complete of the reports compares two numbers.  The number of
\* events of an id says that every operation of the workload is in the log,
\* once, if one run has used the id: no event stands for two operations, none
\* is counted twice, and none is of an operation outside the workload.
THEOREM CountingIsEnough == EvaluationSpec => []CompleteMeansCovered
  <1>1. LocalInv /\ EventsPlaced => CompleteMeansCovered
    <2> SUFFICES ASSUME LocalInv, EventsPlaced, NEW r \in Run,
                        Complete(r), \A q \in Run \ {r} : IdOf[q] = IdOf[r] => stage[q] = "off"
                 PROVE  \A i \in 1 .. Expected(r) : \E e \in Events : e.run = r /\ e.case = i
      BY DEF CompleteMeansCovered
    <2> DEFINE S == OfId(IdOf[r])
    <2>1. S \subseteq Events /\ IsFiniteSet(Events) /\ Events \subseteq Line
      BY EventsType, EventsFinite DEF OfId, LocalInv
    <2>2. IsFiniteSet(S) /\ Cardinality(S) = Expected(r) /\ Expected(r) \in Nat
      <3>1. Cardinality(S) = Expected(r)
        BY DEF Complete, Evaluations
      <3> QED
        BY <2>1, <3>1, FS_Subset, Sizes
    <2>3. \A e \in S : e.run = r
      <3> SUFFICES ASSUME NEW e \in S PROVE e.run = r
        OBVIOUS
      <3>1. e.run \in Run /\ e.id = IdOf[r] /\ e.id = IdOf[e.run] /\ Written(e.run, e.case)
        BY <2>1 DEF OfId, Line, EventsPlaced
      <3>2. stage[e.run] # "off"
        BY <3>1 DEF Written, Active
      <3> QED
        BY <3>1, <3>2
    <2>4. \A e \in S : e.case \in 1 .. Expected(r)
      BY <2>1, <2>3 DEF EventsPlaced
    <2>5. \A e, f \in S : e.case = f.case => e = f
      BY <2>1, <2>3 DEF EventsPlaced
    <2>6. \A i \in 1 .. Expected(r) : \E e \in S : e.case = i
      <3> HIDE DEF S
      <3> QED
        BY <2>2, <2>4, <2>5, AllPlacesTaken
    <2> QED
      BY <2>1, <2>3, <2>6
  <1> QED
    BY <1>1, LocalAlways, PlacedAlways, PTL

-----------------------------------------------------------------------------
\* A revalidation finds what an evaluation has published.

\* The fetches of an evaluation, of every other operation, are in the store
\* once it has gone past them.
Past(r, i) == stage[r] = "ended" \/ i < case[r] \/ (stage[r] = "next" /\ i = case[r])
Fetched(r) ==
  \A i \in 1 .. Expected(r) :
    i % 2 = 1 /\ Past(r, i) => \E c \in results : c.action = <<"fetch", UrlAt(r, i)>>
EvaluatedFetched == \A r \in Run : ModeOf[r] = "evaluate" => Fetched(r)

PreparedMeans ==
  \A r \in Run : prepared[r] => \E q \in Run : ModeOf[q] = "evaluate" /\ stage[q] = "ended"

LEMMA ResultsStay ==
  ASSUME [EvaluationNext]_evaluationVars
  PROVE  results \subseteq results'
  BY DEF EvaluationNext, Step, Begin, NextCase, Lookup, ConditionalGet, Execute, Save, Record,
         Publish, Report, Interrupt, InterruptWrite, SourceChanges, Tick, evaluationVars, store

\* A run gets past an operation by publishing what it fetched.
LEMMA GettingPast ==
  ASSUME LocalInv, NEW r \in Run, ModeOf[r] = "evaluate",
         Begin(r) \/ Step(r) \/ Interrupt(r) \/ InterruptWrite(r),
         NEW i \in 1 .. Expected(r), Past(r, i)', ~Past(r, i)
  PROVE  Publish(r) /\ i = case[r]
  <1>t. /\ stage \in [Run -> Stage] /\ case \in [Run -> Nat] /\ i \in Nat /\ i > 0
        /\ Expected(r) \in Nat
    BY Sizes DEF LocalInv, EvaluationTypeOK
  <1>w. way[r] = "shadow" /\ (stage[r] = "off" => case[r] = 0)
    BY DEF LocalInv, Progress, Active
  <1> USE <1>t DEF Proceed
  <1>1. ~Begin(r)
    BY <1>w DEF Begin, Past
  <1>2. ~NextCase(r)
    BY DEF NextCase, Past
  <1>3. ~(Lookup(r) \/ ConditionalGet(r) \/ Execute(r) \/ Save(r))
    <2>1. SUFFICES ASSUME Lookup(r) \/ ConditionalGet(r) \/ Execute(r) \/ Save(r) PROVE FALSE
      OBVIOUS
    <2>2. /\ case' = case
          /\ stage'[r] \in {"lookup", "ask", "execute", "save", "record"}
      BY <2>1 DEF Lookup, ConditionalGet, Execute, Save
    <2> QED
      BY <2>2 DEF Past
  <1>4. ~Record(r)
    BY <1>w DEF Record, Past
  <1>5. ~(Interrupt(r) \/ InterruptWrite(r))
    BY DEF Interrupt, InterruptWrite, Exit, Past
  <1>6. ~Report(r)
    <2>1. SUFFICES ASSUME Report(r) PROVE FALSE
      OBVIOUS
    <2>2. stage[r] = "next" /\ case[r] = Expected(r)
      BY <2>1 DEF Report
    <2> QED
      BY <2>2 DEF Past
  <1>7. Publish(r)
    BY <1>1, <1>2, <1>3, <1>4, <1>5, <1>6 DEF Step
  <1>8. i = case[r]
    BY <1>7 DEF Publish, Past
  <1> QED
    BY <1>7, <1>8

LEMMA FetchedStep ==
  ASSUME LocalInv, EvaluatedFetched, [EvaluationNext]_evaluationVars
  PROVE  EvaluatedFetched'
  <1> SUFFICES ASSUME NEW q \in Run, ModeOf[q] = "evaluate", NEW i \in 1 .. Expected(q),
                      i % 2 = 1, Past(q, i)'
               PROVE  \E c \in results' : c.action = <<"fetch", UrlAt(q, i)>>
    BY DEF EvaluatedFetched, Fetched, UrlAt, Expected, Operations
  <1>1. CASE Past(q, i)
    BY <1>1, ResultsStay DEF EvaluatedFetched, Fetched
  <1>2. CASE ~Past(q, i)
    <2>1. PICK r \in Run : Begin(r) \/ Step(r) \/ Interrupt(r) \/ InterruptWrite(r)
      BY <1>2, WhoActs DEF Past
    <2>2. q = r
      BY <1>2, <2>1, OtherRuns DEF Past
    <2>3. Publish(q) /\ i = case[q]
      BY <1>2, <2>1, <2>2, GettingPast
    <2>4. Published(q) \in results' /\ Published(q).action = Action(q)
      BY <2>3 DEF Publish, Published
    <2>5. Action(q) = <<"fetch", UrlAt(q, i)>>
      BY <2>3 DEF Action, Fetches, UrlOf
    <2> QED
      BY <2>4, <2>5
  <1> QED
    BY <1>1, <1>2

LEMMA PreparedStep ==
  ASSUME LocalInv, PreparedMeans, [EvaluationNext]_evaluationVars
  PROVE  PreparedMeans'
  <1>1. CASE UNCHANGED <<store, file, stage, case, locals, recorded, prepared>>
    BY <1>1 DEF PreparedMeans
  <1>2. ASSUME NEW r \in Run, Begin(r) \/ Step(r) \/ Interrupt(r) \/ InterruptWrite(r)
        PROVE  PreparedMeans'
    <2>t. prepared \in [Run -> BOOLEAN] /\ stage \in [Run -> Stage]
      BY DEF LocalInv, EvaluationTypeOK
    <2>1. \A q \in Run : stage[q] = "ended" => stage'[q] = "ended"
      <3>1. stage[r] # "ended"
        BY <1>2 DEF Begin, Step, NextCase, Lookup, ConditionalGet, Execute, Save, Record, Publish,
                    Report, Interrupt, InterruptWrite
      <3> QED
        BY <1>2, <3>1, OtherRuns
    <2>2. prepared'[r] => \E q \in Run : ModeOf[q] = "evaluate" /\ stage[q] = "ended"
      <3>1. CASE Begin(r)
        BY <3>1, <2>t DEF Begin
      <3>2. CASE Report(r) \/ Interrupt(r) \/ InterruptWrite(r)
        BY <3>2, <2>t DEF Report, Interrupt, InterruptWrite, Exit
      <3>3. CASE UNCHANGED prepared
        BY <3>3 DEF PreparedMeans
      <3> QED
        BY <1>2, <3>1, <3>2, <3>3 DEF Step, NextCase, Lookup, ConditionalGet, Execute, Save,
                                      Record, Publish
    <2>3. \A q \in Run \ {r} : prepared'[q] = prepared[q]
      BY <1>2, OtherRuns
    <2> QED
      BY <2>1, <2>2, <2>3 DEF PreparedMeans
  <1> QED
    BY <1>1, <1>2, WhoActs

LEMMA EvaluatedAlways == EvaluationSpec => [](EvaluatedFetched /\ PreparedMeans)
  <1>1. EvaluationInit => EvaluatedFetched /\ PreparedMeans
    BY DEF EvaluationInit, EvaluatedFetched, Fetched, Past, PreparedMeans
  <1>2. LocalInv /\ EvaluatedFetched /\ PreparedMeans /\ [EvaluationNext]_evaluationVars
          => EvaluatedFetched' /\ PreparedMeans'
    BY FetchedStep, PreparedStep
  <1> QED
    BY <1>1, <1>2, LocalAlways, PTL DEF EvaluationSpec

\* The url of a revalidation's operation was fetched by an evaluation: the
\* evaluation's fetch of the k-th url is its operation 2k - 1.
LEMMA Holds ==
  ASSUME LocalInv, EvaluatedFetched, PreparedMeans,
         NEW r \in Run, prepared[r], ModeOf[r] = "revalidate", stage[r] = "lookup"
  PROVE  Held(r) # {}
  <1>1. PICK q \in Run : ModeOf[q] = "evaluate" /\ stage[q] = "ended"
    BY DEF PreparedMeans
  <1>2. case[r] \in Nat \ {0}
    <2>1. case[r] \in Nat /\ Progress
      BY DEF LocalInv, EvaluationTypeOK
    <2>2. case[r] > 0
      BY <2>1 DEF Progress, Active
    <2> QED
      BY <2>1, <2>2
  <1> DEFINE n == Len(Urls)
             k == ((case[r] - 1) % n) + 1
  <1>3. n \in Nat \ {0} /\ Repetitions \in Nat \ {0}
    BY Sizes
  <1>4. k \in 1 .. n
    <2>1. case[r] - 1 \in Nat
      BY <1>2
    <2>2. \A a \in Nat, b \in Nat \ {0} : a % b \in 0 .. (b - 1)
      OBVIOUS
    <2>3. (case[r] - 1) % n \in 0 .. (n - 1)
      <3> HIDE DEF n
      <3> QED
        BY <1>3, <2>1, <2>2
    <2>4. \A a \in Int : a \in 0 .. (n - 1) => a + 1 \in 1 .. n
      <3> HIDE DEF n
      <3> QED
        BY <1>3
    <2> QED
      BY <1>3, <2>3, <2>4
  <1>5. UrlOf(r) = Urls[k]
    <2>1. Operations(r) = 1
      BY DEF Operations
    <2>2. (case[r] - 1) \div 1 = case[r] - 1
      BY <1>2
    <2> QED
      BY <2>1, <2>2 DEF UrlOf, UrlAt
  <1> DEFINE i == 2 * k - 1
  <1>6. UrlAt(q, i) = Urls[k]
    <2>1. Operations(q) = 2
      BY <1>1 DEF Operations
    <2>2. (i - 1) \div 2 = k - 1
      <3> HIDE DEF k, n
      <3> QED
        BY <1>3, <1>4
    <2>3. (k - 1) % n = k - 1
      <3>1. \A a \in Nat, b \in Nat \ {0} : a < b => a % b = a
        OBVIOUS
      <3>2. k - 1 \in Nat /\ k - 1 < n
        <4> HIDE DEF k, n
        <4> QED
          BY <1>3, <1>4
      <3> HIDE DEF k, n
      <3> QED
        BY <1>3, <3>1, <3>2
    <2>4. (k - 1) + 1 = k
      <3> HIDE DEF k, n
      <3> QED
        BY <1>3, <1>4
    <2> HIDE DEF k, i
    <2> QED
      BY <2>1, <2>2, <2>3, <2>4 DEF UrlAt
  <1>7. i \in 1 .. Expected(q) /\ i % 2 = 1
    <2>1. Expected(q) = Repetitions * n * 2
      BY <1>1 DEF Expected, Operations
    <2>2. Repetitions * n >= n
      <3>1. \A a, b \in Nat \ {0} : a * b >= b
        OBVIOUS
      <3> HIDE DEF n
      <3> QED
        BY <1>3, <3>1
    <2>3. Repetitions * n \in Nat
      BY <1>3
    <2>4. \A a, b, c \in Nat : c >= b /\ a \in 1 .. b => 2 * a - 1 \in 1 .. c * 2
      OBVIOUS
    <2>5. \A a \in Nat : a > 0 => (2 * a - 1) % 2 = 1
      OBVIOUS
    <2> HIDE DEF k, n
    <2>6. k \in Nat /\ k > 0
      BY <1>3, <1>4
    <2> QED
      BY <1>3, <1>4, <2>1, <2>2, <2>3, <2>4, <2>5, <2>6
  <1>8. PICK c \in results : c.action = <<"fetch", UrlAt(q, i)>>
    <2>1. Past(q, i)
      BY <1>1 DEF Past
    <2> HIDE DEF i
    <2> QED
      BY <1>1, <1>7, <2>1 DEF EvaluatedFetched, Fetched
  <1>9. Action(r) = <<"fetch", UrlOf(r)>>
    BY DEF Action, Fetches
  <1> QED
    BY <1>5, <1>6, <1>8, <1>9 DEF Held

LEMMA FindsStep ==
  ASSUME LocalInv, EvaluatedFetched, PreparedMeans, RevalidationFindsCandidates,
         [EvaluationNext]_evaluationVars
  PROVE  RevalidationFindsCandidates'
  <1> SUFFICES ASSUME NEW q \in Run, prepared'[q], ModeOf[q] = "revalidate",
                      stage'[q] = "lookup", way'[q] = "shadow"
               PROVE  cand'[q] # None
    BY DEF RevalidationFindsCandidates
  <1>1. CASE UNCHANGED <<store, file, stage, case, locals, recorded, prepared>>
    BY <1>1 DEF RevalidationFindsCandidates, locals
  <1>2. ASSUME NEW r \in Run, Begin(r) \/ Step(r) \/ Interrupt(r) \/ InterruptWrite(r)
        PROVE  cand'[q] # None
    <2>t. /\ stage \in [Run -> Stage] /\ way \in [Run -> {"shadow", "conditional"}]
          /\ cand \in [Run -> Stored \cup {None}] /\ results \subseteq Stored
      BY DEF LocalInv, EvaluationTypeOK
    <2>1. CASE q # r
      BY <1>2, <2>1, OtherRuns DEF RevalidationFindsCandidates
    <2>2. CASE q = r
      <3> USE <2>2, <2>t DEF Proceed
      <3>1. ~(Begin(r) \/ NextCase(r) \/ Record(r) \/ Publish(r))
        BY DEF Begin, NextCase, Record, Publish
      <3>2. ~(ConditionalGet(r) \/ Execute(r) \/ Save(r))
        BY DEF ConditionalGet, Execute, Save
      <3>3. ~(Report(r) \/ Interrupt(r) \/ InterruptWrite(r))
        BY DEF Report, Interrupt, InterruptWrite, Exit
      <3>4. Lookup(r)
        BY <1>2, <3>1, <3>2, <3>3 DEF Step
      <3>5. stage[r] = "lookup" /\ prepared[r] /\ Select(r, Revalidatable(r))
        BY <3>4 DEF Lookup
      <3>6. Held(r) # {}
        BY <3>5, Holds
      <3>7. PICK c \in Newest(Held(r)) : cand' = [cand EXCEPT ![r] = c]
        BY <3>5, <3>6 DEF Select, Revalidatable
      <3>8. c \in Stored /\ None \notin Stored
        BY <3>7, NoneAssumption DEF Newest, Held
      <3> QED
        BY <3>7, <3>8
    <2> QED
      BY <2>1, <2>2
  <1> QED
    BY <1>1, <1>2, WhoActs

\* candidate_for_revalidation ignores freshness, and what run_shadow published
\* stays: after an evaluation has returned its report every operation of a
\* revalidation finds a candidate, whatever the time and the sources.
THEOREM RevalidationAfterEvaluation == EvaluationSpec => []RevalidationFindsCandidates
  <1>1. EvaluationInit => RevalidationFindsCandidates
    BY DEF EvaluationInit, RevalidationFindsCandidates
  <1>2. LocalInv /\ EvaluatedFetched /\ PreparedMeans /\ RevalidationFindsCandidates
          /\ [EvaluationNext]_evaluationVars => RevalidationFindsCandidates'
    BY FindsStep
  <1> QED
    BY <1>1, <1>2, LocalAlways, EvaluatedAlways, PTL DEF EvaluationSpec
=============================================================================
