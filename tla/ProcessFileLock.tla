-------------------------- MODULE ProcessFileLock --------------------------
(***************************************************************************)
(* coordination.ProcessFileLock: an exclusive advisory lock on one path,   *)
(* shared by the threads of several processes.  A `with ProcessFileLock'   *)
(* statement (a "use") first takes the path's in-process RLock and then    *)
(* polls flock on a handle of its own; both waits share one deadline.      *)
(*                                                                         *)
(* Use <<t, d>> is the with-statement of thread t at nesting depth d: the  *)
(* RLock lets a thread enter again, the second handle's flock does not.    *)
(***************************************************************************)
EXTENDS Integers, FiniteSets

CONSTANTS
  Process,    \* operating-system processes
  Thread,     \* all their threads
  ProcOf,     \* the process of each thread
  MaxDepth,   \* bound: how deep one thread nests with-statements on the path
  MaxKept,    \* bound: how many closes raise in one life of each process
  NoThread,   \* the owner of a free RLock
  NoUse       \* the holder of a free flock

Use == Thread \X (1..MaxDepth)

ASSUME ProcOfAssumption == ProcOf \in [Thread -> Process]
ASSUME MaxDepthAssumption == MaxDepth \in Nat \ {0}
ASSUME MaxKeptAssumption == MaxKept \in [Process -> Nat]
ASSUME NoThreadAssumption == NoThread \notin Thread
ASSUME NoUseAssumption == NoUse \notin Use
ASSUME ThreadFinite == IsFiniteSet(Thread)

VARIABLES
  pc,         \* [Use -> where the with-statement stands]
  rlock,      \* [Process -> [owner, count]]: _THREAD_LOCKS[path] of the process
  acquired,   \* [Use -> BOOLEAN]: _thread_acquired
  handle,     \* [Use -> BOOLEAN]: _handle is an open file
  flock,      \* the use whose open file holds the operating-system lock
  late,       \* [Use -> BOOLEAN]: monotonic() - started >= timeout
  kept        \* [Process -> Nat]: releases of the RLock that were skipped
              \* because close raised before them (history)

vars == <<pc, rlock, acquired, handle, flock, late, kept>>

Waiting == {"thread", "open", "try", "sleep"}
Location == {"idle", "held", "cleanup", "exit"} \cup Waiting

Proc(u) == ProcOf[u[1]]
FreeRLock == [owner |-> NoThread, count |-> 0]

TypeOK ==
  /\ pc \in [Use -> Location]
  /\ rlock \in [Process -> [owner : Thread \cup {NoThread}, count : Nat]]
  /\ acquired \in [Use -> BOOLEAN]
  /\ handle \in [Use -> BOOLEAN]
  /\ flock \in Use \cup {NoUse}
  /\ late \in [Use -> BOOLEAN]
  /\ kept \in [Process -> Nat]

Init ==
  /\ pc = [u \in Use |-> "idle"]
  /\ rlock = [p \in Process |-> FreeRLock]
  /\ acquired = [u \in Use |-> FALSE]
  /\ handle = [u \in Use |-> FALSE]
  /\ flock = NoUse
  /\ late = [u \in Use |-> FALSE]
  /\ kept = [p \in Process |-> 0]

-----------------------------------------------------------------------------
\* The deadline is that of one acquisition: nothing of it is left once the
\* statement no longer waits.
Goto(u, to) ==
  /\ pc' = [pc EXCEPT ![u] = to]
  /\ late' = [late EXCEPT ![u] = late[u] /\ to \in Waiting]

\* A thread reaches depth d only inside the body of depth d - 1, and leaves
\* a body only once every statement inside it is over.
OuterHeld(u) == u[2] > 1 => pc[<<u[1], u[2] - 1>>] = "held"
InnerDone(u) == u[2] < MaxDepth => pc[<<u[1], u[2] + 1>>] = "idle"

-----------------------------------------------------------------------------
\* Mutants: plausible slips in the code below, each a replacement for the
\* definition named in its comment.

\* TryLock: the lock is shared (LOCK_SH) instead of exclusive.
TryLockShared(u) ==
  /\ pc[u] = "try"
  /\ flock' = u
  /\ Goto(u, "held")
  /\ UNCHANGED <<rlock, acquired, handle, kept>>

\* TryFail: the polling loop has no deadline.
TryFailForever(u) ==
  /\ pc[u] = "try"
  /\ Goto(u, "sleep")
  /\ UNCHANGED <<rlock, acquired, handle, flock, kept>>

\* Unlock: an exception of the unlock skips the finally block.
UnlockWithoutFinally(u) ==
  /\ pc[u] = "held"
  /\ InnerDone(u)
  /\ \/ flock' = NoUse /\ Goto(u, "exit")
     \/ flock' = flock /\ Goto(u, "idle")
  /\ UNCHANGED <<rlock, acquired, handle, kept>>

-----------------------------------------------------------------------------
\* RLock.release by the thread that owns it.
ReleaseRLock(p) ==
  rlock' = [rlock EXCEPT ![p] =
              IF rlock[p].count = 1 THEN FreeRLock
              ELSE [owner |-> rlock[p].owner, count |-> rlock[p].count - 1]]

\* Closing the file also drops a flock that is still on it, whether close
\* returns or raises: the system forgets the descriptor in either case.
CloseHandle(u) ==
  /\ handle' = [handle EXCEPT ![u] = FALSE]
  /\ flock' = IF flock = u THEN NoUse ELSE flock

\* Both places that let go close the file before they release the RLock, so
\* an exception of close skips the release: the statement is left with the
\* count of the RLock as it is.  Its lock object, on which _thread_acquired
\* and the closed _handle still stand, goes with the statement (the callers
\* make one for each), so the flags are those of the next one.
LetGo(u) ==
  /\ CloseHandle(u)
  /\ \/ /\ IF acquired[u] THEN ReleaseRLock(Proc(u)) ELSE UNCHANGED rlock
        /\ UNCHANGED kept
     \/ /\ handle[u]
        /\ kept[Proc(u)] < MaxKept[Proc(u)]
        /\ kept' = [kept EXCEPT ![Proc(u)] = kept[Proc(u)] + 1]
        /\ UNCHANGED rlock
  /\ acquired' = [acquired EXCEPT ![u] = FALSE]
  /\ Goto(u, "idle")

Enter(u) ==
  /\ pc[u] = "idle"
  /\ OuterHeld(u)
  /\ Goto(u, "thread")
  /\ UNCHANGED <<rlock, acquired, handle, flock, kept>>

ThreadAcquire(u) ==
  /\ pc[u] = "thread"
  /\ rlock[Proc(u)].owner \in {NoThread, u[1]}
  /\ rlock' = [rlock EXCEPT ![Proc(u)] =
                   [owner |-> u[1], count |-> rlock[Proc(u)].count + 1]]
  /\ acquired' = [acquired EXCEPT ![u] = TRUE]
  /\ Goto(u, "open")
  /\ UNCHANGED <<handle, flock, kept>>

\* RLock.acquire(timeout) returned False: nothing to undo.
ThreadTimeout(u) ==
  /\ pc[u] = "thread"
  /\ late[u]
  /\ rlock[Proc(u)].owner \notin {NoThread, u[1]}
  /\ Goto(u, "idle")
  /\ UNCHANGED <<rlock, acquired, handle, flock, kept>>

Open(u) ==
  /\ pc[u] = "open"
  /\ \/ /\ handle' = [handle EXCEPT ![u] = TRUE]
        /\ Goto(u, "try")
     \/ /\ Goto(u, "cleanup")       \* mkdir or open raised
        /\ UNCHANGED handle
  /\ UNCHANGED <<rlock, acquired, flock, kept>>

TryLock(u) ==
  /\ pc[u] = "try"
  /\ flock = NoUse
  /\ flock' = u
  /\ Goto(u, "held")
  /\ UNCHANGED <<rlock, acquired, handle, kept>>

\* Contention, or any other OSError of seek and flock: the code retries both
\* until the deadline, which it looks at only after a failed attempt.
TryFail(u) ==
  /\ pc[u] = "try"
  /\ Goto(u, IF late[u] THEN "cleanup" ELSE "sleep")
  /\ UNCHANGED <<rlock, acquired, handle, flock, kept>>

Wake(u) ==
  /\ pc[u] = "sleep"
  /\ Goto(u, "try")
  /\ UNCHANGED <<rlock, acquired, handle, flock, kept>>

\* except BaseException: close the handle if there is one, release the RLock,
\* re-raise.
Cleanup(u) == pc[u] = "cleanup" /\ LetGo(u)

\* __exit__, the try part: drop the flock, or raise and leave it in place.
Unlock(u) ==
  /\ pc[u] = "held"
  /\ InnerDone(u)
  /\ flock' \in {NoUse, flock}
  /\ Goto(u, "exit")
  /\ UNCHANGED <<rlock, acquired, handle, kept>>

\* __exit__, the finally part.
ExitFinally(u) == pc[u] = "exit" /\ LetGo(u)

\* The deadline of a running acquisition passes.
Elapse(u) ==
  /\ pc[u] \in Waiting
  /\ ~late[u]
  /\ late' = [late EXCEPT ![u] = TRUE]
  /\ UNCHANGED <<pc, rlock, acquired, handle, flock, kept>>

\* A process dies and is started again: the system closes its files, which
\* drops its flock; its RLocks and threads are gone with its memory.
Crash(p) ==
  /\ pc' = [u \in Use |-> IF Proc(u) = p THEN "idle" ELSE pc[u]]
  /\ rlock' = [rlock EXCEPT ![p] = FreeRLock]
  /\ acquired' = [u \in Use |-> Proc(u) # p /\ acquired[u]]
  /\ handle' = [u \in Use |-> Proc(u) # p /\ handle[u]]
  /\ flock' = IF flock # NoUse /\ Proc(flock) = p THEN NoUse ELSE flock
  /\ late' = [u \in Use |-> Proc(u) # p /\ late[u]]
  /\ kept' = [kept EXCEPT ![p] = 0]

\* What the thread does by itself once it has entered the statement.
Advance(u) ==
  \/ ThreadAcquire(u) \/ ThreadTimeout(u) \/ Open(u)
  \/ TryLock(u) \/ TryFail(u) \/ Wake(u) \/ Cleanup(u)
  \/ Unlock(u) \/ ExitFinally(u)

Next ==
  \/ \E u \in Use : Enter(u) \/ Advance(u) \/ Elapse(u)
  \/ \E p \in Process : Crash(p)

Spec == Init /\ [][Next]_vars

\* Threads are scheduled and the monotonic clock advances; a body ends after
\* finitely many nested statements (SF on Unlock: the bodies in the code are
\* straight-line reads and writes of one file).  Nobody is obliged to enter,
\* and crashes need not happen.
Fairness ==
  \A u \in Use : WF_vars(Advance(u)) /\ WF_vars(Elapse(u)) /\ SF_vars(Unlock(u))

FairSpec == Spec /\ Fairness

-----------------------------------------------------------------------------
\* The body of the with-statement runs in at most one place at a time, over
\* all threads of all processes and through timeouts, errors and crashes.
MutualExclusion ==
  \A u, v \in Use : pc[u] = "held" /\ pc[v] = "held" => u = v

\* The RLock of a process counts exactly the statements that acquired it and
\* are not over, plus the releases that a raising close skipped, all of them
\* of the thread that owns it: no path of __enter__ or __exit__ releases it
\* twice, and none but the exception of close leaves it held.
HoldersIn(p) == {u \in Use : Proc(u) = p /\ acquired[u]}

ThreadLockBalanced ==
  \A p \in Process :
    /\ rlock[p].count = Cardinality(HoldersIn(p)) + kept[p]
    /\ rlock[p].owner = NoThread <=> HoldersIn(p) = {} /\ kept[p] = 0
    /\ \A u \in HoldersIn(p) : rlock[p].owner = u[1]

\* What may be left behind, and what never is.  While no statement of a
\* process is past its acquire, its RLock is free exactly if no close has
\* raised there: a timeout, a failing mkdir, open, seek or unlock each give
\* it back.  The flock is never left behind, not even by a raising close, and
\* whoever has it got it under the RLock of its own process.
NothingLeaked ==
  /\ \A p \in Process :
       (\A u \in Use : Proc(u) = p => pc[u] \in {"idle", "thread"})
         => (rlock[p] = FreeRLock <=> kept[p] = 0)
  /\ flock # NoUse => /\ pc[flock] \in {"held", "exit"}
                      /\ handle[flock]
                      /\ rlock[Proc(flock)].owner = flock[1]

\* Every attempt to enter ends, inside the body or with an exception, even
\* when the holder never lets go (the nested statement of the same thread).
AttemptResolves ==
  \A u \in Use : pc[u] \in Waiting ~> pc[u] \in {"held", "idle"}

\* A holder leaves, and the lock becomes free again: the wait of a nested
\* statement for its own thread's lock does not keep the outer one in.
LockComesFree == []<>(flock = NoUse)

\* The statement as a whole is an exclusive lock.
Inside == {u \in Use : pc[u] = "held"}
Lock == INSTANCE ExclusiveLock WITH
          Owner <- Use, NoOwner <- NoUse,
          holder <- IF Inside = {} THEN NoUse ELSE CHOOSE u \in Inside : TRUE

\* Entering and leaving the body are the acquire and release steps of
\* ExclusiveLock; a crash inside the body is a release.
ImplementsExclusiveLock == Lock!Spec

=============================================================================
