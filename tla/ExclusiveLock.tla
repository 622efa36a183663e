--------------------------- MODULE ExclusiveLock ---------------------------
(***************************************************************************)
(* What a coordination lock promises to the code that uses it: at most one *)
(* owner at a time, and a new owner only after the previous one has let go *)
(* (by leaving its critical section or by dying).  ProcessFileLock is      *)
(* shown to implement this specification; the active-key index and the     *)
(* epoch registry take their locking steps from it.                        *)
(***************************************************************************)
CONSTANTS
  Owner,      \* whatever can hold the lock
  NoOwner     \* the value of holder while nobody does, not an Owner

VARIABLE holder

TypeOK == holder \in Owner \cup {NoOwner}

Init == holder = NoOwner

Acquire(o) ==
  /\ holder = NoOwner
  /\ holder' = o

Release(o) ==
  /\ holder = o
  /\ holder' = NoOwner

Next == \E o \in Owner : Acquire(o) \/ Release(o)

Spec == Init /\ [][Next]_holder
=============================================================================
