--------------------------- MODULE ExecutionCache ---------------------------
(***************************************************************************)
(* The execution-cache bridge (execution_cache.py) and the adapter on top  *)
(* of it (integrations/base.py): batch get, set, get_or_execute and clear  *)
(* over an immutable store, shared by several processes.                   *)
(*                                                                         *)
(* Nothing is ever deleted.  The action digest of a key contains two clear *)
(* epochs, a bridge-wide one and its namespace's, kept in one file; clear  *)
(* rotates them under the file's lock.  get and set read the epochs of     *)
(* each key under the lock and use them after letting it go.               *)
(***************************************************************************)
EXTENDS Integers, FiniteSets

CONSTANTS
  Client, NoClient,   \* bridges, one per process; the holder of a free lock
  Key, Namespace,
  NsOf,               \* the namespace of each execution key
  Ttl, NoExpiry,      \* positive TTLs a caller passes; fresh_until None
  MaxCalls,           \* bound: calls in a behaviour
  MaxTime             \* bound: last clock reading

ASSUME ClientAssumption == NoClient \notin Client
ASSUME NsOfAssumption == NsOf \in [Key -> Namespace]
ASSUME TtlAssumption == Ttl \subseteq Nat \ {0} /\ NoExpiry \notin Nat
ASSUME BoundAssumption == MaxCalls \in Nat /\ MaxTime \in Nat

VARIABLES
  file,      \* the epoch registry: [global, ns : [Namespace -> Nat]]
  lock,      \* the client inside the registry's ProcessFileLock
  store,     \* the published results
  clock,
  enabled,   \* [Client -> BOOLEAN]: bridge.enabled
  pc, call,  \* [Client -> ...]: the running call
  now,       \* [Client -> the clock reading the call works with]
  todo,      \* [Client -> keys of the batch still to do]
  cur,       \* [Client -> the identity of the key in hand, if any]
  snap,      \* [Client -> the registry as a clear has read it]
  answer,    \* [Client -> the results a get has found]
  calls,     \* calls made so far
  retired,   \* history: identities a committed clear was to make unreachable
  floor      \* history: [Client -> retired when the running call began]

local == <<pc, call, now, todo, cur, snap, answer>>
history == <<retired, floor>>
vars == <<file, lock, store, clock, enabled, local, calls, history>>

Mutex == INSTANCE ExclusiveLock WITH
           Owner <- Client, NoOwner <- NoClient, holder <- lock

Epochs == [global : Nat, ns : [Namespace -> Nat]]
IdentitySet == [key : Key, global : Nat, ns : Nat]
Result == [id : IdentitySet, at : Nat, until : Nat \cup {NoExpiry}]
Op == {"get", "set", "get_or_execute", "clear_all", "clear_namespaces"}
Call == [op : Op, keys : SUBSET Key, nss : SUBSET Namespace,
         ttl : Ttl \cup {NoExpiry}]
Location == {"idle", "epochs", "lookup", "execute", "publish",
             "lock", "read", "write", "unlock", "return"}

NewFile == [global |-> 0, ns |-> [n \in Namespace |-> 0]]
NoCall == [op |-> "get", keys |-> {}, nss |-> {}, ttl |-> NoExpiry]

TypeOK ==
  /\ file \in Epochs
  /\ Mutex!TypeOK
  /\ store \subseteq Result
  /\ clock \in Nat
  /\ enabled \in [Client -> BOOLEAN]
  /\ pc \in [Client -> Location]
  /\ call \in [Client -> Call]
  /\ now \in [Client -> Nat]
  /\ todo \in [Client -> SUBSET Key]
  /\ cur \in [Client -> SUBSET IdentitySet]
  /\ snap \in [Client -> Epochs]
  /\ answer \in [Client -> SUBSET Result]
  /\ calls \in Nat
  /\ retired \subseteq IdentitySet
  /\ floor \in [Client -> SUBSET IdentitySet]

-----------------------------------------------------------------------------
\* The part of the action digest that tells two results of one bridge apart.
Identity(k, f) == [key |-> k, global |-> f.global, ns |-> f.ns[NsOf[k]]]

\* policy: fresh_until >= now, or no expiry, which this bridge permits.
Fresh(r, t) == r.until = NoExpiry \/ r.until >= t

\* The admissible results of an identity, newest produced_at first.
Newest(i, t) ==
  {r \in store : /\ r.id = i /\ Fresh(r, t)
                 /\ \A q \in store : q.id = i /\ Fresh(q, t) => q.at <= r.at}

\* Mutant of Rotated: the namespaces' epochs start over.
RotatedResets(c, f) ==
  IF call[c].op = "clear_all"
  THEN [global |-> f.global + 1, ns |-> f.ns]
  ELSE [global |-> f.global,
        ns |-> [n \in Namespace |-> IF n \in call[c].nss THEN 1 ELSE f.ns[n]]]

\* The registry after the clear of client c.
Rotated(c, f) ==
  IF call[c].op = "clear_all"
  THEN [global |-> f.global + 1, ns |-> f.ns]
  ELSE [global |-> f.global,
        ns |-> [n \in Namespace |->
                  IF n \in call[c].nss THEN f.ns[n] + 1 ELSE f.ns[n]]]

\* The keys that clear covers.
Covered(c) ==
  {k \in Key : call[c].op = "clear_all" \/ NsOf[k] \in call[c].nss}

-----------------------------------------------------------------------------
Init ==
  /\ file = NewFile
  /\ Mutex!Init
  /\ store = {}
  /\ clock = 0
  /\ enabled = [c \in Client |-> TRUE]
  /\ pc = [c \in Client |-> "idle"]
  /\ call = [c \in Client |-> NoCall]
  /\ now = [c \in Client |-> 0]
  /\ todo = [c \in Client |-> {}]
  /\ cur = [c \in Client |-> {}]
  /\ snap = [c \in Client |-> NewFile]
  /\ answer = [c \in Client |-> {}]
  /\ calls = 0
  /\ retired = {}
  /\ floor = [c \in Client |-> {}]

Goto(c, to) == pc' = [pc EXCEPT ![c] = to]

\* The call is over: its local variables go out of scope.
Finish(c) ==
  /\ Goto(c, "idle")
  /\ call' = [call EXCEPT ![c] = NoCall]
  /\ now' = [now EXCEPT ![c] = 0]
  /\ todo' = [todo EXCEPT ![c] = {}]
  /\ cur' = [cur EXCEPT ![c] = {}]
  /\ snap' = [snap EXCEPT ![c] = NewFile]
  /\ answer' = [answer EXCEPT ![c] = {}]
  /\ floor' = [floor EXCEPT ![c] = {}]
  /\ UNCHANGED retired

Begin(c, op, keys, nss, ttl, at) ==
  /\ pc[c] = "idle"
  /\ calls < MaxCalls
  /\ calls' = calls + 1
  /\ call' = [call EXCEPT ![c] = [op |-> op, keys |-> keys, nss |-> nss, ttl |-> ttl]]
  /\ now' = [now EXCEPT ![c] = clock]
  /\ todo' = [todo EXCEPT ![c] = keys]
  /\ floor' = [floor EXCEPT ![c] = retired]
  /\ Goto(c, at)
  /\ UNCHANGED <<file, lock, store, clock, enabled, cur, snap, answer, retired>>

\* get, set and get_or_execute of a bridge that is enabled.  A disabled get
\* returns nothing and a disabled set ignores the write; a TTL <= 0 is skipped.
Get(c) ==
  /\ enabled[c]
  /\ \E ks \in SUBSET Key \ {{}} : Begin(c, "get", ks, {}, NoExpiry, "epochs")
Set(c) ==
  /\ enabled[c]
  /\ \E ks \in SUBSET Key \ {{}}, t \in Ttl \cup {NoExpiry} :
       Begin(c, "set", ks, {}, t, "epochs")
GetOrExecute(c) ==
  \E k \in Key, t \in Ttl \cup {NoExpiry} :
    Begin(c, "get_or_execute", {k}, {}, t,
          IF enabled[c] THEN "epochs" ELSE "execute")

\* clear does not ask whether the bridge is enabled.
ClearAll(c) == Begin(c, "clear_all", {}, {}, NoExpiry, "lock")
ClearNamespaces(c) ==
  \E nss \in SUBSET Namespace \ {{}} :
    Begin(c, "clear_namespaces", {}, nss, NoExpiry, "lock")

\* Mutant of ReadEpochs: the epochs are read once for the whole batch, from a
\* copy the bridge made when it was constructed.
ReadEpochsCached(c) ==
  /\ pc[c] = "epochs"
  /\ lock = NoClient
  /\ \E k \in todo[c] :
       /\ todo' = [todo EXCEPT ![c] = @ \ {k}]
       /\ cur' = [cur EXCEPT ![c] = {Identity(k, NewFile)}]
  /\ Goto(c, IF call[c].op = "set" THEN "publish" ELSE "lookup")
  /\ UNCHANGED <<file, lock, store, clock, enabled, call, now, snap, answer, calls, history>>

\* action_for(key): the lock is held for this step only.
ReadEpochs(c) ==
  /\ pc[c] = "epochs"
  /\ lock = NoClient
  /\ \E k \in todo[c] :
       /\ todo' = [todo EXCEPT ![c] = @ \ {k}]
       /\ cur' = [cur EXCEPT ![c] = {Identity(k, file)}]
  /\ Goto(c, IF call[c].op = "set" THEN "publish" ELSE "lookup")
  /\ UNCHANGED <<file, lock, store, clock, enabled, call, now, snap, answer, calls, history>>

\* reuse, unpack and decode: the newest admissible result, or a miss (nothing
\* admissible, StoreReadError, a malformed envelope, an undecodable value).
Lookup(c) ==
  /\ pc[c] = "lookup"
  /\ \/ \E i \in cur[c] : \E r \in Newest(i, now[c]) :
          answer' = [answer EXCEPT ![c] = @ \cup {r}]
     \/ UNCHANGED answer
  /\ cur' = [cur EXCEPT ![c] = {}]
  /\ Goto(c, IF todo[c] # {} THEN "epochs"
             ELSE IF call[c].op = "get_or_execute" /\ answer'[c] = {} THEN "execute"
             ELSE "return")
  /\ UNCHANGED <<file, lock, store, clock, enabled, call, now, todo, snap, calls, history>>

\* execute() and then set, which reads enabled and the clock itself.
Execute(c) ==
  /\ pc[c] = "execute"
  /\ call' = [call EXCEPT ![c] = [op |-> "set", keys |-> call[c].keys,
                                  nss |-> call[c].nss, ttl |-> call[c].ttl]]
  /\ now' = [now EXCEPT ![c] = clock]
  /\ todo' = [todo EXCEPT ![c] = call[c].keys]
  /\ Goto(c, IF enabled[c] THEN "epochs" ELSE "return")
  /\ UNCHANGED <<file, lock, store, clock, enabled, cur, snap, answer, calls, history>>

\* publish_result under the identity read before, whatever it is by now.
Publish(c) ==
  /\ pc[c] = "publish"
  /\ store' = store \cup
       {[id |-> i, at |-> now[c],
         until |-> IF call[c].ttl = NoExpiry THEN NoExpiry ELSE now[c] + call[c].ttl]
          : i \in cur[c]}
  /\ cur' = [cur EXCEPT ![c] = {}]
  /\ Goto(c, IF todo[c] # {} THEN "epochs" ELSE "return")
  /\ UNCHANGED <<file, lock, clock, enabled, call, now, todo, snap, answer, calls, history>>

\* Mutant of Acquire: the registry is rewritten without its lock.
AcquireUnlocked(c) ==
  /\ pc[c] = "lock"
  /\ Goto(c, "read")
  /\ UNCHANGED <<file, lock, store, clock, enabled, call, now, todo, cur, snap, answer,
                 calls, history>>

\* clear: lock, read, replace the file, unlock.
Acquire(c) ==
  /\ pc[c] = "lock"
  /\ Mutex!Acquire(c)
  /\ Goto(c, "read")
  /\ UNCHANGED <<file, store, clock, enabled, call, now, todo, cur, snap, answer,
                 calls, history>>

Read(c) ==
  /\ pc[c] = "read"
  /\ snap' = [snap EXCEPT ![c] = file]
  /\ Goto(c, "write")
  /\ UNCHANGED <<file, lock, store, clock, enabled, call, now, todo, cur, answer, calls, history>>

Write(c) ==
  /\ pc[c] = "write"
  /\ file' = Rotated(c, snap[c])
  /\ retired' = retired \cup {Identity(k, file) : k \in Covered(c)}
  /\ Goto(c, "unlock")
  /\ UNCHANGED <<lock, store, clock, enabled, call, now, todo, cur, snap, answer, calls, floor>>

Unlock(c) ==
  /\ pc[c] = "unlock"
  /\ Mutex!Release(c)
  /\ Finish(c)
  /\ UNCHANGED <<file, store, clock, enabled, calls>>

Return(c) ==
  /\ pc[c] = "return"
  /\ Finish(c)
  /\ UNCHANGED <<file, lock, store, clock, enabled, calls>>

FreeLock(c) == lock' = IF lock = c THEN NoClient ELSE lock

\* A lock timeout, an unreadable or unwritable registry, a failing store or
\* execute(): the call raises, the with-statement lets the lock go, and what
\* the batch has published so far stays.
Raise(c) ==
  /\ pc[c] \in {"epochs", "execute", "publish", "lock", "read", "write"}
  /\ FreeLock(c)
  /\ Finish(c)
  /\ UNCHANGED <<file, store, clock, enabled, calls>>

\* The process is killed inside a call; its successor starts enabled.
Crash(c) ==
  /\ pc[c] # "idle"
  /\ FreeLock(c)
  /\ enabled' = [enabled EXCEPT ![c] = TRUE]
  /\ Finish(c)
  /\ UNCHANGED <<file, store, clock, calls>>

\* Any thread of the process may switch its bridge off or on during a call.
SetEnabled(c) ==
  /\ calls < MaxCalls
  /\ calls' = calls + 1
  /\ enabled' = [enabled EXCEPT ![c] = ~@]
  /\ UNCHANGED <<file, lock, store, clock, local, history>>

Tick ==
  /\ clock < MaxTime
  /\ clock' = clock + 1
  /\ UNCHANGED <<file, lock, store, enabled, local, calls, history>>

Step(c) ==
  \/ Get(c) \/ Set(c) \/ GetOrExecute(c) \/ ClearAll(c) \/ ClearNamespaces(c)
  \/ ReadEpochs(c) \/ Lookup(c) \/ Execute(c) \/ Publish(c)
  \/ Acquire(c) \/ Read(c) \/ Write(c) \/ Unlock(c)
  \/ Return(c) \/ Raise(c) \/ Crash(c) \/ SetEnabled(c)

\* Nobody calls any more.
Terminated ==
  /\ calls = MaxCalls
  /\ \A c \in Client : pc[c] = "idle"
  /\ UNCHANGED vars

Next == (\E c \in Client : Step(c)) \/ Tick \/ Terminated

Spec == Init /\ [][Next]_vars

-----------------------------------------------------------------------------
\* No rotation is lost and no epoch comes back: an identity that a committed
\* clear was to make unreachable is never the identity of its key again, in
\* whatever order concurrent clears, failures and crashes fall.
NoLostRotation == \A k \in Key : Identity(k, file) \notin retired

\* A get returns nothing that a clear committed before the call made
\* unreachable, although a set may publish under epochs it read long ago; and
\* nothing that had expired when the call began.
ServesLive ==
  \A c \in Client : pc[c] = "return" =>
    \A r \in answer[c] : r.id \notin floor[c] /\ Fresh(r, now[c])

\* A committed clear gives every key it covers a new identity and leaves the
\* identity of every other key alone: what others cleared meanwhile is neither
\* undone nor repeated.  Nothing but a clear changes an identity.
ClearIsExact ==
  [][\A k \in Key :
       Identity(k, file') # Identity(k, file) <=>
         \E c \in Client : pc[c] = "write" /\ pc'[c] = "unlock" /\ k \in Covered(c)]_vars
=============================================================================
