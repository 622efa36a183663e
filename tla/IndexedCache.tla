---------------------------- MODULE IndexedCache ----------------------------
(***************************************************************************)
(* Mutable keys over immutable objects: the active-key index               *)
(* (integrations/index.py, JSON file or SQLite) and the                    *)
(* IndexedRuntimeCacheAdapter of each process that shares it.              *)
(*                                                                         *)
(* A put chooses the next generation and a fresh publication id, publishes *)
(* the value under (key, generation, publication id) and then replaces the *)
(* index, all inside the index lock; a reader takes the active revision    *)
(* from the index and looks the object up afterwards, outside the lock.    *)
(* A client is one adapter in one process (its RLock serialises the        *)
(* threads of that process).                                               *)
(***************************************************************************)
EXTENDS Integers, FiniteSets

CONSTANTS
  Client, NoClient,
  Key,
  Namespace,
  NsOf,          \* the namespace of each native key
  Val, NoVal,
  NoPub,         \* publication_id None
  LockedReads,   \* readers take the index lock (JSON file) or not (SQLite WAL)
  MayDisable,    \* set_enabled may be called while a call of that bridge runs
  MaxCalls       \* bound: adapter and index calls in a behaviour

ASSUME ClientAssumption == NoClient \notin Client
ASSUME NsOfAssumption == NsOf \in [Key -> Namespace]
ASSUME NoValAssumption == NoVal \notin Val
ASSUME NoPubAssumption == NoPub \notin Nat
ASSUME FlagAssumption == LockedReads \in BOOLEAN /\ MayDisable \in BOOLEAN
ASSUME MaxCallsAssumption == MaxCalls \in Nat

VARIABLES
  index,     \* [Key -> Entry]: the committed index
  objects,   \* the published immutable objects
  lock,      \* the client inside the index lock or write transaction
  enabled,   \* [Client -> BOOLEAN]: bridge.enabled
  pc, call,  \* [Client -> ...]: the running call
  snap,      \* [Client -> index as read inside the lock]
  pub,       \* [Client -> publication id of the running put]
  todo,      \* [Client -> keys a get or get_all has still to read]
  rev,       \* [Client -> the active revision it is about to look up, if any]
  answer,    \* [Client -> [Key -> Val \cup {NoVal}]]: values read so far
  nextPub,   \* uuid4().hex: the next identifier, never handed out before
  calls,     \* calls made so far
  seen       \* history: [Client -> [Key -> values current since the call]]

clientVars == <<call, snap, pub, todo, rev, answer>>
vars == <<index, objects, lock, enabled, pc, clientVars, nextPub, calls, seen>>

Mutex == INSTANCE ExclusiveLock WITH
           Owner <- Client, NoOwner <- NoClient, holder <- lock

Pub == Nat
Entry == [gen : Nat, active : BOOLEAN, pub : Pub \cup {NoPub}]
Object == [key : Key, gen : Nat, pub : Pub, val : Val]
Call ==
  [op : {"put"}, keys : SUBSET Key, val : Val]
    \cup [op : {"prepare_put", "activate", "remove", "get"},
          keys : SUBSET Key, val : {NoVal}]
Location == {"idle", "lock", "read", "publish", "commit", "unlock",
             "list", "revision", "lookup", "return"}

Absent == [gen |-> 0, active |-> FALSE, pub |-> NoPub]
NoCall == [op |-> "get", keys |-> {}, val |-> NoVal]
NoAnswer == [k \in Key |-> NoVal]

ImplTypeOK ==
  /\ index \in [Key -> Entry]
  /\ objects \subseteq Object
  /\ Mutex!TypeOK
  /\ enabled \in [Client -> BOOLEAN]
  /\ pc \in [Client -> Location]
  /\ call \in [Client -> Call]
  /\ snap \in [Client -> [Key -> Entry]]
  /\ pub \in [Client -> Pub \cup {NoPub}]
  /\ todo \in [Client -> SUBSET Key]
  /\ rev \in [Client -> SUBSET [key : Key, entry : Entry]]
  /\ answer \in [Client -> [Key -> Val \cup {NoVal}]]
  /\ nextPub \in Nat
  /\ calls \in Nat

TypeOK ==
  /\ ImplTypeOK
  /\ seen \in [Client -> [Key -> SUBSET (Val \cup {NoVal})]]

-----------------------------------------------------------------------------
\* Mutants of the definitions below, each a plausible slip in the code.

\* Removed: delete and clear drop the row, and its generation with it.
RemovedDropsRow(e) == Absent

-----------------------------------------------------------------------------
\* The entry an operation writes in place of entry e.

\* generation += int(active)
NextGen(e) == IF e.active THEN e.gen + 1 ELSE e.gen

Published(e, p) == [gen |-> NextGen(e), active |-> TRUE, pub |-> p]
Prepared(e) == [gen |-> NextGen(e), active |-> FALSE, pub |-> NoPub]
Activated(e) == [gen |-> e.gen, active |-> TRUE, pub |-> e.pub]
Removed(e) ==
  IF e.active THEN [gen |-> e.gen + 1, active |-> FALSE, pub |-> NoPub] ELSE e

Mutated(c, e) ==
  IF call[c].op = "put" THEN Published(e, pub[c])
  ELSE IF call[c].op = "prepare_put" THEN Prepared(e)
  ELSE IF call[c].op = "activate" THEN Activated(e)
  ELSE Removed(e)

\* Mutant of Stored: the identity leaves the revision out.
StoredByKey(k, e) == {o \in objects : o.key = k}

\* The object under the identity _core_key builds from an index entry, and
\* the current value of every key.
Stored(k, e) == {o \in objects : o.key = k /\ o.gen = e.gen /\ o.pub = e.pub}

ValueAt(k, e) ==
  IF e.active /\ Stored(k, e) # {} THEN (CHOOSE o \in Stored(k, e) : TRUE).val
  ELSE NoVal
Current == [k \in Key |-> ValueAt(k, index[k])]

Reading(c) == pc[c] \in {"list", "revision", "lookup", "return"}

-----------------------------------------------------------------------------
Init ==
  /\ index = [k \in Key |-> Absent]
  /\ objects = {}
  /\ Mutex!Init
  /\ enabled = [c \in Client |-> TRUE]
  /\ pc = [c \in Client |-> "idle"]
  /\ call = [c \in Client |-> NoCall]
  /\ snap = [c \in Client |-> [k \in Key |-> Absent]]
  /\ pub = [c \in Client |-> NoPub]
  /\ todo = [c \in Client |-> {}]
  /\ rev = [c \in Client |-> {}]
  /\ answer = [c \in Client |-> NoAnswer]
  /\ nextPub = 0
  /\ calls = 0
  /\ seen = [c \in Client |-> [k \in Key |-> {}]]

Goto(c, to) == pc' = [pc EXCEPT ![c] = to]

-----------------------------------------------------------------------------
\* Mutants of the steps below.

\* Finish: the adapter keeps decoded values for later calls.
FinishKeepsAnswer(c) ==
  /\ Goto(c, "idle")
  /\ call' = [call EXCEPT ![c] = NoCall]
  /\ snap' = [snap EXCEPT ![c] = [k \in Key |-> Absent]]
  /\ pub' = [pub EXCEPT ![c] = NoPub]
  /\ todo' = [todo EXCEPT ![c] = {}]
  /\ rev' = [rev EXCEPT ![c] = {}]
  /\ UNCHANGED answer

\* Read: the publication id is not fresh.
ReadReusesPub(c) ==
  /\ pc[c] = "read"
  /\ snap' = [snap EXCEPT ![c] = index]
  /\ pub' = [pub EXCEPT ![c] = IF call[c].op = "put" THEN nextPub ELSE NoPub]
  /\ Goto(c, IF call[c].op = "put" THEN "publish" ELSE "commit")
  /\ UNCHANGED <<index, objects, lock, enabled, call, todo, rev, answer, nextPub, calls>>

\* Publish: an exception of the publisher is swallowed.
PublishSwallowsError(c) ==
  /\ pc[c] = "publish"
  /\ Goto(c, "commit")
  /\ UNCHANGED <<index, objects, lock, enabled, clientVars, nextPub, calls>>

-----------------------------------------------------------------------------
\* The call is over: its local variables go out of scope.
Finish(c) ==
  /\ Goto(c, "idle")
  /\ call' = [call EXCEPT ![c] = NoCall]
  /\ snap' = [snap EXCEPT ![c] = [k \in Key |-> Absent]]
  /\ pub' = [pub EXCEPT ![c] = NoPub]
  /\ todo' = [todo EXCEPT ![c] = {}]
  /\ rev' = [rev EXCEPT ![c] = {}]
  /\ answer' = [answer EXCEPT ![c] = NoAnswer]

\* A call enters the index at a location; get starts with its one key to read.
Begin(c, op, keys, val, at) ==
  /\ pc[c] = "idle"
  /\ calls < MaxCalls
  /\ calls' = calls + 1
  /\ call' = [call EXCEPT ![c] = [op |-> op, keys |-> keys, val |-> val]]
  /\ todo' = [todo EXCEPT ![c] = IF at = "revision" THEN keys ELSE {}]
  /\ Goto(c, at)
  /\ UNCHANGED <<index, objects, lock, enabled, snap, pub, rev, answer, nextPub>>

KeysOf(n) == {k \in Key : NsOf[k] = n}

\* A disabled adapter and a TTL <= 0 return before any of this.
Put(c) ==
  /\ enabled[c]
  /\ \E k \in Key, v \in Val : Begin(c, "put", {k}, v, "lock")

PreparePut(c) == \E k \in Key : Begin(c, "prepare_put", {k}, NoVal, "lock")
Activate(c) == \E k \in Key : Begin(c, "activate", {k}, NoVal, "lock")
Delete(c) == \E k \in Key : Begin(c, "remove", {k}, NoVal, "lock")
ClearNamespace(c) ==
  \E n \in Namespace : Begin(c, "remove", KeysOf(n), NoVal, "lock")
ClearAll(c) == Begin(c, "remove", Key, NoVal, "lock")
Get(c) == \E k \in Key : Begin(c, "get", {k}, NoVal, "revision")
GetAll(c) == \E n \in Namespace : Begin(c, "get", KeysOf(n), NoVal, "list")

\* The lock is the index file's ProcessFileLock, or BEGIN IMMEDIATE.
Acquire(c) ==
  /\ pc[c] = "lock"
  /\ Mutex!Acquire(c)
  /\ Goto(c, "read")
  /\ UNCHANGED <<index, objects, enabled, clientVars, nextPub, calls>>

\* CoordinationTimeoutError: the call raises and has changed nothing.
LockTimeout(c) ==
  /\ pc[c] \in {"lock"} \cup (IF LockedReads THEN {"list", "revision"} ELSE {})
  /\ lock # NoClient
  /\ Finish(c)
  /\ UNCHANGED <<index, objects, lock, enabled, nextPub, calls>>

Read(c) ==
  /\ pc[c] = "read"
  /\ snap' = [snap EXCEPT ![c] = index]
  /\ IF call[c].op = "put"
     THEN /\ pub' = [pub EXCEPT ![c] = nextPub]
          /\ nextPub' = nextPub + 1
          /\ Goto(c, "publish")
     ELSE /\ Goto(c, "commit")
          /\ UNCHANGED <<pub, nextPub>>
  /\ UNCHANGED <<index, objects, lock, enabled, call, todo, rev, answer, calls>>

\* The publisher callback is bridge.set, which looks at enabled once more and
\* publishes nothing, without an error, when it has become false.
Publish(c) ==
  /\ pc[c] = "publish"
  /\ objects' =
       IF enabled[c]
       THEN objects \cup
              {[key |-> k, gen |-> NextGen(snap[c][k]), pub |-> pub[c], val |-> call[c].val]
                 : k \in call[c].keys}
       ELSE objects
  /\ Goto(c, "commit")
  /\ UNCHANGED <<index, lock, enabled, clientVars, nextPub, calls>>

\* os.replace of the whole file, or COMMIT: every other key keeps the entry
\* it had when the index was read.
Commit(c) ==
  /\ pc[c] = "commit"
  /\ index' = [k \in Key |->
                 IF k \in call[c].keys THEN Mutated(c, snap[c][k]) ELSE snap[c][k]]
  /\ Goto(c, "unlock")
  /\ UNCHANGED <<objects, lock, enabled, clientVars, nextPub, calls>>

\* The store, the epoch registry or the index file raises inside the lock:
\* the with-statement releases it (SQLite rolls back) and the call raises.
Fail(c) ==
  /\ pc[c] \in {"read", "publish", "commit"}
  /\ Mutex!Release(c)
  /\ Finish(c)
  /\ UNCHANGED <<index, objects, enabled, nextPub, calls>>

Unlock(c) ==
  /\ pc[c] = "unlock"
  /\ Mutex!Release(c)
  /\ Finish(c)
  /\ UNCHANGED <<index, objects, enabled, nextPub, calls>>

\* active_keys(namespace).  A locked read holds the lock for this step only.
CanRead == LockedReads => lock = NoClient

List(c) ==
  /\ pc[c] = "list"
  /\ CanRead
  /\ LET active == {k \in call[c].keys : index[k].active}
     IN /\ todo' = [todo EXCEPT ![c] = active]
        /\ Goto(c, IF active = {} THEN "return" ELSE "revision")
  /\ UNCHANGED <<index, objects, lock, enabled, call, snap, pub, rev, answer,
                 nextPub, calls>>

\* get: active_revision, and then, outside the lock, the lookup.
ReadRevision(c) ==
  /\ pc[c] = "revision"
  /\ CanRead
  /\ \E k \in todo[c] :
       /\ todo' = [todo EXCEPT ![c] = @ \ {k}]
       /\ IF index[k].active
          THEN /\ rev' = [rev EXCEPT ![c] = {[key |-> k, entry |-> index[k]]}]
               /\ Goto(c, "lookup")
          ELSE /\ Goto(c, IF todo[c] = {k} THEN "return" ELSE "revision")
               /\ UNCHANGED rev
  /\ UNCHANGED <<index, objects, lock, enabled, call, snap, pub, answer,
                 nextPub, calls>>

\* bridge.get and decode: the object's value, or nothing (disabled, expired or
\* invalidated object, StoreReadError, undecodable value).
Lookup(c) ==
  /\ pc[c] = "lookup"
  /\ \E r \in rev[c] :
       \/ /\ enabled[c]
          /\ answer' = [answer EXCEPT ![c] = [@ EXCEPT ![r.key] = ValueAt(r.key, r.entry)]]
       \/ UNCHANGED answer
  /\ rev' = [rev EXCEPT ![c] = {}]
  /\ Goto(c, IF todo[c] = {} THEN "return" ELSE "revision")
  /\ UNCHANGED <<index, objects, lock, enabled, call, snap, pub, todo,
                 nextPub, calls>>

Return(c) ==
  /\ pc[c] = "return"
  /\ Finish(c)
  /\ UNCHANGED <<index, objects, lock, enabled, nextPub, calls>>

SetEnabled(c) ==
  /\ MayDisable \/ pc[c] = "idle"
  /\ enabled' = [enabled EXCEPT ![c] = ~@]
  /\ UNCHANGED <<index, objects, lock, pc, clientVars, nextPub, calls>>

\* A process is killed inside a call; the system drops its lock, SQLite rolls
\* its transaction back.  Its successor starts with an enabled bridge.
Crash(c) ==
  /\ pc[c] # "idle"
  /\ lock' = IF lock = c THEN NoClient ELSE lock
  /\ enabled' = [enabled EXCEPT ![c] = TRUE]
  /\ Finish(c)
  /\ UNCHANGED <<index, objects, nextPub, calls>>

Step(c) ==
  \/ Put(c) \/ PreparePut(c) \/ Activate(c) \/ Delete(c)
  \/ ClearNamespace(c) \/ ClearAll(c) \/ Get(c) \/ GetAll(c)
  \/ Acquire(c) \/ LockTimeout(c) \/ Read(c) \/ Publish(c) \/ Commit(c)
  \/ Fail(c) \/ Unlock(c) \/ List(c) \/ ReadRevision(c) \/ Lookup(c)
  \/ Return(c) \/ SetEnabled(c) \/ Crash(c)

\* History: what each running read could have seen at some instant of its call.
Observe ==
  seen' = [c \in Client |-> [k \in Key |->
             IF Reading(c)' THEN seen[c][k] \cup {Current[k], Current'[k]}
             ELSE {}]]

\* Nobody calls any more.
Terminated ==
  /\ calls = MaxCalls
  /\ \A c \in Client : pc[c] = "idle"
  /\ UNCHANGED <<index, objects, lock, enabled, pc, clientVars, nextPub, calls>>

Move == (\E c \in Client : Step(c)) \/ Terminated

Next == Move /\ Observe

Spec == Init /\ [][Next]_vars

-----------------------------------------------------------------------------
\* From reading the index to replacing it, the client that does so is alone
\* in the lock and its copy is still the committed index: a replacement never
\* writes back what another process has changed in between.
SnapshotCurrent ==
  \A c \in Client :
    pc[c] \in {"publish", "commit"} => lock = c /\ snap[c] = index

\* A key's entry only moves forward: it is activated at a generation it was
\* not active at before, or leaves an active generation for the next one.  An
\* older revision never comes back, whatever mix of overwrite, delete, clear,
\* prepare_put, activate and crashed writers runs.
EntryAdvances(e, f) ==
  \/ f = e
  \/ e.active /\ f.gen = e.gen + 1
  \/ ~e.active /\ f.active /\ f.gen = e.gen

RevisionsAdvance == [][\A k \in Key : EntryAdvances(index[k], index'[k])]_vars

\* One identity, one value: an object left behind by a writer that failed or
\* died before replacing the index is never shadowed by, or taken for, the
\* value a later writer publishes at the same generation.
IdentityUnique ==
  \A o1, o2 \in objects :
    o1.key = o2.key /\ o1.gen = o2.gen /\ o1.pub = o2.pub => o1 = o2

\* An active revision with a publication id has its object in the store: a
\* put that published nothing (it failed, died or found the bridge disabled)
\* activates nothing and so hides no earlier value.
ActivatedIsStored ==
  \A k \in Key :
    index[k].active /\ index[k].pub # NoPub =>
      \E o \in objects : o.key = k /\ o.gen = index[k].gen /\ o.pub = index[k].pub

\* A value that get or get_all returns was the current value of its key at
\* some instant between the call and the return, although the index and the
\* object are read in two steps and other processes write in between.
GetReturnsCurrent ==
  \A c \in Client : pc[c] = "return" =>
    \A k \in Key : answer[c][k] # NoVal => answer[c][k] \in seen[c][k]

\* The request of a client as its caller sees it.
Request(c) ==
  CASE pc[c] \in {"lock", "read", "publish", "commit"} ->
         [op |-> IF call[c].op = "prepare_put" THEN "remove" ELSE call[c].op,
          keys |-> call[c].keys, val |-> call[c].val]
    [] pc[c] = "unlock" -> [op |-> "done", keys |-> {}, val |-> NoVal]
    [] OTHER -> [op |-> "idle", keys |-> {}, val |-> NoVal]

KV == INSTANCE MutableKV WITH kv <- Current, req <- [c \in Client |-> Request(c)]

\* The adapter implements the atomic map: a put, delete or clear takes effect
\* in one step, on its own keys only, exactly once or not at all, whoever
\* fails, times out or dies.
ImplementsMutableKV == KV!Spec
=============================================================================
