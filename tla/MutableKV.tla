----------------------------- MODULE MutableKV -----------------------------
(***************************************************************************)
(* What the indexed adapters promise their callers: a mutable key/value    *)
(* map in which every request takes effect at one instant between its call *)
(* and its return, or not at all.  (That a cache may also forget a value   *)
(* is the business of whoever looks the value up.)                         *)
(***************************************************************************)
CONSTANTS Client, Key, Val, NoVal

VARIABLES
  kv,     \* [Key -> Val \cup {NoVal}]: the current value of each key
  req     \* [Client -> the pending request, Done or Idle]

vars == <<kv, req>>

Idle == [op |-> "idle", keys |-> {}, val |-> NoVal]
Done == [op |-> "done", keys |-> {}, val |-> NoVal]

\* put stores val under its one key, remove (delete, clear, prepare_put)
\* empties its keys, activate leaves every value as it is.
Request ==
  [op : {"put"}, keys : {{k} : k \in Key}, val : Val]
    \cup [op : {"remove", "activate"}, keys : SUBSET Key, val : {NoVal}]

Effect(r) ==
  [k \in Key |->
     IF k \in r.keys /\ r.op \in {"put", "remove"} THEN r.val ELSE kv[k]]

Init ==
  /\ kv = [k \in Key |-> NoVal]
  /\ req = [c \in Client |-> Idle]

Invoke(c) ==
  /\ req[c] = Idle
  /\ \E r \in Request : req' = [req EXCEPT ![c] = r]
  /\ UNCHANGED kv

Apply(c) ==
  /\ req[c] \in Request
  /\ kv' = Effect(req[c])
  /\ req' = [req EXCEPT ![c] = Done]

\* A request that failed, timed out or died with its caller has no effect.
Abandon(c) ==
  /\ req[c] \in Request
  /\ req' = [req EXCEPT ![c] = Idle]
  /\ UNCHANGED kv

Return(c) ==
  /\ req[c] = Done
  /\ req' = [req EXCEPT ![c] = Idle]
  /\ UNCHANGED kv

Next ==
  \E c \in Client : Invoke(c) \/ Apply(c) \/ Abandon(c) \/ Return(c)

Spec == Init /\ [][Next]_vars
=============================================================================
