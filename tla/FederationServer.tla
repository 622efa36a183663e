-------------------------- MODULE FederationServer --------------------------
(***************************************************************************)
(* The federation origin's HTTP server (federation_http.py): a thread per  *)
(* connection takes a request slot without waiting, authenticates the      *)
(* signed request against a bounded table of remembered nonces, asks the   *)
(* per-peer sliding-window rate limiter, and answers from the catalog.     *)
(*                                                                         *)
(* Both the authenticator and the limiter read the clock BEFORE they take  *)
(* their lock, so threads reach the tables with readings that are out of   *)
(* order and arbitrarily old.  The network delivers each signed request    *)
(* any number of times and in any order.                                   *)
(***************************************************************************)
EXTENDS Integers, Sequences, FiniteSets

CONSTANTS
  Handler,             \* the threads that may hold a slot, one per slot
  Request, Peer, Nonce, None,
  PeerOf, NonceOf, SignedAt,   \* what the signed headers of a request say
  Authentic,           \* well-formed requests whose signature verifies
  MaxAge, MaxSkew,     \* max_age_seconds, max_future_clock_skew_seconds
  MaxNonces,           \* max_remembered_nonces
  MaxRequests, Window, \* the rate limiter's max_requests, window_seconds
  MaxTime              \* bound: last clock reading

Key == Peer \X Nonce
KeyOf(r) == <<PeerOf[r], NonceOf[r]>>

ASSUME RequestAssumption ==
  /\ PeerOf \in [Request -> Peer] /\ NonceOf \in [Request -> Nonce]
  /\ SignedAt \in [Request -> Nat]
  /\ Authentic \subseteq Request /\ None \notin Request \cup Peer
(* what the constructors check; the upper ends of their ranges do not matter *)
AuthenticatorConfig ==
  MaxAge \in Nat \ {0} /\ MaxSkew \in Nat /\ MaxNonces \in Nat \ {0}
LimiterConfig == MaxRequests \in Nat \ {0} /\ Window \in Nat \ {0}
ASSUME LimitAssumption == AuthenticatorConfig /\ LimiterConfig /\ MaxTime \in Nat
ASSUME HandlerAssumption == IsFiniteSet(Handler) /\ Handler # {}
ASSUME KeyAssumption == IsFiniteSet(Peer) /\ IsFiniteSet(Nonce)

VARIABLES
  clock,
  slots,    \* the value of request_slots
  nonces,   \* [Key -> when the remembered nonce expires], 0: not remembered
  stamps,   \* [Peer -> every appended reading], in the order of appending
  popped,   \* [Peer -> how many of them the deque has dropped in front]
  pc, req, requester, obs,  \* [Handler -> ...]: where a thread is, what it
                            \* got, whom it authenticated, its clock reading
  accepted, \* history: [Key -> readings with which it was remembered]
  allowedAt \* history: [Peer -> when each reading was appended]

tables == <<nonces, stamps, popped, accepted, allowedAt>>
vars == <<clock, slots, nonces, stamps, popped, pc, req, requester, obs,
          accepted, allowedAt>>
locals == <<req, requester, obs>>

Steps == {"idle", "auth", "remember", "rate", "allow", "serve", "reply"}

TypeOK ==
  /\ clock \in 0 .. MaxTime /\ slots \in 0 .. Cardinality(Handler)
  /\ nonces \in [Key -> Nat] /\ accepted \in [Key -> SUBSET Nat]
  /\ stamps \in [Peer -> Seq(Nat)] /\ allowedAt \in [Peer -> Seq(Nat)]
  /\ popped \in [Peer -> Nat]
  /\ pc \in [Handler -> Steps] /\ obs \in [Handler -> Nat]
  /\ req \in [Handler -> Request \cup {None}]
  /\ requester \in [Handler -> Peer \cup {None}]

Init ==
  /\ clock = 0 /\ slots = Cardinality(Handler)
  /\ nonces = [k \in Key |-> 0] /\ accepted = [k \in Key |-> {}]
  /\ stamps = [p \in Peer |-> <<>>] /\ allowedAt = [p \in Peer |-> <<>>]
  /\ popped = [p \in Peer |-> 0]
  /\ pc = [h \in Handler |-> "idle"]
  /\ req = [h \in Handler |-> None] /\ requester = [h \in Handler |-> None]
  /\ obs = [h \in Handler |-> 0]

(* where a thread goes next, and the locals it still uses there *)
Goto(h, step, r, p, t) ==
  /\ pc' = [pc EXCEPT ![h] = step]
  /\ req' = [req EXCEPT ![h] = r]
  /\ requester' = [requester EXCEPT ![h] = p]
  /\ obs' = [obs EXCEPT ![h] = t]
Reply(h) == Goto(h, "reply", None, None, 0)

(* request_slots.acquire(blocking=False) *)
Connect(h, r) ==
  /\ pc[h] = "idle" /\ slots > 0 /\ slots' = slots - 1
  /\ Goto(h, "auth", r, None, 0)
  /\ UNCHANGED <<clock, tables>>

(* 503: no slot was taken, none is given back *)
Busy == slots = 0 /\ UNCHANGED vars

(* a configured requester, well-formed headers and the signature over them *)
Verifies(r) == r \in Authentic
Fresh(r, now) == SignedAt[r] >= now - MaxAge /\ SignedAt[r] <= now + MaxSkew

\* Mutant: the 401 returns before the try whose finally clause releases.
AuthenticateKeepsSlot(h) ==
  /\ pc[h] = "auth"
  /\ IF Verifies(req[h]) /\ Fresh(req[h], clock)
     THEN Goto(h, "remember", req[h], None, clock)
     ELSE Goto(h, "idle", None, None, 0)
  /\ UNCHANGED <<clock, slots, tables>>

(* authenticate_peer up to its lock: the signature, then the clock; or 401 *)
Authenticate(h) ==
  /\ pc[h] = "auth"
  /\ \/ /\ Verifies(req[h]) /\ Fresh(req[h], clock)
        /\ Goto(h, "remember", req[h], None, clock)
     \/ /\ ~(Verifies(req[h]) /\ Fresh(req[h], clock))
        /\ Reply(h)
  /\ UNCHANGED <<clock, slots, tables>>

(* the table without what had expired at the thread's own reading *)
Live(h) == [k \in Key |-> IF nonces[k] > obs[h] THEN nonces[k] ELSE 0]
Remembered(table) == {k \in Key : table[k] > 0}

\* Mutant: a nonce is kept for max_age from the signature, not the reading.
RememberFromSignature(h) ==
  LET k == KeyOf(req[h])  live == Live(h) IN
  /\ pc[h] = "remember"
  /\ IF k \in Remembered(live) \/ Cardinality(Remembered(live)) >= MaxNonces
     THEN nonces' = live /\ Reply(h) /\ UNCHANGED accepted
     ELSE /\ nonces' = [live EXCEPT ![k] = SignedAt[req[h]] + MaxAge]
          /\ accepted' = [accepted EXCEPT ![k] = @ \cup {obs[h]}]
          /\ Goto(h, "rate", None, PeerOf[req[h]], 0)
  /\ UNCHANGED <<clock, slots, stamps, popped, allowedAt>>

(* under the authenticator's lock; a refusal (401) keeps the purged table *)
Remember(h) ==
  LET k == KeyOf(req[h])  live == Live(h) IN
  /\ pc[h] = "remember"
  /\ \/ /\ k \in Remembered(live) \/ Cardinality(Remembered(live)) >= MaxNonces
        /\ nonces' = live /\ Reply(h) /\ UNCHANGED accepted
     \/ /\ k \notin Remembered(live) /\ Cardinality(Remembered(live)) < MaxNonces
        /\ nonces' = [live EXCEPT ![k] = obs[h] + MaxAge]
        /\ accepted' = [accepted EXCEPT ![k] = @ \cup {obs[h]}]
        /\ Goto(h, "rate", None, PeerOf[req[h]], 0)
  /\ UNCHANGED <<clock, slots, stamps, popped, allowedAt>>

(* allow() reads the clock before it takes the limiter's lock *)
ReadRate(h) ==
  /\ pc[h] = "rate" /\ Goto(h, "allow", None, requester[h], clock)
  /\ UNCHANGED <<clock, slots, tables>>

\* Mutant: a reading exactly at the boundary is kept.
PopsToStrictly(p, boundary, n) ==
  /\ \A i \in popped[p] + 1 .. n : stamps[p][i] < boundary
  /\ n < Len(stamps[p]) => stamps[p][n + 1] >= boundary
\* Mutant: expired readings are removed from anywhere, live ones with them.
PopsToLast(p, boundary, n) ==
  n = IF \E i \in popped[p] + 1 .. Len(stamps[p]) : stamps[p][i] <= boundary
      THEN CHOOSE i \in popped[p] + 1 .. Len(stamps[p]) :
             /\ stamps[p][i] <= boundary
             /\ \A j \in i + 1 .. Len(stamps[p]) : stamps[p][j] > boundary
      ELSE popped[p]

(* popleft while the front is not after the boundary: n readings are gone *)
PopsTo(p, boundary, n) ==
  /\ \A i \in popped[p] + 1 .. n : stamps[p][i] <= boundary
  /\ n < Len(stamps[p]) => stamps[p][n + 1] > boundary

(* under the limiter's lock; a refusal is answered with 429 *)
Allow(h) ==
  LET p == requester[h] IN
  /\ pc[h] = "allow"
  /\ \E n \in popped[p] .. Len(stamps[p]) :
       /\ PopsTo(p, obs[h] - Window, n)
       /\ popped' = [popped EXCEPT ![p] = n]
       /\ \/ /\ Len(stamps[p]) - n >= MaxRequests
             /\ Reply(h) /\ UNCHANGED <<stamps, allowedAt>>
          \/ /\ Len(stamps[p]) - n < MaxRequests
             /\ stamps' = [stamps EXCEPT ![p] = Append(@, obs[h])]
             /\ allowedAt' = [allowedAt EXCEPT ![p] = Append(@, clock)]
             /\ Goto(h, "serve", None, None, 0)
  /\ UNCHANGED <<clock, slots, nonces, accepted>>

(* the catalog's document, 413 or 404, or a connection that breaks *)
Serve(h) ==
  /\ pc[h] = "serve" /\ Reply(h) /\ UNCHANGED <<clock, slots, tables>>

(* the finally clause of do_GET *)
Release(h) ==
  /\ pc[h] = "reply" /\ Goto(h, "idle", None, None, 0) /\ slots' = slots + 1
  /\ UNCHANGED <<clock, tables>>

Tick ==
  /\ clock < MaxTime /\ clock' = clock + 1
  /\ UNCHANGED <<slots, pc, locals, tables>>

Handle(h) ==
  \/ Authenticate(h) \/ Remember(h) \/ ReadRate(h) \/ Allow(h) \/ Serve(h)
  \/ Release(h)

Next ==
  \/ Busy \/ Tick
  \/ \E h \in Handler : (\E r \in Request : Connect(h, r)) \/ Handle(h)

Spec == Init /\ [][Next]_vars
(* A thread that answers keeps running; clients read their answer or close. *)
FairSpec == Spec /\ \A h \in Handler : WF_vars(Handle(h))
----------------------------------------------------------------------------
(* What the nonce table does guarantee: two acceptances of a nonce are a    *)
(* whole max_age of real time apart, however late other threads reach the   *)
(* table with their own readings (authenticate_peer's purge and insertion). *)
(* A request signed ahead of the origin's clock is fresh for longer.        *)
NonceRemembered ==
  [][\A k \in Key : accepted'[k] # accepted[k]
       => \A t \in accepted[k] : clock >= t + MaxAge]_vars

(* "It accepts a nonce at most once inside the authentication window"       *)
(* (spec/federation-http-transport-v0.md): no two readings at which a       *)
(* signed request is fresh are readings with which its nonce was accepted.  *)
NonceOnceInWindow ==
  \A r \in Authentic :
    Cardinality({t \in accepted[KeyOf(r)] : Fresh(r, t)}) <= 1

(* At every moment at most max_requests of a peer's allowed requests carry  *)
(* a reading of the last window_seconds, although threads append their      *)
(* readings out of order (FederationRequestRateLimiter.allow).              *)
WindowBound ==
  \A p \in Peer :
    Cardinality({i \in DOMAIN stamps[p] : stamps[p][i] > clock - Window})
      <= MaxRequests

Recent(k, h) == \E t \in accepted[k] : t > obs[h] - MaxAge
(* A request that got past the signature is turned away only for cause:     *)
(* 401 at the table when its nonce, or max_remembered_nonces nonces, were   *)
(* accepted with readings of the last max_age; 429 when max_requests of     *)
(* ITS peer really were allowed within window_seconds of its reading, even  *)
(* when expired readings are stuck behind a later one in the deque.         *)
RefusalJustified ==
  [][\A h \in Handler : pc'[h] = "reply" =>
       /\ pc[h] = "remember" =>
            \/ Recent(KeyOf(req[h]), h)
            \/ Cardinality({k \in Key : Recent(k, h)}) >= MaxNonces
       /\ pc[h] = "allow" =>
            Cardinality({i \in DOMAIN allowedAt[requester[h]] :
              allowedAt[requester[h]][i] > obs[h] - Window}) >= MaxRequests]_vars

(* A server whose slots are all taken gives one back: none of the early     *)
(* returns and exceptions of do_GET keeps its slot.                         *)
SlotFrees == slots = 0 ~> slots > 0
=============================================================================
