----------------------- MODULE FederationServerProofs -----------------------
(***************************************************************************)
(* Theorems about FederationServer for any number of threads, peers,       *)
(* nonces and requests and any limits.                                     *)
(***************************************************************************)
EXTENDS FederationServer, FiniteSetTheorems, TLAPS

(* These only name the parts of an assumption. *)
USE DEF AuthenticatorConfig, LimiterConfig

-----------------------------------------------------------------------------
(* The inductive invariant. *)

Types ==
  /\ clock \in 0 .. MaxTime /\ slots \in Int
  /\ nonces \in [Key -> Nat] /\ accepted \in [Key -> SUBSET Nat]
  /\ stamps \in [Peer -> Seq(Nat)] /\ allowedAt \in [Peer -> Seq(Nat)]
  /\ popped \in [Peer -> Nat]
  /\ pc \in [Handler -> Steps] /\ obs \in [Handler -> Nat]
  /\ req \in [Handler -> Request \cup {None}]
  /\ requester \in [Handler -> Peer \cup {None}]

(* A thread holds what its next step uses, and no reading from the future. *)
Located ==
  \A h \in Handler :
    /\ obs[h] <= clock
    /\ pc[h] \in {"auth", "remember"} => req[h] \in Request
    /\ pc[h] \in {"rate", "allow"} => requester[h] \in Peer

Served == {h \in Handler : pc[h] # "idle"}
SlotsCounted == slots + Cardinality(Served) = Cardinality(Handler)

(* The table entry of a nonce comes from an acceptance, and an acceptance   *)
(* that the entry does not cover any more is max_age old.                   *)
NoncesKept ==
  \A k \in Key :
    /\ nonces[k] > 0 => nonces[k] - MaxAge \in accepted[k]
    /\ \A t \in accepted[k] : nonces[k] >= t + MaxAge \/ clock >= t + MaxAge

(* What the deque has dropped is out of the window, what it holds is within *)
(* the limit, and the times of appending are in order; readings need not be. *)
DequeKept(p) ==
  /\ popped[p] <= Len(stamps[p]) /\ Len(stamps[p]) - popped[p] <= MaxRequests
  /\ Len(allowedAt[p]) = Len(stamps[p])
  /\ \A i \in 1 .. popped[p] : stamps[p][i] <= clock - Window
  /\ \A i \in 1 .. Len(stamps[p]) :
       stamps[p][i] <= allowedAt[p][i] /\ allowedAt[p][i] <= clock
  /\ \A i, j \in 1 .. Len(stamps[p]) : i <= j => allowedAt[p][i] <= allowedAt[p][j]
DequesKept == \A p \in Peer : DequeKept(p)

Inv == Types /\ Located /\ SlotsCounted /\ NoncesKept /\ DequesKept

-----------------------------------------------------------------------------
LEMMA KeyFinite == IsFiniteSet(Key)
  BY KeyAssumption, FS_Product DEF Key

LEMMA KeyOfType == \A r \in Request : KeyOf(r) \in Key /\ PeerOf[r] \in Peer
  BY RequestAssumption DEF KeyOf, Key

LEMMA GotoTypes ==
  ASSUME Types, NEW h \in Handler, NEW step \in Steps, NEW r \in Request \cup {None},
         NEW p \in Peer \cup {None}, NEW t \in Nat, Goto(h, step, r, p, t)
  PROVE  /\ pc' \in [Handler -> Steps] /\ obs' \in [Handler -> Nat]
         /\ req' \in [Handler -> Request \cup {None}]
         /\ requester' \in [Handler -> Peer \cup {None}]
  BY DEF Types, Goto

LEMMA GotoLocated ==
  ASSUME Types, Located, NEW h \in Handler, NEW step \in Steps,
         NEW r \in Request \cup {None}, NEW p \in Peer \cup {None}, NEW t \in Nat,
         Goto(h, step, r, p, t), clock' = clock, t <= clock,
         step \in {"auth", "remember"} => r \in Request,
         step \in {"rate", "allow"} => p \in Peer
  PROVE  Located'
  BY DEF Types, Goto, Located

(* Moving between two busy places, or from idle to busy and back. *)
LEMMA ServedSame ==
  ASSUME Types, NEW h \in Handler, NEW step \in Steps, pc[h] # "idle", step # "idle",
         pc' = [pc EXCEPT ![h] = step]
  PROVE  Served' = Served
  BY DEF Types, Served

LEMMA SlotsSame ==
  ASSUME Types, SlotsCounted, NEW h \in Handler, NEW step \in Steps, pc[h] # "idle",
         step # "idle", pc' = [pc EXCEPT ![h] = step], slots' = slots
  PROVE  SlotsCounted'
  BY ServedSame DEF SlotsCounted

LEMMA ServedFinite == IsFiniteSet(Served) /\ Cardinality(Served) \in Nat
                      /\ Cardinality(Served) <= Cardinality(Handler)
                      /\ Cardinality(Handler) \in Nat
  <1>1. Served \in SUBSET Handler
    BY DEF Served
  <1> QED
    BY <1>1, HandlerAssumption, FS_Subset, FS_CardinalityType

LEMMA InvType == Inv => TypeOK
  <1> SUFFICES ASSUME Inv PROVE slots \in 0 .. Cardinality(Handler)
    BY DEF Inv, Types, TypeOK
  <1> QED
    BY ServedFinite DEF Inv, Types, SlotsCounted

LEMMA InvInit == Init => Inv
  <1> SUFFICES ASSUME Init PROVE Inv
    OBVIOUS
  <1>1. Types
    BY LimitAssumption, RequestAssumption, HandlerAssumption, FS_CardinalityType
       DEF Init, Types, Steps
  <1>2. Located
    BY DEF Init, Located
  <1>3. SlotsCounted
    <2>1. Served = {}
      BY DEF Init, Served
    <2> QED
      BY <2>1, FS_EmptySet, HandlerAssumption, FS_CardinalityType DEF Init, SlotsCounted
  <1>4. NoncesKept
    BY DEF Init, NoncesKept
  <1>5. DequesKept
    BY LimitAssumption DEF Init, DequesKept, DequeKept
  <1> QED
    BY <1>1, <1>2, <1>3, <1>4, <1>5 DEF Inv

-----------------------------------------------------------------------------
(* One lemma per action. *)

(* Steps of a busy thread that leave the clock, the slots and the tables.   *)
LEMMA QuietStep ==
  ASSUME Inv, NEW h \in Handler, NEW step \in Steps \ {"idle"},
         NEW r \in Request \cup {None}, NEW p \in Peer \cup {None}, NEW t \in Nat,
         Goto(h, step, r, p, t), pc[h] # "idle", t <= clock,
         step \in {"auth", "remember"} => r \in Request,
         step \in {"rate", "allow"} => p \in Peer,
         UNCHANGED <<clock, slots, tables>>
  PROVE  Inv'
  <1>1. Types'
    BY GotoTypes DEF Inv, Types, tables
  <1>2. Located'
    BY GotoLocated DEF Inv
  <1>3. SlotsCounted'
    BY SlotsSame DEF Inv, Goto
  <1>4. NoncesKept'
    BY DEF Inv, NoncesKept, tables
  <1>5. DequesKept'
    BY DEF Inv, DequesKept, DequeKept, tables
  <1> QED
    BY <1>1, <1>2, <1>3, <1>4, <1>5 DEF Inv

LEMMA ConnectStep ==
  ASSUME Inv, NEW h \in Handler, NEW r \in Request, Connect(h, r)
  PROVE  Inv'
  <1>0. Goto(h, "auth", r, None, 0) /\ "auth" \in Steps /\ 0 \in Nat
    BY DEF Connect, Steps
  <1>1. Types'
    <2>1. Types
      BY DEF Inv
    <2>2. /\ pc' \in [Handler -> Steps] /\ obs' \in [Handler -> Nat]
          /\ req' \in [Handler -> Request \cup {None}]
          /\ requester' \in [Handler -> Peer \cup {None}]
      BY <1>0, <2>1, GotoTypes
    <2> QED
      BY <2>1, <2>2 DEF Types, Connect, tables
  <1>2. Located'
    <2>1. 0 <= clock /\ clock' = clock
      BY DEF Inv, Types, Connect
    <2> QED
      BY <1>0, <2>1, GotoLocated DEF Inv
  <1>3. SlotsCounted'
    <2>1. Served' = Served \cup {h} /\ h \notin Served
      BY <1>0 DEF Inv, Types, Served, Connect, Goto
    <2>2. Cardinality(Served') = Cardinality(Served) + 1
      BY <2>1, ServedFinite, FS_AddElement
    <2> QED
      BY <2>2, ServedFinite DEF Inv, Types, SlotsCounted, Connect
  <1>4. NoncesKept'
    BY DEF Inv, NoncesKept, Connect, tables
  <1>5. DequesKept'
    BY DEF Inv, DequesKept, DequeKept, Connect, tables
  <1> QED
    BY <1>1, <1>2, <1>3, <1>4, <1>5 DEF Inv

LEMMA ReleaseStep ==
  ASSUME Inv, NEW h \in Handler, Release(h)
  PROVE  Inv'
  <1>0. Goto(h, "idle", None, None, 0) /\ "idle" \in Steps /\ 0 \in Nat
    BY DEF Release, Steps
  <1>1. Types'
    <2>1. Types
      BY DEF Inv
    <2>2. /\ pc' \in [Handler -> Steps] /\ obs' \in [Handler -> Nat]
          /\ req' \in [Handler -> Request \cup {None}]
          /\ requester' \in [Handler -> Peer \cup {None}]
      BY <1>0, <2>1, GotoTypes
    <2> QED
      BY <2>1, <2>2 DEF Types, Release, tables
  <1>2. Located'
    <2>1. 0 <= clock /\ clock' = clock
      BY DEF Inv, Types, Release
    <2> QED
      BY <1>0, <2>1, GotoLocated DEF Inv
  <1>3. SlotsCounted'
    <2>1. Served' = Served \ {h} /\ h \in Served
      BY <1>0 DEF Inv, Types, Served, Release, Goto
    <2>2. Cardinality(Served') = Cardinality(Served) - 1
      BY <2>1, ServedFinite, FS_RemoveElement
    <2> QED
      BY <2>2, ServedFinite DEF Inv, Types, SlotsCounted, Release
  <1>4. NoncesKept'
    BY DEF Inv, NoncesKept, Release, tables
  <1>5. DequesKept'
    BY DEF Inv, DequesKept, DequeKept, Release, tables
  <1> QED
    BY <1>1, <1>2, <1>3, <1>4, <1>5 DEF Inv

LEMMA AuthenticateStep ==
  ASSUME Inv, NEW h \in Handler, Authenticate(h)
  PROVE  Inv'
  <1>0. req[h] \in Request /\ clock \in Nat /\ pc[h] = "auth"
    BY LimitAssumption DEF Inv, Types, Located, Authenticate
  <1>1. CASE Goto(h, "remember", req[h], None, clock)
    BY <1>0, <1>1, QuietStep DEF Authenticate, Steps
  <1>2. CASE Reply(h)
    BY <1>0, <1>2, QuietStep DEF Authenticate, Steps, Reply
  <1> QED
    BY <1>1, <1>2 DEF Authenticate

LEMMA ReadRateStep ==
  ASSUME Inv, NEW h \in Handler, ReadRate(h)
  PROVE  Inv'
  <1>0. requester[h] \in Peer /\ clock \in Nat /\ pc[h] = "rate"
    BY LimitAssumption DEF Inv, Types, Located, ReadRate
  <1> QED
    BY <1>0, QuietStep DEF ReadRate, Steps

LEMMA ServeStep ==
  ASSUME Inv, NEW h \in Handler, Serve(h)
  PROVE  Inv'
  <1>0. clock \in Nat /\ pc[h] = "serve"
    BY LimitAssumption DEF Inv, Types, Serve
  <1> QED
    BY <1>0, QuietStep DEF Serve, Steps, Reply

LEMMA TickStep ==
  ASSUME Inv, Tick
  PROVE  Inv'
  <1>0. clock \in Nat /\ clock' = clock + 1 /\ clock' \in 0 .. MaxTime
    BY LimitAssumption DEF Inv, Types, Tick
  <1>1. Types'
    BY <1>0 DEF Inv, Types, Tick, locals, tables
  <1>2. Located'
    BY <1>0 DEF Inv, Types, Located, Tick, locals
  <1>3. SlotsCounted'
    BY DEF Inv, SlotsCounted, Served, Tick
  <1>4. NoncesKept'
    BY <1>0, LimitAssumption DEF Inv, Types, NoncesKept, Tick, tables
  <1>5. DequesKept'
    <2> SUFFICES ASSUME NEW p \in Peer PROVE DequeKept(p)'
      BY DEF DequesKept
    <2>1. DequeKept(p) /\ stamps' = stamps /\ allowedAt' = allowedAt /\ popped' = popped
      BY DEF Inv, DequesKept, Tick, tables
    <2>2. stamps[p] \in Seq(Nat) /\ allowedAt[p] \in Seq(Nat) /\ popped[p] \in Nat
      BY DEF Inv, Types
    <2>3. \A i \in 1 .. popped[p] : stamps[p][i] <= (clock + 1) - Window
      <3> SUFFICES ASSUME NEW i \in 1 .. popped[p] PROVE stamps[p][i] <= (clock + 1) - Window
        OBVIOUS
      <3>1. popped[p] <= Len(stamps[p]) /\ stamps[p][i] <= clock - Window
        BY <2>1 DEF DequeKept
      <3>2. i \in 1 .. Len(stamps[p])
        BY <2>2, <3>1
      <3>3. stamps[p][i] \in Nat
        BY <2>2, <3>2
      <3> QED
        BY <3>1, <3>3, <1>0, LimitAssumption
    <2>4. \A i \in 1 .. Len(stamps[p]) : allowedAt[p][i] <= clock + 1
      <3> SUFFICES ASSUME NEW i \in 1 .. Len(stamps[p]) PROVE allowedAt[p][i] <= clock + 1
        OBVIOUS
      <3>1. Len(allowedAt[p]) = Len(stamps[p]) /\ allowedAt[p][i] <= clock
        BY <2>1 DEF DequeKept
      <3>2. allowedAt[p][i] \in Nat
        BY <2>2, <3>1
      <3> QED
        BY <3>1, <3>2, <1>0
    <2>5. /\ popped[p] <= Len(stamps[p]) /\ Len(stamps[p]) - popped[p] <= MaxRequests
          /\ Len(allowedAt[p]) = Len(stamps[p])
          /\ \A i \in 1 .. Len(stamps[p]) : stamps[p][i] <= allowedAt[p][i]
          /\ \A i, j \in 1 .. Len(stamps[p]) : i <= j => allowedAt[p][i] <= allowedAt[p][j]
      BY <2>1 DEF DequeKept
    <2>6. /\ stamps'[p] = stamps[p] /\ allowedAt'[p] = allowedAt[p] /\ popped'[p] = popped[p]
          /\ clock' = clock + 1
      BY <1>0, <2>1
    <2>7. /\ popped'[p] <= Len(stamps'[p]) /\ Len(stamps'[p]) - popped'[p] <= MaxRequests
          /\ Len(allowedAt'[p]) = Len(stamps'[p])
      BY <2>5, <2>6
    <2>8. ASSUME NEW i \in 1 .. popped'[p] PROVE stamps'[p][i] <= clock' - Window
      <3>1. i \in 1 .. popped[p] /\ stamps'[p][i] = stamps[p][i] /\ clock' = clock + 1
        BY <2>6
      <3>2. stamps[p][i] <= (clock + 1) - Window
        BY <2>3, <3>1, Zenon
      <3> QED
        BY <3>1, <3>2
    <2>9. \A i \in 1 .. Len(stamps'[p]) :
            stamps'[p][i] <= allowedAt'[p][i] /\ allowedAt'[p][i] <= clock'
      BY <2>4, <2>5, <2>6
    <2>10. \A i, j \in 1 .. Len(stamps'[p]) : i <= j => allowedAt'[p][i] <= allowedAt'[p][j]
      BY <2>5, <2>6
    <2> QED
      BY <2>7, <2>8, <2>9, <2>10 DEF DequeKept
  <1> QED
    BY <1>1, <1>2, <1>3, <1>4, <1>5 DEF Inv

LEMMA RememberStep ==
  ASSUME Inv, NEW h \in Handler, Remember(h)
  PROVE  Inv'
  <1> DEFINE k == KeyOf(req[h])
             live == Live(h)
  <1>0. /\ req[h] \in Request /\ clock \in Nat /\ pc[h] = "remember"
        /\ obs[h] \in Nat /\ obs[h] <= clock /\ UNCHANGED <<clock, slots, stamps, popped, allowedAt>>
    BY LimitAssumption DEF Inv, Types, Located, Remember
  <1>1. k \in Key /\ PeerOf[req[h]] \in Peer
    BY <1>0, KeyOfType
  <1>2. /\ live \in [Key -> Nat]
        /\ \A j \in Key :
             \/ live[j] = nonces[j] /\ nonces[j] > obs[h]
             \/ live[j] = 0 /\ nonces[j] <= obs[h]
    <2>1. nonces \in [Key -> Nat]
      BY DEF Inv, Types
    <2>2. live \in [Key -> Nat]
      BY <2>1 DEF Live
    <2>3. ASSUME NEW j \in Key
          PROVE  \/ live[j] = nonces[j] /\ nonces[j] > obs[h]
                 \/ live[j] = 0 /\ nonces[j] <= obs[h]
      <3>1. live[j] = IF nonces[j] > obs[h] THEN nonces[j] ELSE 0
        BY DEF Live
      <3>2. nonces[j] \in Nat
        BY <2>1
      <3> QED
        BY <1>0, <3>1, <3>2
    <2> HIDE DEF live
    <2> QED
      BY <2>2, <2>3
  <1>3. \/ /\ nonces' = live /\ Reply(h) /\ UNCHANGED accepted
        \/ /\ k \notin Remembered(live)
           /\ nonces' = [live EXCEPT ![k] = obs[h] + MaxAge]
           /\ accepted' = [accepted EXCEPT ![k] = @ \cup {obs[h]}]
           /\ Goto(h, "rate", None, PeerOf[req[h]], 0)
    BY DEF Remember
  <1> HIDE DEF k, live
  <1>4. \/ Goto(h, "reply", None, None, 0)
        \/ Goto(h, "rate", None, PeerOf[req[h]], 0)
    BY <1>3 DEF Reply
  <1>5. Types'
    <2>1. Types /\ "reply" \in Steps /\ "rate" \in Steps /\ 0 \in Nat
      BY DEF Inv, Steps
    <2>2. /\ pc' \in [Handler -> Steps] /\ obs' \in [Handler -> Nat]
          /\ req' \in [Handler -> Request \cup {None}]
          /\ requester' \in [Handler -> Peer \cup {None}]
      BY <1>1, <1>4, <2>1, GotoTypes
    <2>3. nonces' \in [Key -> Nat]
      <3>1. obs[h] + MaxAge \in Nat
        BY <1>0, LimitAssumption
      <3> QED
        BY <3>1, <1>2, <1>3
    <2>4. accepted' \in [Key -> SUBSET Nat]
      <3>1. accepted \in [Key -> SUBSET Nat]
        BY <2>1 DEF Types
      <3> QED
        BY <3>1, <1>0, <1>3
    <2> QED
      BY <1>0, <2>1, <2>2, <2>3, <2>4 DEF Types
  <1>6. Located'
    <2>1. Types /\ Located /\ "reply" \in Steps /\ "rate" \in Steps /\ 0 \in Nat /\ 0 <= clock
      BY <1>0 DEF Inv, Steps
    <2> QED
      BY <1>0, <1>1, <1>4, <2>1, GotoLocated
  <1>7. SlotsCounted'
    BY <1>0, <1>4, SlotsSame DEF Inv, Goto, Steps
  <1>8. NoncesKept'
    <2> SUFFICES ASSUME NEW j \in Key
                 PROVE  /\ nonces'[j] > 0 => nonces'[j] - MaxAge \in accepted'[j]
                        /\ \A t \in accepted'[j] :
                             nonces'[j] >= t + MaxAge \/ clock >= t + MaxAge
      BY <1>0 DEF NoncesKept
    <2>1. /\ nonces[j] \in Nat /\ accepted[j] \subseteq Nat
          /\ nonces[j] > 0 => nonces[j] - MaxAge \in accepted[j]
          /\ \A t \in accepted[j] : nonces[j] >= t + MaxAge \/ clock >= t + MaxAge
      BY DEF Inv, Types, NoncesKept
    <2>2. live[j] \in Nat
      BY <1>2
    (* an entry that was purged had expired before the reading *)
    <2>3. ASSUME NEW t \in accepted[j]
          PROVE  live[j] >= t + MaxAge \/ clock >= t + MaxAge
      <3>1. t \in Nat /\ (nonces[j] >= t + MaxAge \/ clock >= t + MaxAge)
        BY <2>1
      <3>2. live[j] = nonces[j] \/ nonces[j] <= obs[h]
        BY <1>2, Zenon
      <3> QED
        BY <1>0, <2>1, <2>2, <3>1, <3>2, LimitAssumption
    <2>4. CASE nonces'[j] = live[j] /\ accepted'[j] = accepted[j]
      <3>1. ASSUME live[j] > 0 PROVE live[j] - MaxAge \in accepted[j]
        <4>1. live[j] = nonces[j] \/ live[j] = 0
          BY <1>2, Zenon
        <4> QED
          BY <3>1, <4>1, <2>1
      <3> QED
        BY <2>3, <2>4, <3>1
    <2>5. CASE /\ nonces'[j] = obs[h] + MaxAge /\ accepted'[j] = accepted[j] \cup {obs[h]}
               /\ live[j] = 0
      <3>1. \A t \in accepted[j] : clock >= t + MaxAge
        BY <2>1, <2>3, <2>5, LimitAssumption
      <3> QED
        BY <1>0, <2>5, <3>1, LimitAssumption
    <2>6. k \notin Remembered(live) => live[k] = 0
      BY <1>1, <1>2 DEF Remembered
    <2> QED
      BY <1>1, <1>2, <1>3, <2>4, <2>5, <2>6 DEF Inv, Types
  <1>9. DequesKept'
    BY <1>0 DEF Inv, DequesKept, DequeKept
  <1> QED
    BY <1>5, <1>6, <1>7, <1>8, <1>9 DEF Inv

(* What an allowed request appends, for one deque. *)
LEMMA AppendDeque ==
  ASSUME NEW s \in Seq(Nat), NEW a \in Seq(Nat), NEW t \in Nat, NEW c \in Nat, t <= c,
         Len(a) = Len(s),
         \A i \in 1 .. Len(s) : s[i] <= a[i] /\ a[i] <= c,
         \A i, j \in 1 .. Len(s) : i <= j => a[i] <= a[j]
  PROVE  /\ Append(s, t) \in Seq(Nat) /\ Append(a, c) \in Seq(Nat)
         /\ Len(Append(s, t)) = Len(s) + 1 /\ Len(Append(a, c)) = Len(s) + 1
         /\ \A i \in 1 .. Len(s) : Append(s, t)[i] = s[i]
         /\ \A i \in 1 .. Len(s) + 1 : Append(s, t)[i] <= Append(a, c)[i] /\ Append(a, c)[i] <= c
         /\ \A i, j \in 1 .. Len(s) + 1 : i <= j => Append(a, c)[i] <= Append(a, c)[j]
  <1> DEFINE s1 == Append(s, t)
             a1 == Append(a, c)
  <1>1. /\ s1 \in Seq(Nat) /\ a1 \in Seq(Nat)
        /\ Len(s1) = Len(s) + 1 /\ Len(a1) = Len(s) + 1
        /\ \A i \in 1 .. Len(s) : s1[i] = s[i] /\ a1[i] = a[i]
        /\ s1[Len(s) + 1] = t /\ a1[Len(s) + 1] = c
    <2>1. s1 \in Seq(Nat) /\ Len(s1) = Len(s) + 1 /\ s1[Len(s) + 1] = t
      OBVIOUS
    <2>2. a1 \in Seq(Nat) /\ Len(a1) = Len(a) + 1 /\ a1[Len(a) + 1] = c
      OBVIOUS
    <2>3. \A i \in 1 .. Len(s) : s1[i] = s[i]
      OBVIOUS
    <2>4. \A i \in 1 .. Len(a) : a1[i] = a[i]
      OBVIOUS
    <2> QED
      BY <2>1, <2>2, <2>3, <2>4
  <1> HIDE DEF s1, a1
  <1>2. ASSUME NEW i \in 1 .. Len(s) + 1
        PROVE  s1[i] <= a1[i] /\ a1[i] <= c
    <2>1. CASE i \in 1 .. Len(s)
      BY <1>1, <2>1
    <2>2. CASE i = Len(s) + 1
      BY <1>1, <2>2
    <2> QED
      BY <2>1, <2>2
  <1>3. ASSUME NEW i \in 1 .. Len(s) + 1, NEW j \in 1 .. Len(s) + 1, i <= j
        PROVE  a1[i] <= a1[j]
    <2>1. CASE j \in 1 .. Len(s)
      <3>1. i \in 1 .. Len(s)
        BY <1>3, <2>1
      <3> QED
        BY <1>1, <1>3, <2>1, <3>1
    <2>2. CASE j = Len(s) + 1
      BY <1>1, <1>2, <2>2
    <2> QED
      BY <2>1, <2>2
  <1> QED
    BY <1>1, <1>2, <1>3 DEF s1, a1

LEMMA ExceptType ==
  ASSUME NEW D, NEW R, NEW f \in [D -> R], NEW x, NEW v \in R
  PROVE  [f EXCEPT ![x] = v] \in [D -> R]
  OBVIOUS

LEMMA AllowStep ==
  ASSUME Inv, NEW h \in Handler, Allow(h)
  PROVE  Inv'
  <1>0. /\ requester[h] \in Peer /\ clock \in Nat /\ pc[h] = "allow"
        /\ obs[h] \in Nat /\ obs[h] <= clock /\ UNCHANGED <<clock, slots, nonces, accepted>>
    BY LimitAssumption DEF Inv, Types, Located, Allow
  <1> PICK p \in Peer : p = requester[h]
    BY <1>0
  <1> DEFINE s == stamps[p]
             a == allowedAt[p]
             s1 == Append(s, obs[h])
             a1 == Append(a, clock)
  <1>1. s \in Seq(Nat) /\ a \in Seq(Nat) /\ popped[p] \in Nat
    BY <1>0 DEF Inv, Types
  <1>2. PICK n \in popped[p] .. Len(s) :
          /\ PopsTo(p, obs[h] - Window, n)
          /\ popped' = [popped EXCEPT ![p] = n]
          /\ \/ /\ Reply(h) /\ UNCHANGED <<stamps, allowedAt>>
             \/ /\ Len(s) - n < MaxRequests
                /\ stamps' = [stamps EXCEPT ![p] = s1]
                /\ allowedAt' = [allowedAt EXCEPT ![p] = a1]
                /\ Goto(h, "serve", None, None, 0)
    BY DEF Allow
  <1>3. Goto(h, "reply", None, None, 0) \/ Goto(h, "serve", None, None, 0)
    BY <1>2 DEF Reply
  <1>4. DequeKept(p)
    BY <1>0 DEF Inv, DequesKept
  <1>5. /\ n \in Nat /\ Len(s) \in Nat /\ popped[p] \in Nat
        /\ popped[p] <= n /\ n <= Len(s)
    BY <1>1
  <1>6. \A i \in 1 .. n : s[i] <= clock - Window
    <2> SUFFICES ASSUME NEW i \in 1 .. n PROVE s[i] <= clock - Window
      OBVIOUS
    <2>1. s[i] \in Nat
      BY <1>1, <1>5
    <2>2. CASE i \in 1 .. popped[p]
      BY <1>4, <2>2 DEF DequeKept
    <2>3. CASE i \in popped[p] + 1 .. n
      <3>1. s[i] <= obs[h] - Window
        BY <1>2, <2>3 DEF PopsTo
      <3> QED
        BY <1>0, <2>1, <3>1, LimitAssumption
    <2> QED
      BY <1>1, <1>5, <2>2, <2>3
  <1>7. /\ Len(a) = Len(s) /\ Len(s) - popped[p] <= MaxRequests
        /\ \A i \in 1 .. Len(s) : s[i] <= a[i] /\ a[i] <= clock
        /\ \A i, j \in 1 .. Len(s) : i <= j => a[i] <= a[j]
    BY <1>4 DEF DequeKept
  <1>8. /\ s1 \in Seq(Nat) /\ a1 \in Seq(Nat)
        /\ Len(s1) = Len(s) + 1 /\ Len(a1) = Len(s) + 1
        /\ \A i \in 1 .. Len(s) : s1[i] = s[i]
        /\ \A i \in 1 .. Len(s) + 1 :
             /\ s1[i] <= a1[i]
             /\ a1[i] <= clock
        /\ \A i, j \in 1 .. Len(s) + 1 : i <= j => a1[i] <= a1[j]
    BY <1>0, <1>1, <1>7, AppendDeque
  <1> HIDE DEF s1, a1
  <1>9. Types'
    <2>1. Types /\ "reply" \in Steps /\ "serve" \in Steps /\ 0 \in Nat
      BY DEF Inv, Steps
    <2>2. /\ pc' \in [Handler -> Steps] /\ obs' \in [Handler -> Nat]
          /\ req' \in [Handler -> Request \cup {None}]
          /\ requester' \in [Handler -> Peer \cup {None}]
      BY <1>3, <2>1, GotoTypes
    <2>3. popped' \in [Peer -> Nat]
      BY <1>2, <1>5, <2>1 DEF Types
    <2>4. stamps' \in [Peer -> Seq(Nat)] /\ allowedAt' \in [Peer -> Seq(Nat)]
      <3>1. stamps \in [Peer -> Seq(Nat)] /\ allowedAt \in [Peer -> Seq(Nat)]
        BY <2>1 DEF Types
      <3>2. s1 \in Seq(Nat) /\ a1 \in Seq(Nat)
        BY <1>8
      <3>3. \/ stamps' = stamps /\ allowedAt' = allowedAt
            \/ stamps' = [stamps EXCEPT ![p] = s1] /\ allowedAt' = [allowedAt EXCEPT ![p] = a1]
        BY <1>2
      <3>4. /\ [stamps EXCEPT ![p] = s1] \in [Peer -> Seq(Nat)]
            /\ [allowedAt EXCEPT ![p] = a1] \in [Peer -> Seq(Nat)]
        BY <3>1, <3>2, ExceptType
      <3> QED
        BY <3>1, <3>3, <3>4, Zenon
    <2>5. /\ clock' \in 0 .. MaxTime /\ slots' \in Int
          /\ nonces' \in [Key -> Nat] /\ accepted' \in [Key -> SUBSET Nat]
      BY <1>0, <2>1 DEF Types
    <2> QED
      BY <2>2, <2>3, <2>4, <2>5, Zenon DEF Types
  <1>10. Located'
    <2>1. Types /\ Located /\ "reply" \in Steps /\ "serve" \in Steps /\ 0 \in Nat /\ 0 <= clock
      BY <1>0 DEF Inv, Steps
    <2> QED
      BY <1>0, <1>3, <2>1, GotoLocated
  <1>11. SlotsCounted'
    BY <1>0, <1>3, SlotsSame DEF Inv, Goto, Steps
  <1>12. NoncesKept'
    BY <1>0 DEF Inv, NoncesKept
  <1>13. ASSUME NEW q \in Peer, q # p PROVE DequeKept(q)'
    <2>1. popped'[q] = popped[q] /\ stamps'[q] = stamps[q] /\ allowedAt'[q] = allowedAt[q]
      BY <1>2, <1>13 DEF Inv, Types
    <2>2. DequeKept(q)
      BY DEF Inv, DequesKept
    <2> QED
      BY <1>0, <2>1, <2>2 DEF DequeKept
  <1>14. popped'[p] = n
    BY <1>0, <1>2 DEF Inv, Types
  <1>15. CASE UNCHANGED <<stamps, allowedAt>>
    <2>1. stamps'[p] = s /\ allowedAt'[p] = a /\ clock' = clock
      BY <1>0, <1>15
    <2>2. n <= Len(s) /\ Len(s) - n <= MaxRequests
      <3>1. Len(s) - popped[p] <= MaxRequests /\ MaxRequests \in Nat
        BY <1>7, LimitAssumption
      <3> HIDE DEF s
      <3> QED
        BY <1>5, <3>1
    <2>3. DequeKept(p)'
      BY <1>6, <1>7, <1>14, <2>1, <2>2 DEF DequeKept
    <2> QED
      BY <1>13, <2>3, <1>9, <1>10, <1>11, <1>12 DEF Inv, DequesKept
  <1>16. CASE /\ Len(s) - n < MaxRequests
              /\ stamps' = [stamps EXCEPT ![p] = s1]
              /\ allowedAt' = [allowedAt EXCEPT ![p] = a1]
    <2>1. stamps'[p] = s1 /\ allowedAt'[p] = a1 /\ clock' = clock
      BY <1>0, <1>16 DEF Inv, Types
    <2>2. n <= Len(s) + 1 /\ (Len(s) + 1) - n <= MaxRequests
      BY <1>5, <1>16, LimitAssumption
    <2>3. ASSUME NEW i \in 1 .. n PROVE s1[i] <= clock - Window
      <3>1. i \in 1 .. Len(s)
        BY <1>5
      <3>2. s1[i] = s[i] /\ s[i] <= clock - Window
        BY <1>6, <1>8, <3>1
      <3> QED
        BY <3>2
    <2>4. DequeKept(p)'
      BY <1>8, <1>14, <2>1, <2>2, <2>3 DEF DequeKept
    <2> QED
      BY <1>13, <2>4, <1>9, <1>10, <1>11, <1>12 DEF Inv, DequesKept
  <1> QED
    BY <1>2, <1>15, <1>16

LEMMA InvNext == Inv /\ [Next]_vars => Inv'
  <1> SUFFICES ASSUME Inv, [Next]_vars PROVE Inv'
    OBVIOUS
  <1>1. CASE UNCHANGED vars
    BY <1>1 DEF vars, Inv, Types, Located, SlotsCounted, Served, NoncesKept, DequesKept, DequeKept
  <1>2. CASE Tick
    BY <1>2, TickStep
  <1>3. ASSUME NEW h \in Handler, NEW r \in Request, Connect(h, r) PROVE Inv'
    BY <1>3, ConnectStep
  <1>4. ASSUME NEW h \in Handler, Handle(h) PROVE Inv'
    BY <1>4, AuthenticateStep, RememberStep, ReadRateStep, AllowStep, ServeStep, ReleaseStep
       DEF Handle
  <1> QED
    BY <1>1, <1>2, <1>3, <1>4 DEF Next, Busy

(* The server's state stays well formed, and in particular request_slots    *)
(* never holds more permits than it began with: every slot that is given    *)
(* back was taken (the finally clause of do_GET against its early returns). *)
THEOREM TypeCorrect == Spec => []TypeOK
  BY InvInit, InvNext, InvType, PTL DEF Spec

(* The inductive invariant holds in every reachable state. *)
THEOREM Invariance == Spec => []Inv
  BY InvInit, InvNext, PTL DEF Spec

-----------------------------------------------------------------------------
LEMMA WindowOfInv == Inv => WindowBound
  <1> SUFFICES ASSUME Inv, NEW p \in Peer
               PROVE  Cardinality({i \in DOMAIN stamps[p] : stamps[p][i] > clock - Window})
                        <= MaxRequests
    BY DEF WindowBound
  <1> DEFINE S == {i \in DOMAIN stamps[p] : stamps[p][i] > clock - Window}
             T == popped[p] + 1 .. Len(stamps[p])
  <1>1. /\ stamps[p] \in Seq(Nat) /\ popped[p] \in Nat /\ clock \in Int
        /\ Len(stamps[p]) \in Nat /\ DOMAIN stamps[p] = 1 .. Len(stamps[p])
    BY DEF Inv, Types
  <1>2. /\ popped[p] <= Len(stamps[p]) /\ Len(stamps[p]) - popped[p] <= MaxRequests
        /\ \A i \in 1 .. popped[p] : stamps[p][i] <= clock - Window
    BY DEF Inv, DequesKept, DequeKept
  <1>3. S \in SUBSET T
    <2> SUFFICES ASSUME NEW i \in 1 .. Len(stamps[p]), stamps[p][i] > clock - Window
                 PROVE  i \in T
      BY <1>1
    <2>1. stamps[p][i] \in Nat
      BY <1>1
    <2>2. ~(i \in 1 .. popped[p])
      BY <1>1, <1>2, <2>1, LimitAssumption
    <2> QED
      BY <1>1, <2>2
  <1>4. IsFiniteSet(T) /\ Cardinality(T) <= MaxRequests
    <2>0. popped[p] + 1 \in Int /\ Len(stamps[p]) \in Int
      BY <1>1
    <2>1. IsFiniteSet(T) /\ Cardinality(T) =
            IF popped[p] + 1 > Len(stamps[p]) THEN 0
            ELSE Len(stamps[p]) - (popped[p] + 1) + 1
      BY <2>0, FS_Interval
    <2> QED
      BY <1>1, <1>2, <2>1, LimitAssumption
  <1>5. Cardinality(S) <= Cardinality(T) /\ Cardinality(S) \in Nat /\ Cardinality(T) \in Nat
    BY <1>3, <1>4, FS_Subset, FS_CardinalityType
  <1> QED
    BY <1>4, <1>5, LimitAssumption

(* At most max_requests of a peer's allowed requests carry a reading of the *)
(* last window_seconds, for any number of threads that reach                *)
(* FederationRequestRateLimiter.allow with readings in any order.           *)
THEOREM WindowBoundHolds == Spec => []WindowBound
  BY Invariance, WindowOfInv, PTL

LEMMA NonceStep ==
  ASSUME Inv, [Next]_vars, NEW k \in Key, accepted'[k] # accepted[k], NEW t \in accepted[k]
  PROVE  clock >= t + MaxAge
  <1>1. PICK h \in Handler : Remember(h)
    BY DEF Next, Busy, Tick, Connect, Handle, Authenticate, ReadRate, Allow, Serve, Release,
           tables, vars
  <1>2. /\ accepted \in [Key -> SUBSET Nat] /\ nonces[k] \in Nat /\ clock \in Int
        /\ obs[h] \in Nat /\ obs[h] <= clock /\ t \in Nat
    BY DEF Inv, Types, Located
  <1>3. k = KeyOf(req[h]) /\ k \notin Remembered(Live(h))
    BY <1>1, <1>2 DEF Remember
  <1>4. Live(h)[k] = IF nonces[k] > obs[h] THEN nonces[k] ELSE 0
    BY DEF Live
  <1>5. nonces[k] <= obs[h]
    BY <1>2, <1>3, <1>4 DEF Remembered
  <1>6. nonces[k] >= t + MaxAge \/ clock >= t + MaxAge
    BY DEF Inv, NoncesKept
  <1> QED
    BY <1>2, <1>5, <1>6, LimitAssumption

(* authenticate_peer accepts a peer's nonce again only when max_age_seconds *)
(* have passed since every reading with which it was accepted before, for   *)
(* any number of threads, late readings and purges.                         *)
THEOREM NonceRememberedHolds == Spec => NonceRemembered
  <1>1. Inv /\ [Next]_vars =>
          [\A k \in Key : accepted'[k] # accepted[k]
             => \A t \in accepted[k] : clock >= t + MaxAge]_vars
    BY NonceStep
  <1> QED
    BY <1>1, Invariance, PTL DEF Spec, NonceRemembered

-----------------------------------------------------------------------------
(* Only the thread itself moves its program counter. *)
LEMMA OwnStep ==
  ASSUME Inv, [Next]_vars, NEW h \in Handler, pc'[h] # pc[h], pc[h] # "idle"
  PROVE  Handle(h)
  <1>0. pc \in [Handler -> Steps]
    BY DEF Inv, Types
  <1>1. ASSUME NEW g \in Handler, Handle(g) PROVE g = h
    <2>1. \E x : pc' = [pc EXCEPT ![g] = x]
      BY <1>1 DEF Handle, Authenticate, Remember, ReadRate, Allow, Serve, Release, Goto, Reply
    <2> QED
      BY <1>0, <2>1
  <1>2. ASSUME NEW g \in Handler, NEW r \in Request, Connect(g, r) PROVE FALSE
    BY <1>0, <1>2 DEF Connect, Goto
  <1> QED
    BY <1>1, <1>2 DEF Next, Busy, Tick, vars

LEMMA NonceRefusal ==
  ASSUME Inv, NEW h \in Handler, Remember(h), pc'[h] = "reply"
  PROVE  \/ Recent(KeyOf(req[h]), h)
         \/ Cardinality({k \in Key : Recent(k, h)}) >= MaxNonces
  <1> DEFINE R == {k \in Key : Recent(k, h)}
             live == Live(h)
  <1>0. /\ pc \in [Handler -> Steps] /\ nonces \in [Key -> Nat] /\ accepted \in [Key -> SUBSET Nat]
        /\ obs[h] \in Nat /\ req[h] \in Request
    BY DEF Inv, Types, Located, Remember
  <1>1. \/ KeyOf(req[h]) \in Remembered(live)
        \/ Cardinality(Remembered(live)) >= MaxNonces
    BY <1>0 DEF Remember, Goto
  <1>2. Remembered(live) \in SUBSET R
    <2> SUFFICES ASSUME NEW k \in Key, live[k] > 0 PROVE Recent(k, h)
      BY DEF Remembered
    <2>1. live[k] = IF nonces[k] > obs[h] THEN nonces[k] ELSE 0
      BY DEF Live
    <2>2. nonces[k] \in Nat /\ nonces[k] > obs[h]
      BY <1>0, <2>1
    <2>3. nonces[k] - MaxAge \in accepted[k]
      BY <1>0, <2>2 DEF Inv, NoncesKept
    <2>4. nonces[k] - MaxAge > obs[h] - MaxAge
      BY <1>0, <2>2, LimitAssumption
    <2> QED
      BY <2>3, <2>4 DEF Recent
  <1>3. IsFiniteSet(R)
    BY KeyFinite, FS_Subset
  <1>4. Cardinality(Remembered(live)) <= Cardinality(R) /\ Cardinality(R) \in Nat
        /\ Cardinality(Remembered(live)) \in Nat
    BY <1>2, <1>3, FS_Subset, FS_CardinalityType
  <1>5. CASE KeyOf(req[h]) \in Remembered(live)
    BY <1>2, <1>5
  <1>6. CASE Cardinality(Remembered(live)) >= MaxNonces
    BY <1>4, <1>6, LimitAssumption
  <1> QED
    BY <1>1, <1>5, <1>6

LEMMA RateRefusal ==
  ASSUME Inv, NEW h \in Handler, Allow(h), pc'[h] = "reply"
  PROVE  Cardinality({i \in DOMAIN allowedAt[requester[h]] :
           allowedAt[requester[h]][i] > obs[h] - Window}) >= MaxRequests
  <1> DEFINE p == requester[h]
             s == stamps[p]
             a == allowedAt[p]
             S == {i \in DOMAIN a : a[i] > obs[h] - Window}
  <1>0. /\ p \in Peer /\ pc \in [Handler -> Steps] /\ obs[h] \in Nat /\ pc[h] = "allow"
    BY DEF Inv, Types, Located, Allow
  <1>1. s \in Seq(Nat) /\ a \in Seq(Nat) /\ popped[p] \in Nat /\ Len(s) \in Nat
        /\ DOMAIN a = 1 .. Len(a)
    BY <1>0 DEF Inv, Types
  <1>2. /\ Len(a) = Len(s)
        /\ \A i \in 1 .. Len(s) : s[i] <= a[i]
        /\ \A i, j \in 1 .. Len(s) : i <= j => a[i] <= a[j]
    BY <1>0 DEF Inv, DequesKept, DequeKept
  <1>3. PICK n \in popped[p] .. Len(s) :
          PopsTo(p, obs[h] - Window, n) /\ Len(s) - n >= MaxRequests
    BY <1>0 DEF Allow, Goto
  <1> HIDE DEF p, s, a
  <1>4. n \in Nat /\ n < Len(s) /\ n + 1 \in 1 .. Len(s)
    BY <1>1, <1>3, LimitAssumption
  (* the reading at the front is live, so the request was allowed after it *)
  <1>5. s[n + 1] > obs[h] - Window
    <2>1. n < Len(s) => s[n + 1] > obs[h] - Window
      BY <1>3, Zenon DEF PopsTo, s
    <2> QED
      BY <1>4, <2>1
  <1>6. (n + 1 .. Len(s)) \in SUBSET S
    <2> SUFFICES ASSUME NEW i \in n + 1 .. Len(s) PROVE a[i] > obs[h] - Window
      BY <1>1, <1>2, <1>4
    <2>1. i \in 1 .. Len(s) /\ n + 1 <= i
      BY <1>1, <1>4
    <2>2. a[n + 1] <= a[i] /\ s[n + 1] <= a[n + 1]
      BY <1>2, <1>4, <2>1
    <2>3. s[n + 1] \in Nat
      BY <1>1, <1>4
    <2>4. a[i] \in Nat /\ a[n + 1] \in Nat
      <3>1. n + 1 \in 1 .. Len(a) /\ i \in 1 .. Len(a)
        BY <1>2, <1>4, <2>1
      <3> QED
        BY <1>1, <3>1
    <2> QED
      BY <1>0, <1>5, <2>2, <2>3, <2>4, LimitAssumption
  <1>7. IsFiniteSet(S)
    <2>1. IsFiniteSet(1 .. Len(a))
      BY <1>1, <1>2, FS_Interval
    <2> QED
      BY <1>1, <2>1, FS_Subset
  <1>8. Cardinality(n + 1 .. Len(s)) = Len(s) - n
    <2>0. n + 1 \in Int /\ Len(s) \in Int
      BY <1>1, <1>4
    <2>1. Cardinality(n + 1 .. Len(s)) = IF n + 1 > Len(s) THEN 0 ELSE Len(s) - (n + 1) + 1
      BY <2>0, FS_Interval
    <2> QED
      BY <1>1, <1>4, <2>1
  <1>9. Cardinality(n + 1 .. Len(s)) <= Cardinality(S) /\ Cardinality(S) \in Nat
    BY <1>6, <1>7, FS_Subset, FS_CardinalityType
  <1> QED
    BY <1>1, <1>3, <1>4, <1>8, <1>9, LimitAssumption DEF a, p

(* A request past its signature is refused only for cause: 401 when its     *)
(* nonce, or max_remembered_nonces of them, were accepted within max_age of *)
(* its reading, 429 when max_requests of its own peer were allowed within   *)
(* window_seconds of it, whatever order the readings arrived in.            *)
THEOREM RefusalJustifiedHolds == Spec => RefusalJustified
  <1> DEFINE Justified(h) ==
        pc'[h] = "reply" =>
          /\ pc[h] = "remember" =>
               \/ Recent(KeyOf(req[h]), h)
               \/ Cardinality({k \in Key : Recent(k, h)}) >= MaxNonces
          /\ pc[h] = "allow" =>
               Cardinality({i \in DOMAIN allowedAt[requester[h]] :
                 allowedAt[requester[h]][i] > obs[h] - Window}) >= MaxRequests
  <1>1. ASSUME Inv, [Next]_vars, NEW h \in Handler PROVE Justified(h)
    <2>1. CASE pc[h] = "remember" /\ pc'[h] = "reply"
      <3>1. Handle(h)
        BY <1>1, <2>1, OwnStep
      <3>2. Remember(h)
        BY <2>1, <3>1 DEF Handle, Authenticate, ReadRate, Allow, Serve, Release
      <3> QED
        BY <1>1, <2>1, <3>2, NonceRefusal
    <2>2. CASE pc[h] = "allow" /\ pc'[h] = "reply"
      <3>1. Handle(h)
        BY <1>1, <2>2, OwnStep
      <3>2. Allow(h)
        BY <2>2, <3>1 DEF Handle, Authenticate, ReadRate, Remember, Serve, Release
      <3> QED
        BY <1>1, <2>2, <3>2, RateRefusal
    <2> QED
      BY <2>1, <2>2
  <1>2. Inv /\ [Next]_vars => [\A h \in Handler : Justified(h)]_vars
    BY <1>1
  <1> QED
    BY <1>2, Invariance, PTL DEF Spec, RefusalJustified
=============================================================================
