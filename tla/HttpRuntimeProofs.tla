------------------------- MODULE HttpRuntimeProofs -------------------------
(***************************************************************************)
(* Theorems about HttpRuntime for any number of threads, callers, tiers,   *)
(* producers, contents and policies, and any TTLs, windows and times.      *)
(***************************************************************************)
EXTENDS HttpRuntime, TLAPS

-----------------------------------------------------------------------------
\* Type correctness.

LEMMA RecordTypes ==
  /\ NoJob \in Job
  /\ \A p \in Policy \cup {NoPolicy}, t \in 0..MaxTime : NewLocal(p, t) \in Local
  /\ \A r \in Request, v \in Version, t \in 0..MaxTime, ttl \in 0..MaxTtl, b \in BOOLEAN :
       NewResult(r, v, t, ttl, b) \in Result
  /\ \A r \in Request, m \in Result, t \in 0..MaxTime, ttl \in 0..MaxTtl :
       NewValidation(r, m, t, ttl) \in Validation
  <1>1. NoJob \in Job /\ \A p \in Policy \cup {NoPolicy}, t \in 0..MaxTime : NewLocal(p, t) \in Local
    BY TimeAssumption DEF NoJob, Job, JobState, NewLocal, Local, Outcome
  <1>2. \A t \in 0..MaxTime, ttl \in 0..MaxTtl : t \in Time /\ t + ttl \in Time
    BY TimeAssumption DEF Time
  <1>3. \A r \in Request : Caller[r].producer \in Producer
    BY StoreAssumption
  <1> QED
    BY <1>1, <1>2, <1>3, StoreAssumption DEF NewResult, Result, NewValidation, Validation

\* A request's policy is one its registry resolved, and caps its TTL.
LEMMA PolicyTypes ==
  ASSUME TypeOK, NEW r \in Request
  PROVE  /\ Ttl(r) \in 0..MaxTtl
         /\ loc[r].policy.stale \in Nat
         /\ (loc[r].policy.results \cup loc[r].policy.validations) \cap Outside = {}
  <1>1. Caller[r].ttl \in Nat
    BY StoreAssumption
  <1>2. CASE loc[r].policy = NoPolicy
    BY <1>1, <1>2, TimeAssumption DEF NoPolicy, Ttl, Least
  <1>3. CASE loc[r].policy # NoPolicy
    <2>1. loc[r].policy \in Policies[r]
      BY <1>3 DEF TypeOK
    <2>2. loc[r].policy \in Policy /\ Least(Caller[r].ttl, loc[r].policy.ttl) <= MaxTtl
      BY <1>3, <2>1, PolicyAssumption
    <2> QED
      BY <1>1, <2>1, <2>2, PolicyAssumption, TimeAssumption DEF Ttl, Least, Policy
  <1> QED
    BY <1>2, <1>3

LEMMA TypeInit == Init => TypeOK
  <1> SUFFICES ASSUME Init PROVE TypeOK
    OBVIOUS
  <1>1. PICK was \in Version :
          /\ results = {[tier |-> p.tier, by |-> p.by, ver |-> was, at |-> 0, until |-> p.until,
                         validator |-> TRUE] : p \in Preloaded}
          /\ left = [v \in Version |-> IF v = was /\ v # origin THEN 0 ELSE -1]
    BY DEF Init
  <1>2. results \subseteq Result
    <2>1. 0 \in Time
      BY TimeAssumption DEF Time
    <2>2. ASSUME NEW p \in Preloaded
          PROVE  [tier |-> p.tier, by |-> p.by, ver |-> was, at |-> 0, until |-> p.until,
                  validator |-> TRUE] \in Result
      BY <2>1, PreloadedAssumption DEF Result
    <2> QED
      BY <1>1, <2>2
  <1>3. validations \subseteq Validation
    <2>1. ASSUME NEW w \in Vouched, NEW m \in results
          PROVE  [tier |-> w.tier, by |-> w.by, res |-> m, until |-> w.until] \in Validation
      BY <1>2, PreloadedAssumption, StoreAssumption DEF Validation
    <2> QED
      BY <2>1 DEF Init
  <1>4. /\ loc \in [Request -> Local] /\ job \in [Request -> Job]
        /\ \A r \in Request : loc[r].policy \in Policies[r] \cup {NoPolicy}
    <2>1. NewLocal(NoPolicy, 0) \in Local /\ NewLocal(NoPolicy, 0).policy = NoPolicy
      BY RecordTypes, TimeAssumption DEF NewLocal
    <2>2. loc = [r \in Request |-> NewLocal(NoPolicy, 0)] /\ job = [r \in Request |-> NoJob]
      BY DEF Init
    <2> QED
      BY <2>1, <2>2, RecordTypes
  <1>5. left \in [Version -> -1..MaxTime]
    BY <1>1, TimeAssumption
  <1>6. /\ pc \in [Request -> Location] /\ cover \in [Request -> Cover]
        /\ inflight \in BOOLEAN /\ strayed \in BOOLEAN
    BY DEF Init, Location, Cover
  <1>7. clock \in 0..MaxTime /\ starts \in 0..MaxStarts /\ changes \in 0..MaxChanges
    BY TimeAssumption DEF Init
  <1>8. origin \in Version
    BY StoreAssumption DEF Init
  <1> QED
    BY <1>2, <1>3, <1>4, <1>5, <1>6, <1>7, <1>8 DEF TypeOK

\* The variables a thread changes.
LEMMA ThreadType ==
  ASSUME TypeOK, NEW r \in Request, NEW l \in Local,
         loc' = [loc EXCEPT ![r] = l], l.policy \in Policies[r] \cup {NoPolicy},
         pc' \in [Request -> Location], job' \in [Request -> Job], cover' \in [Request -> Cover],
         results' \subseteq Result, validations' \subseteq Validation,
         inflight' \in BOOLEAN, strayed' \in BOOLEAN, starts' \in 0..MaxStarts,
         UNCHANGED <<origin, clock, left, changes>>
  PROVE  TypeOK'
  <1>1. loc' \in [Request -> Local]
    BY DEF TypeOK
  <1>2. \A s \in Request : loc'[s].policy \in Policies[s] \cup {NoPolicy}
    BY DEF TypeOK
  <1> QED
    BY <1>1, <1>2 DEF TypeOK

LEMMA ProceedType ==
  ASSUME TypeOK, NEW r \in Request, Start(r) \/ Proceed(r)
  PROVE  TypeOK'
  <1> DEFINE own(l) == loc' = [loc EXCEPT ![r] = l] /\ l \in Local /\ l.policy = loc[r].policy
  <1>0. loc[r] \in Local /\ loc[r].policy \in Policies[r] \cup {NoPolicy} /\ loc = [loc EXCEPT ![r] = loc[r]]
    BY DEF TypeOK
  <1>a. ASSUME NEW c \in SUBSET Result, loc' = [loc EXCEPT ![r].cand = c]
        PROVE  own([loc[r] EXCEPT !.cand = c])
    <2>1. [loc[r] EXCEPT !.cand = c] \in Local /\ [loc[r] EXCEPT !.cand = c].policy = loc[r].policy
      BY <1>0 DEF Local
    <2> QED
      BY <1>a, <2>1
  <1>b. ASSUME NEW g \in SUBSET Version, loc' = [loc EXCEPT ![r].got = g]
        PROVE  own([loc[r] EXCEPT !.got = g])
    <2>1. [loc[r] EXCEPT !.got = g] \in Local /\ [loc[r] EXCEPT !.got = g].policy = loc[r].policy
      BY <1>0 DEF Local
    <2> QED
      BY <1>b, <2>1
  <1>c. ASSUME loc' = [loc EXCEPT ![r].status = 304]
        PROVE  own([loc[r] EXCEPT !.status = 304])
    <2>1. [loc[r] EXCEPT !.status = 304] \in Local /\ [loc[r] EXCEPT !.status = 304].policy = loc[r].policy
      BY <1>0 DEF Local
    <2> QED
      BY <1>c, <2>1
  <1>d. ASSUME NEW o \in Outcome, loc' = [loc EXCEPT ![r].outcome = o]
        PROVE  own([loc[r] EXCEPT !.outcome = o])
    <2>1. [loc[r] EXCEPT !.outcome = o] \in Local /\ [loc[r] EXCEPT !.outcome = o].policy = loc[r].policy
      BY <1>0 DEF Local
    <2> QED
      BY <1>d, <2>1
  <1>e. UNCHANGED loc => own(loc[r])
    BY <1>0
  <1>1. /\ loc[r] \in Local /\ loc[r].policy \in Policies[r] \cup {NoPolicy}
        /\ UNCHANGED loc => \E l : own(l)
        /\ \A c \in SUBSET Result : loc' = [loc EXCEPT ![r].cand = c] => \E l : own(l)
        /\ \A g \in SUBSET Version : loc' = [loc EXCEPT ![r].got = g] => \E l : own(l)
        /\ loc' = [loc EXCEPT ![r].status = 304] => \E l : own(l)
        /\ \A o \in Outcome : loc' = [loc EXCEPT ![r].outcome = o] => \E l : own(l)
    <2> HIDE DEF own
    <2>1. \A c \in SUBSET Result : loc' = [loc EXCEPT ![r].cand = c] => \E l : own(l)
      BY <1>a
    <2>2. \A g \in SUBSET Version : loc' = [loc EXCEPT ![r].got = g] => \E l : own(l)
      BY <1>b
    <2>3. loc' = [loc EXCEPT ![r].status = 304] => \E l : own(l)
      BY <1>c
    <2>4. \A o \in Outcome : loc' = [loc EXCEPT ![r].outcome = o] => \E l : own(l)
      BY <1>d
    <2>5. UNCHANGED loc => \E l : own(l)
      BY <1>e
    <2> QED
      BY <1>0, <2>1, <2>2, <2>3, <2>4, <2>5
  <1>2. \A to \in Location : Goto(r, to) => pc' \in [Request -> Location]
    BY DEF Goto, TypeOK
  <1>3. CASE Start(r)
    <2>1. PICK p \in Policies[r] : loc' = [loc EXCEPT ![r] = NewLocal(p, clock)]
      BY <1>3 DEF Start
    <2>2. NewLocal(p, clock) \in Local /\ NewLocal(p, clock).policy = p
      BY RecordTypes, PolicyAssumption DEF TypeOK, NewLocal
    <2>3. starts' \in 0..MaxStarts
      BY <1>3, TimeAssumption DEF TypeOK, Start
    <2>4. pc' \in [Request -> Location]
      BY <1>2, <1>3 DEF Start, Location
    <2> QED
      BY <1>3, <2>1, <2>2, <2>3, <2>4, ThreadType DEF TypeOK, Start, shared
  <1>4. CASE Lookup(r)
    <2>1. PICK l : own(l)
      <3>1. {} \in SUBSET Result /\ \A m \in results : {m} \in SUBSET Result
        BY DEF TypeOK
      <3>2. \E c \in SUBSET Result : loc' = [loc EXCEPT ![r].cand = c]
        BY <1>4, <3>1 DEF Lookup, InFull, Candidates
      <3> HIDE DEF own
      <3> QED
        BY <1>1, <3>2
    <2>2. pc' \in [Request -> Location]
      BY <1>2, <1>4 DEF Lookup, InFull, Location
    <2> QED
      BY <1>1, <1>4, <2>1, <2>2, ThreadType DEF TypeOK, Lookup, shared
  <1>5. CASE Freshness(r)
    <2>1. PICK l : own(l)
      <3>1. \/ \E c \in SUBSET Result : loc' = [loc EXCEPT ![r].cand = c]
            \/ \E o \in Outcome : loc' = [loc EXCEPT ![r].outcome = o]
            \/ UNCHANGED loc
        <4>1. {} \in SUBSET Result
          OBVIOUS
        <4> QED
          BY <1>5, <4>1 DEF Freshness, InFull, Return, Outcome
      <3> HIDE DEF own
      <3> QED
        BY <1>1, <3>1
    <2>2. pc' \in [Request -> Location]
      BY <1>2, <1>5 DEF Freshness, InFull, Return, Location
    <2> QED
      BY <1>1, <1>5, <2>1, <2>2, ThreadType DEF TypeOK, Freshness, shared
  <1>6. CASE Mark(r)
    <2>1. PICK l : own(l)
      BY <1>1, <1>6 DEF Mark, Return, Outcome
    <2>2. pc' \in [Request -> Location] /\ cover' \in [Request -> Cover]
      BY <1>2, <1>6 DEF Mark, Return, Location, Cover, Standing, TypeOK
    <2> QED
      BY <1>1, <1>6, <2>1, <2>2, ThreadType DEF TypeOK, Mark, shared
  <1>7. CASE Enqueue(r)
    <2>1. PICK l : own(l)
      BY <1>1, <1>7 DEF Enqueue, Return, Outcome
    <2>2. pc' \in [Request -> Location]
      BY <1>2, <1>7 DEF Enqueue, Return, Location
    <2>3. cover' \in [Request -> Cover]
      BY <1>7 DEF Enqueue, Settle, Cover, TypeOK
    <2>4. job' \in [Request -> Job]
      <3>1. loc[r].cand \subseteq Result /\ Ttl(r) \in 0..MaxTtl
        BY <1>1, PolicyTypes DEF Local
      <3>2. \A b \in BOOLEAN : [NoJob EXCEPT !.st = "queued", !.cand = loc[r].cand,
                                              !.ttl = Ttl(r), !.stray = b] \in Job
        <4> SUFFICES ASSUME NEW b \in BOOLEAN
                     PROVE  [NoJob EXCEPT !.st = "queued", !.cand = loc[r].cand, !.ttl = Ttl(r),
                                          !.stray = b] \in Job
          OBVIOUS
        <4>1. PICK k : k = [NoJob EXCEPT !.st = "queued", !.cand = loc[r].cand, !.ttl = Ttl(r),
                                         !.stray = b]
          OBVIOUS
        <4>2. k = [st |-> "queued", cand |-> loc[r].cand, got |-> {}, status |-> 0, time |-> 0,
                   ttl |-> Ttl(r), stray |-> b]
          BY <4>1 DEF NoJob
        <4>3. k \in Job
          BY <3>1, <4>2, TimeAssumption DEF Job, JobState
        <4> QED
          BY <4>1, <4>3
      <3> QED
        BY <1>7, <3>2 DEF Enqueue, Queue, TypeOK
    <2>5. strayed' \in BOOLEAN
      BY <1>7 DEF Enqueue, TypeOK
    <2> QED
      BY <1>1, <1>7, <2>1, <2>2, <2>3, <2>4, <2>5, ThreadType DEF TypeOK, Enqueue, shared
  <1>8. CASE Unmark(r)
    <2>1. PICK l : own(l)
      <3>1. {} \in SUBSET Result /\ loc' = [loc EXCEPT ![r].cand = {}]
        BY <1>8 DEF Unmark, InFull
      <3> HIDE DEF own
      <3> QED
        BY <1>1, <3>1
    <2>2. pc' \in [Request -> Location]
      BY <1>2, <1>8 DEF Unmark, InFull, Location
    <2> QED
      BY <1>1, <1>8, <2>1, <2>2, ThreadType DEF TypeOK, Unmark, shared
  <1>9. CASE Conditional(r)
    <2>1. PICK l : own(l)
      <3>1. CASE loc' = [loc EXCEPT ![r].status = 200, ![r].got = {origin}]
        <4> DEFINE l == [loc[r] EXCEPT !.status = 200, !.got = {origin}]
        <4>1. {origin} \in SUBSET Version
          BY DEF TypeOK
        <4>2. l \in Local /\ l.policy = loc[r].policy
          <5>1. PICK k : k = l
            OBVIOUS
          <5>2. k = [policy |-> loc[r].policy, now |-> loc[r].now, cand |-> loc[r].cand,
                     got |-> {origin}, status |-> 200, outcome |-> loc[r].outcome]
            BY <1>0, <5>1 DEF Local
          <5>3. k \in Local /\ k.policy = loc[r].policy
            BY <1>0, <4>1, <5>2 DEF Local
          <5> QED
            BY <5>1, <5>3
        <4>3. loc' = [loc EXCEPT ![r] = l]
          BY <3>1
        <4> QED
          BY <4>2, <4>3
      <3> QED
        BY <1>1, <1>9, <3>1 DEF Conditional
    <2>2. pc' \in [Request -> Location]
      BY <1>2, <1>9 DEF Conditional, Location
    <2> QED
      BY <1>1, <1>9, <2>1, <2>2, ThreadType DEF TypeOK, Conditional, shared
  <1>10. CASE Fetch(r)
    <2>1. PICK l : own(l)
      <3>1. {origin} \in SUBSET Version /\ loc' = [loc EXCEPT ![r].got = {origin}]
        BY <1>10 DEF Fetch, TypeOK
      <3> HIDE DEF own
      <3> QED
        BY <1>1, <3>1
    <2>2. pc' \in [Request -> Location]
      BY <1>2, <1>10 DEF Fetch, Location
    <2> QED
      <3>1. UNCHANGED <<shared, inflight, job, left, cover, starts, changes, strayed>>
        BY <1>10 DEF Fetch
      <3> QED
        BY <1>1, <2>1, <2>2, <3>1, ThreadType DEF TypeOK, shared
  <1>11. CASE Publish(r)
    <2>1. loc[r].now \in 0..MaxTime /\ loc[r].cand \subseteq Result /\ loc[r].got \subseteq Version
      BY <1>1 DEF Local
    <2>2. Ttl(r) \in 0..MaxTtl
      BY PolicyTypes
    <2>3. validations' \subseteq Validation /\ results' \subseteq Result
      <3>1. \A m \in loc[r].cand : NewValidation(r, m, loc[r].now, Ttl(r)) \in Validation
        BY <2>1, <2>2, RecordTypes
      <3>2. \A v \in loc[r].got, b \in Validator : NewResult(r, v, loc[r].now, Ttl(r), b) \in Result
        BY <2>1, <2>2, RecordTypes, StoreAssumption
      <3> QED
        BY <1>11, <3>1, <3>2 DEF TypeOK, Publish
    <2>4. PICK l : own(l)
      BY <1>1, <1>11 DEF Publish, Return, Outcome
    <2>5. pc' \in [Request -> Location]
      BY <1>2, <1>11 DEF Publish, Return, Location
    <2> QED
      BY <1>1, <1>11, <2>3, <2>4, <2>5, ThreadType DEF TypeOK, Publish
  <1>12. CASE Leave(r)
    <2>1. /\ loc' = [loc EXCEPT ![r] = NewLocal(NoPolicy, 0)]
          /\ NewLocal(NoPolicy, 0) \in Local /\ NewLocal(NoPolicy, 0).policy = NoPolicy
      BY <1>12, RecordTypes, TimeAssumption DEF Leave, NewLocal
    <2>2. pc' \in [Request -> Location] /\ cover' \in [Request -> Cover]
      BY <1>2, <1>12 DEF Leave, Location, Cover, TypeOK
    <2> QED
      BY <1>12, <2>1, <2>2, ThreadType DEF TypeOK, Leave, shared
  <1> QED
    BY <1>3, <1>4, <1>5, <1>6, <1>7, <1>8, <1>9, <1>10, <1>11, <1>12 DEF Proceed

LEMMA JobAnswered ==
  ASSUME TypeOK, NEW j \in Job, NEW n \in {200, 304}, NEW g \in SUBSET Version
  PROVE  /\ Answered(j, n, g) \in Job
         /\ Answered(j, n, g).st = "observe" /\ Answered(j, n, g).time = clock
         /\ Answered(j, n, g).cand = j.cand /\ Answered(j, n, g).got = g
         /\ Answered(j, n, g).status = n
  <1>1. Answered(j, n, g) = [st |-> "observe", cand |-> j.cand, got |-> g, status |-> n,
                             time |-> clock, ttl |-> j.ttl, stray |-> j.stray]
    <2>1. PICK k : k = [j EXCEPT !.st = "observe", !.status = n, !.got = g, !.time = clock]
      OBVIOUS
    <2>2. k = [st |-> "observe", cand |-> j.cand, got |-> g, status |-> n, time |-> clock,
               ttl |-> j.ttl, stray |-> j.stray]
      BY <2>1 DEF Job
    <2> QED
      BY <2>1, <2>2 DEF Answered
  <1>2. clock \in 0..MaxTime
    BY DEF TypeOK
  <1>3. Answered(j, n, g) \in Job
    BY <1>1, <1>2 DEF Job, JobState
  <1> QED
    BY <1>1, <1>3

LEMMA JobType ==
  ASSUME TypeOK, NEW r \in Request, JobRun(r)
  PROVE  TypeOK'
  <1>1. ASSUME NEW st, NEW next \in Job, JobStep(r, st, next),
               results' \subseteq Result, validations' \subseteq Validation, inflight' \in BOOLEAN
        PROVE  TypeOK'
    BY <1>1 DEF TypeOK, JobStep
  <1>2. job[r] \in Job
    BY DEF TypeOK
  <1>3. CASE JobRequest(r)
    <2>1. Answered(job[r], 304, {}) \in Job /\ Answered(job[r], 200, {origin}) \in Job
      <3>1. {origin} \in SUBSET Version /\ {} \in SUBSET Version
        BY DEF TypeOK
      <3> QED
        BY <1>2, <3>1, JobAnswered
    <2>2. results' \subseteq Result /\ validations' \subseteq Validation /\ inflight' \in BOOLEAN
      BY <1>3 DEF JobRequest, TypeOK
    <2> QED
      BY <1>1, <1>3, <2>1, <2>2 DEF JobRequest
  <1>4. CASE JobObserve(r)
    <2>1. [job[r] EXCEPT !.st = "publish", !.time = clock] \in Job
      <3>1. clock \in 0..MaxTime /\ "publish" \in JobState
        BY DEF TypeOK, JobState
      <3> QED
        BY <1>2, <3>1 DEF Job
    <2>2. results' \subseteq Result /\ validations' \subseteq Validation /\ inflight' \in BOOLEAN
      BY <1>4 DEF JobObserve, TypeOK
    <2> QED
      BY <1>1, <1>4, <2>1, <2>2 DEF JobObserve
  <1>5. Over(r) \in Job
    <2>1. PICK k : k = Over(r)
      OBVIOUS
    <2>2. k = [st |-> "finish", cand |-> {}, got |-> {}, status |-> 0, time |-> 0, ttl |-> 0,
               stray |-> job[r].stray]
      BY <2>1 DEF Over, NoJob
    <2>3. k \in Job
      BY <1>2, <2>2, TimeAssumption DEF Job, JobState
    <2> QED
      BY <2>1, <2>3
  <1>6. CASE JobPublish(r)
    <2>1. /\ job[r].time \in 0..MaxTime /\ job[r].ttl \in 0..MaxTtl
          /\ job[r].cand \subseteq Result /\ job[r].got \subseteq Version
      BY <1>2 DEF Job
    <2>2. results' \subseteq Result /\ validations' \subseteq Validation
      <3>1. \A m \in job[r].cand : NewValidation(r, m, job[r].time, job[r].ttl) \in Validation
        BY <2>1, RecordTypes
      <3>2. \A v \in job[r].got, b \in Validator :
              NewResult(r, v, job[r].time, job[r].ttl, b) \in Result
        BY <2>1, RecordTypes, StoreAssumption
      <3> QED
        BY <1>6, <3>1, <3>2 DEF JobPublish, TypeOK
    <2>3. inflight' \in BOOLEAN
      BY <1>6 DEF JobPublish, TypeOK
    <2> QED
      BY <1>1, <1>5, <1>6, <2>2, <2>3 DEF JobPublish
  <1>7. CASE JobFail(r)
    <2>1. results' \subseteq Result /\ validations' \subseteq Validation /\ inflight' \in BOOLEAN
      BY <1>7 DEF JobFail, TypeOK
    <2> QED
      BY <1>1, <1>5, <1>7, <2>1 DEF JobFail
  <1>8. CASE JobFinish(r)
    <2>1. results' \subseteq Result /\ validations' \subseteq Validation /\ inflight' \in BOOLEAN
      BY <1>8 DEF JobFinish, TypeOK
    <2> QED
      BY <1>1, <1>8, <2>1, RecordTypes DEF JobFinish
  <1> QED
    BY <1>3, <1>4, <1>6, <1>7, <1>8 DEF JobRun

LEMMA TypeNext == TypeOK /\ [Next]_vars => TypeOK'
  <1> SUFFICES ASSUME TypeOK, [Next]_vars PROVE TypeOK'
    OBVIOUS
  <1>1. CASE \E r \in Request : Start(r) \/ Proceed(r) \/ JobRun(r)
    BY <1>1, ProceedType, JobType
  <1>2. CASE OriginChanges
    BY <1>2, TimeAssumption DEF OriginChanges, TypeOK
  <1>3. CASE Tick
    BY <1>3, TimeAssumption DEF Tick, TypeOK
  <1>4. CASE UNCHANGED vars
    BY <1>4 DEF vars, shared, TypeOK
  <1> QED
    BY <1>1, <1>2, <1>3, <1>4 DEF Next, Terminated

\* Every variable keeps its type: times stay within the clock's range plus a
\* TTL, and a request's and a job's local state is well formed throughout.
THEOREM TypeCorrect == Spec => []TypeOK
  BY TypeInit, TypeNext, PTL DEF Spec

-----------------------------------------------------------------------------
\* Single flight.

\* A thread hands the key to its job: it never holds it twice.
HandOff == \A r \in Request : pc[r] \in {"enqueue", "unmark"} => job[r].st = "none"
FlightInv == strayed \/ (SingleFlight /\ HandOff)

LEMMA FlightInit == Init => FlightInv
  BY DEF Init, FlightInv, SingleFlight, HandOff, OwnsKey, NoJob

\* A step that changes neither the key nor who owns it.
LEMMA FlightFrame ==
  ASSUME FlightInv, ~strayed, inflight' = inflight,
         \A r \in Request : OwnsKey(r)' <=> OwnsKey(r), HandOff'
  PROVE  FlightInv'
  BY DEF FlightInv, SingleFlight

\* The steps of a thread outside the hand-over.
LEMMA ThreadOutside ==
  ASSUME TypeOK, NEW r \in Request,
         Start(r) \/ Lookup(r) \/ Freshness(r) \/ Conditional(r) \/ Fetch(r) \/ Publish(r)
           \/ Leave(r)
  PROVE  /\ inflight' = inflight /\ job' = job /\ strayed' = strayed
         /\ pc[r] \notin {"mark", "enqueue", "unmark"}
         /\ \E to \in Location \ {"enqueue", "unmark"} : pc' = [pc EXCEPT ![r] = to]
  <1>1. \E to \in Location \ {"enqueue", "unmark"} : pc' = [pc EXCEPT ![r] = to]
    BY DEF Start, Lookup, Freshness, Conditional, Fetch, Publish, Leave, InFull, Return, Goto,
       Location
  <1> QED
    BY <1>1 DEF Start, Lookup, Freshness, Conditional, Fetch, Publish, Leave

\* The steps of a job until it releases the key.
LEMMA JobWorks ==
  ASSUME TypeOK, NEW r \in Request,
         JobRequest(r) \/ JobObserve(r) \/ JobPublish(r) \/ JobFail(r)
  PROVE  /\ inflight' = inflight /\ pc' = pc /\ loc' = loc /\ strayed' = strayed /\ cover' = cover
         /\ job[r].st # "none" /\ job'[r].st # "none"
         /\ \A s \in Request \ {r} : job'[s] = job[s]
  <1>0. /\ Answered(job[r], 304, {}).st # "none"
        /\ Answered(job[r], 200, {origin}).st # "none"
        /\ [job[r] EXCEPT !.st = "publish", !.time = clock].st # "none"
    <2>1. job[r] \in Job /\ {origin} \in SUBSET Version /\ {} \in SUBSET Version
      BY DEF TypeOK
    <2>2. [job[r] EXCEPT !.st = "publish", !.time = clock].st = "publish"
      BY <2>1 DEF Job
    <2> QED
      BY <2>1, <2>2, JobAnswered
  <1>1. PICK st, next : st # "none" /\ next.st # "none" /\ JobStep(r, st, next)
    <2>1. CASE JobRequest(r)
      BY <1>0, <2>1 DEF JobRequest
    <2>2. CASE JobObserve(r)
      BY <1>0, <2>2 DEF JobObserve
    <2>3. Over(r).st # "none"
      BY DEF Over, NoJob
    <2>4. CASE JobPublish(r) \/ JobFail(r)
      BY <2>3, <2>4 DEF JobPublish, JobFail
    <2> QED
      BY <2>1, <2>2, <2>4
  <1>2. inflight' = inflight
    BY DEF JobRequest, JobObserve, JobPublish, JobFail
  <1> QED
    BY <1>1, <1>2 DEF JobStep, TypeOK

\* A submission: the job is queued and the request returns, or it raises.
LEMMA Submission ==
  ASSUME TypeOK, NEW r \in Request, Enqueue(r)
  PROVE  /\ inflight' = inflight
         /\ \A s \in Request \ {r} : pc'[s] = pc[s] /\ job'[s] = job[s]
         /\ pc'[r] \in {"return", "unmark"}
         /\ pc'[r] = "return" => job'[r].st = "queued"
         /\ pc'[r] = "unmark" => job'[r] = job[r] \/ strayed'
  <1>1. ASSUME NEW b, Queue(r, b)
        PROVE  job'[r].st = "queued" /\ \A s \in Request \ {r} : job'[s] = job[s]
    <2>1. [NoJob EXCEPT !.st = "queued", !.cand = loc[r].cand, !.ttl = Ttl(r), !.stray = b].st
            = "queued"
      BY DEF NoJob
    <2> QED
      BY <1>1, <2>1 DEF Queue, TypeOK
  <1>2. \/ Queue(r, FALSE) /\ Return(r, "stale")
        \/ /\ Goto(r, "unmark")
           /\ UNCHANGED <<job, strayed>> \/ (Queue(r, TRUE) /\ strayed' = TRUE)
    BY DEF Enqueue
  <1>3. inflight' = inflight
    BY DEF Enqueue
  <1>4. CASE Queue(r, FALSE) /\ Return(r, "stale")
    BY <1>1, <1>3, <1>4 DEF Return, Goto, TypeOK
  <1>5. CASE /\ Goto(r, "unmark")
             /\ UNCHANGED <<job, strayed>> \/ (Queue(r, TRUE) /\ strayed' = TRUE)
    BY <1>1, <1>3, <1>5 DEF Goto, TypeOK
  <1> QED
    BY <1>2, <1>4, <1>5

LEMMA FlightNext == TypeOK /\ FlightInv /\ [Next]_vars => FlightInv'
  <1> SUFFICES ASSUME TypeOK, FlightInv, [Next]_vars PROVE FlightInv'
    OBVIOUS
  <1> USE DEF OwnsKey
  <1>0. CASE strayed
    <2>1. ASSUME NEW r \in Request, Start(r) \/ Proceed(r) PROVE strayed'
      BY <1>0, <2>1 DEF Start, Proceed, Lookup, Freshness, Mark, Enqueue, Unmark, Conditional,
         Fetch, Publish, Leave
    <2>2. ASSUME NEW r \in Request, JobRun(r) PROVE strayed'
      BY <1>0, <2>2 DEF JobRun, JobRequest, JobObserve, JobPublish, JobFail, JobFinish, JobStep
    <2>3. OriginChanges \/ Tick \/ UNCHANGED vars => strayed'
      BY <1>0 DEF OriginChanges, Tick, vars
    <2> QED
      BY <2>1, <2>2, <2>3 DEF FlightInv, Next, Terminated
  <1>f. CASE ~strayed
    <2>0. SingleFlight /\ HandOff
      BY <1>f DEF FlightInv
    <2>1. CASE \E r \in Request : Start(r) \/ Lookup(r) \/ Freshness(r) \/ Conditional(r)
                                    \/ Fetch(r) \/ Publish(r) \/ Leave(r)
      <3>1. PICK r \in Request : /\ inflight' = inflight /\ job' = job
                                 /\ pc[r] \notin {"mark", "enqueue", "unmark"}
                                 /\ \E to \in Location \ {"enqueue", "unmark"} :
                                      pc' = [pc EXCEPT ![r] = to]
        BY <2>1, ThreadOutside
      <3>2. \A s \in Request : pc'[s] \in {"enqueue", "unmark"} <=> pc[s] \in {"enqueue", "unmark"}
        BY <3>1 DEF TypeOK
      <3> QED
        BY <1>f, <2>0, <3>1, <3>2, FlightFrame DEF HandOff
    <2>2. ASSUME NEW r \in Request, Mark(r)
          PROVE  FlightInv'
      <3>1. CASE inflight
        <4>1. pc' = [pc EXCEPT ![r] = "return"] /\ job' = job /\ inflight' = inflight /\ pc[r] = "mark"
          BY <2>2, <3>1 DEF Mark, Return, Goto
        <4>2. \A s \in Request : pc'[s] \in {"enqueue", "unmark"} <=> pc[s] \in {"enqueue", "unmark"}
          BY <4>1 DEF TypeOK
        <4> QED
          BY <1>f, <2>0, <4>1, <4>2, FlightFrame DEF HandOff
      <3>2. CASE ~inflight
        <4>1. pc' = [pc EXCEPT ![r] = "enqueue"] /\ job' = job /\ inflight'
          BY <2>2, <3>2 DEF Mark, Goto
        <4>2. \A s \in Request : ~OwnsKey(s)
          BY <1>f, <2>0, <3>2 DEF SingleFlight
        <4> QED
          BY <4>1, <4>2 DEF FlightInv, SingleFlight, HandOff, TypeOK
      <3> QED
        BY <3>1, <3>2
    <2>3. ASSUME NEW r \in Request, Enqueue(r)
          PROVE  FlightInv'
      <3>1. CASE strayed'
        BY <3>1 DEF FlightInv
      <3>2. CASE ~strayed'
        <4>1. pc[r] = "enqueue" /\ inflight' = inflight
          BY <2>3 DEF Enqueue
        <4>2. /\ \A s \in Request \ {r} : pc'[s] = pc[s] /\ job'[s] = job[s]
              /\ \/ pc'[r] = "unmark" /\ job'[r] = job[r]
                 \/ pc'[r] = "return" /\ job'[r].st # "none"
          BY <2>3, <3>2, Submission
        <4> QED
          BY <1>f, <2>0, <4>1, <4>2, FlightFrame DEF HandOff
      <3> QED
        BY <3>1, <3>2
    <2>4. ASSUME NEW r \in Request, Unmark(r) \/ JobFinish(r)
          PROVE  FlightInv'
      <3>1. OwnsKey(r) /\ ~inflight' /\ ~OwnsKey(r)'
        BY <2>0, <2>4 DEF Unmark, InFull, JobFinish, JobStep, Goto, HandOff, TypeOK, NoJob
      <3>2. \A s \in Request \ {r} : ~OwnsKey(s) /\ pc'[s] = pc[s] /\ job'[s] = job[s]
        BY <1>f, <2>0, <2>4, <3>1 DEF Unmark, InFull, JobFinish, JobStep, Goto, SingleFlight, TypeOK
      <3> QED
        BY <3>1, <3>2 DEF FlightInv, SingleFlight, HandOff
    <2>5. ASSUME NEW r \in Request, JobRequest(r) \/ JobObserve(r) \/ JobPublish(r) \/ JobFail(r)
          PROVE  FlightInv'
      BY <1>f, <2>0, <2>5, JobWorks, FlightFrame DEF HandOff
    <2>6. CASE OriginChanges \/ Tick \/ UNCHANGED vars
      BY <1>f, <2>0, <2>6, FlightFrame DEF OriginChanges, Tick, vars, HandOff
    <2> QED
      BY <2>1, <2>2, <2>3, <2>4, <2>5, <2>6 DEF Next, Proceed, JobRun, Terminated
  <1> QED
    BY <1>0, <1>f

\* Until a submission raises after it has queued its job, submit never has two
\* revalidations of an action under way, whatever mix of requests, refusals,
\* failing and finishing jobs: the key is in flight exactly while it has an
\* owner.
THEOREM OneFlight == Spec => []SingleFlight
  <1>1. TypeOK /\ FlightInv => SingleFlight
    BY DEF FlightInv, SingleFlight
  <1> QED
    BY <1>1, TypeInit, TypeNext, FlightInit, FlightNext, PTL DEF Spec

-----------------------------------------------------------------------------
\* A stale result relies on a submission.

\* However jobs have strayed, a key in flight has an owner: the request that
\* put it there last, until it or its job, or an earlier stray, discards it.
HasOwner == inflight => \E r \in Request : OwnsKey(r)

LEMMA OwnerNext == TypeOK /\ HasOwner /\ [Next]_vars => HasOwner'
  <1> SUFFICES ASSUME TypeOK, HasOwner, [Next]_vars, inflight'
               PROVE  \E r \in Request : OwnsKey(r)'
    BY DEF HasOwner
  <1> USE DEF OwnsKey
  <1>1. ASSUME NEW r \in Request, Start(r) \/ Lookup(r) \/ Freshness(r) \/ Conditional(r)
                                    \/ Fetch(r) \/ Publish(r) \/ Leave(r)
        PROVE  \E s \in Request : OwnsKey(s)'
    <2>1. /\ inflight' = inflight /\ job' = job /\ pc[r] \notin {"enqueue", "unmark"}
          /\ \A s \in Request \ {r} : pc'[s] = pc[s]
      BY <1>1, ThreadOutside DEF TypeOK
    <2> QED
      BY <2>1 DEF HasOwner
  <1>2. ASSUME NEW r \in Request, Mark(r)
        PROVE  \E s \in Request : OwnsKey(s)'
    <2>1. /\ job' = job /\ pc[r] = "mark" /\ \A s \in Request \ {r} : pc'[s] = pc[s]
          /\ inflight \/ pc'[r] = "enqueue"
      BY <1>2 DEF Mark, Return, Goto, TypeOK
    <2> QED
      BY <2>1 DEF HasOwner
  <1>3. ASSUME NEW r \in Request, Enqueue(r)
        PROVE  \E s \in Request : OwnsKey(s)'
    BY <1>3, Submission
  <1>4. ASSUME NEW r \in Request, Unmark(r) \/ JobFinish(r)
        PROVE  FALSE
    BY <1>4 DEF Unmark, JobFinish
  <1>5. ASSUME NEW r \in Request, JobRequest(r) \/ JobObserve(r) \/ JobPublish(r) \/ JobFail(r)
        PROVE  \E s \in Request : OwnsKey(s)'
    BY <1>5, JobWorks DEF HasOwner
  <1>6. CASE OriginChanges \/ Tick \/ UNCHANGED vars
    BY <1>6 DEF OriginChanges, Tick, vars, HasOwner
  <1> QED
    BY <1>1, <1>2, <1>3, <1>4, <1>5, <1>6 DEF Next, Proceed, JobRun, Terminated

LEMMA SubmittedNext ==
  ASSUME TypeOK, HasOwner, StaleIsSubmitted, [Next]_vars
  PROVE  StaleIsSubmitted'
  <1>1. ASSUME NEW r \in Request, Start(r) \/ Lookup(r) \/ Freshness(r) \/ Conditional(r)
                                    \/ Fetch(r) \/ Publish(r) \/ Leave(r)
        PROVE  StaleIsSubmitted'
    <2>1. \A s \in Request \ {r} : pc'[s] = pc[s] /\ loc'[s] = loc[s] /\ cover'[s] = cover[s]
      BY <1>1 DEF Start, Lookup, Freshness, Conditional, Fetch, Publish, Leave, InFull, Return,
         Goto, TypeOK
    <2>2. ~ReturnsStale(r)'
      <3>1. CASE Start(r) \/ Lookup(r) \/ Conditional(r) \/ Fetch(r) \/ Leave(r)
        BY <3>1 DEF Start, Lookup, Conditional, Fetch, Leave, InFull, Goto, TypeOK, ReturnsStale
      <3>2. CASE Freshness(r) \/ Publish(r)
        <4>1. loc[r] \in Local
          BY DEF TypeOK
        <4> QED
          BY <3>2, <4>1 DEF Freshness, Publish, InFull, Return, Goto, TypeOK, Local, ReturnsStale
      <3> QED
        BY <1>1, <3>1, <3>2
    <2> QED
      BY <2>1, <2>2 DEF StaleIsSubmitted, ReturnsStale
  <1>2. ASSUME NEW r \in Request, Mark(r)
        PROVE  StaleIsSubmitted'
    <2>1. \A s \in Request \ {r} : pc'[s] = pc[s] /\ loc'[s] = loc[s] /\ cover'[s] = cover[s]
      BY <1>2 DEF Mark, Return, Goto, TypeOK
    <2>2. pc'[r] = "return" => cover'[r] # "none"
      <3>1. CASE inflight
        <4>1. PICK s \in Request : pc[s] \in {"enqueue", "unmark"} \/ job[s].st # "none"
          BY <3>1 DEF HasOwner, OwnsKey
        <4>2. Standing # "none"
          BY <4>1 DEF Standing
        <4> QED
          BY <1>2, <3>1, <4>2 DEF Mark, TypeOK
      <3>2. CASE ~inflight
        BY <1>2, <3>2 DEF Mark, Goto, TypeOK
      <3> QED
        BY <3>1, <3>2
    <2> QED
      BY <2>1, <2>2 DEF StaleIsSubmitted, ReturnsStale
  <1>3. ASSUME NEW r \in Request, Enqueue(r)
        PROVE  StaleIsSubmitted'
    <2>1. \A s \in Request \ {r} : pc'[s] = pc[s] /\ loc'[s] = loc[s]
      BY <1>3 DEF Enqueue, Return, Goto, TypeOK
    <2>2. \A s \in Request \ {r} : cover[s] # "none" => cover'[s] # "none"
      BY <1>3 DEF Enqueue, Settle, TypeOK
    <2>3. pc'[r] = "return" => cover'[r] # "none"
      BY <1>3 DEF Enqueue, Return, Goto, Settle, TypeOK
    <2> QED
      BY <2>1, <2>2, <2>3 DEF StaleIsSubmitted, ReturnsStale
  <1>4. ASSUME NEW r \in Request, Unmark(r)
        PROVE  StaleIsSubmitted'
    <2>1. /\ \A s \in Request \ {r} : pc'[s] = pc[s] /\ loc'[s] = loc[s]
          /\ cover' = cover /\ pc'[r] = "fetch"
      BY <1>4 DEF Unmark, InFull, Goto, TypeOK
    <2> QED
      BY <2>1 DEF StaleIsSubmitted, ReturnsStale
  <1>5. ASSUME NEW r \in Request, JobRun(r)
        PROVE  StaleIsSubmitted'
    <2>1. pc' = pc /\ loc' = loc /\ cover' = cover
      BY <1>5 DEF JobRun, JobRequest, JobObserve, JobPublish, JobFail, JobFinish, JobStep
    <2> QED
      BY <2>1 DEF StaleIsSubmitted, ReturnsStale
  <1>6. CASE OriginChanges \/ Tick \/ UNCHANGED vars
    BY <1>6 DEF OriginChanges, Tick, vars, StaleIsSubmitted, ReturnsStale
  <1> QED
    BY <1>1, <1>2, <1>3, <1>4, <1>5, <1>6 DEF Next, Proceed, Terminated

\* A stale result is never handed out on the strength of a key that nobody
\* holds, although refused submissions and strayed jobs discard keys: there is
\* a submission behind it, accepted, undecided, or refused to the request that
\* made it and that executes in full.
THEOREM StaleSubmitted == Spec => []StaleIsSubmitted
  <1>1. Init => HasOwner /\ StaleIsSubmitted
    BY DEF Init, HasOwner, StaleIsSubmitted, ReturnsStale
  <1>2. TypeOK /\ HasOwner /\ StaleIsSubmitted /\ [Next]_vars => StaleIsSubmitted'
    BY SubmittedNext
  <1> QED
    BY <1>1, <1>2, TypeInit, TypeNext, OwnerNext, PTL DEF Spec

-----------------------------------------------------------------------------
\* What is handed out was the origin's content recently enough.

\* The expiry of a record that a producer which runs this program made is no
\* further away than a TTL, and its content was the
\* origin's no longer before its stamp than a job may be late in stamping.
EvidentUntil(v, until) == until <= clock + MaxTtl /\ Since(v, until - MaxTtl - MaxLag)
EvidentResults == \A m \in results : m.by \notin Outside => EvidentUntil(m.ver, m.until)
EvidentValidations ==
  \A w \in validations : w.by \notin Outside => EvidentUntil(w.res.ver, w.until)

\* How long before a request the content of its stale candidate may have gone.
Window(r) == MaxTtl + MaxLag + loc[r].policy.stale

\* What a request knows of the content it holds, by where it stands.
EvidentRequest(r) ==
  /\ loc[r].now <= clock
  /\ loc[r].cand \subseteq results
  /\ \A m \in loc[r].cand : m.by \notin Outside
  /\ \A m, n \in loc[r].cand : m = n
  /\ \A v \in loc[r].got : Since(v, loc[r].now)
  /\ pc[r] = "lookup" => loc[r].status = 0
  /\ loc[r].status = 304 => \A m \in loc[r].cand : Since(m.ver, loc[r].now)
  /\ pc[r] = "publish" => loc[r].got # {} \/ loc[r].status = 304
  /\ pc[r] \in {"mark", "enqueue"} =>
       \A m \in loc[r].cand : Since(m.ver, loc[r].now - Window(r))
  /\ pc[r] = "return" =>
       \A v \in HandedOut(r) : Since(v, loc[r].now - Allowance(r))

\* What a job knows when the response has come, and when it is stamped.
EvidentBy(r, t) ==
  /\ \A v \in job[r].got : Since(v, t)
  /\ job[r].status = 304 => \A m \in job[r].cand : Since(m.ver, t)
EvidentJob(r) ==
  /\ job[r].time <= clock
  /\ \A m, n \in job[r].cand : m = n
  /\ job[r].st = "observe" => clock - job[r].time <= MaxLag /\ EvidentBy(r, job[r].time)
  /\ job[r].st = "publish" => EvidentBy(r, job[r].time - MaxLag)

EvidenceInv ==
  /\ EvidentResults
  /\ EvidentValidations
  /\ \A r \in Request : EvidentRequest(r)
  /\ \A r \in Request : EvidentJob(r)

LEMMA EvidenceInit == Init => EvidenceInv
  <1> SUFFICES ASSUME Init PROVE EvidenceInv
    OBVIOUS
  <1>1. EvidentResults
    <2>1. PICK was \in Version :
            /\ results = {[tier |-> p.tier, by |-> p.by, ver |-> was, at |-> 0, until |-> p.until,
                           validator |-> TRUE] : p \in Preloaded}
            /\ left = [v \in Version |-> IF v = was /\ v # origin THEN 0 ELSE -1]
      BY DEF Init
    <2>2. \A t \in Int : t <= 0 => Since(was, t)
      BY <2>1 DEF Since
    <2>3. ASSUME NEW p \in Preloaded, p.by \notin Outside PROVE EvidentUntil(was, p.until)
      <3>1. p.until \in Nat /\ p.until <= MaxTtl /\ clock \in Nat
        BY <2>3, PreloadedAssumption, TimeAssumption DEF Time, Init
      <3> QED
        BY <2>2, <3>1, TimeAssumption DEF EvidentUntil
    <2> QED
      BY <2>1, <2>3 DEF EvidentResults
  <1>a. EvidentValidations
    BY PreloadedAssumption DEF Init, EvidentValidations
  <1>2. \A r \in Request : EvidentRequest(r) /\ EvidentJob(r)
    BY TimeAssumption DEF Init, EvidentRequest, EvidentJob, NewLocal, NoJob
  <1> QED
    BY <1>1, <1>a, <1>2 DEF EvidenceInv

\* Threads and jobs leave the origin and the clock alone.
LEMMA WorldKept ==
  ASSUME NEW r \in Request, Start(r) \/ Proceed(r) \/ JobRun(r)
  PROVE  origin' = origin /\ left' = left /\ clock' = clock
  <1>1. CASE Start(r) \/ Lookup(r) \/ Freshness(r) \/ Mark(r) \/ Enqueue(r)
    BY <1>1 DEF Start, Lookup, Freshness, Mark, Enqueue, shared
  <1>2. CASE Unmark(r) \/ Conditional(r) \/ Fetch(r) \/ Publish(r) \/ Leave(r)
    BY <1>2 DEF Unmark, Conditional, Fetch, Publish, Leave, shared
  <1>3. CASE JobRun(r)
    BY <1>3 DEF JobRun, JobRequest, JobObserve, JobPublish, JobFail, JobFinish, JobStep
  <1> QED
    BY <1>1, <1>2, <1>3 DEF Proceed

\* Evidence of an instant that has passed is never lost, and it is evidence of
\* every earlier instant.
LEMMA SincePersists ==
  ASSUME TypeOK, [Next]_vars, NEW v \in Version, NEW t \in Int, t <= clock, Since(v, t)
  PROVE  Since(v, t)'
  <1>1. CASE OriginChanges
    BY <1>1 DEF OriginChanges, Since, TypeOK
  <1>2. CASE ~OriginChanges
    <2>1. origin' = origin /\ left' = left
      BY <1>2, WorldKept DEF Next, Tick, Terminated, vars, shared
    <2> QED
      BY <2>1 DEF Since
  <1> QED
    BY <1>1, <1>2

LEMMA SinceEarlier ==
  ASSUME TypeOK, NEW v \in Version, NEW t \in Int, NEW u \in Int, u <= t, Since(v, t)
  PROVE  Since(v, u)
  BY DEF Since, TypeOK

LEMMA ClockAdvances ==
  ASSUME TypeOK, [Next]_vars
  PROVE  clock' >= clock
  <1>1. CASE Tick
    BY <1>1 DEF Tick, TypeOK
  <1>2. CASE ~Tick
    <2>1. clock' = clock
      BY <1>2, WorldKept DEF Next, OriginChanges, Terminated, vars, shared
    <2> QED
      BY <2>1 DEF TypeOK
  <1> QED
    BY <1>1, <1>2

LEMMA UntilPersists ==
  ASSUME TypeOK, TypeOK', [Next]_vars, NEW v \in Version, NEW until \in Time, EvidentUntil(v, until)
  PROVE  EvidentUntil(v, until)'
  <1>1. until \in Int /\ until - MaxTtl - MaxLag \in Int /\ until - MaxTtl - MaxLag <= clock
    BY TimeAssumption DEF EvidentUntil, Time, TypeOK
  <1>2. Since(v, until - MaxTtl - MaxLag)'
    BY <1>1, SincePersists DEF EvidentUntil
  <1>3. until <= clock' + MaxTtl
    <2>1. clock \in Int /\ clock' \in Int /\ clock' >= clock
      BY ClockAdvances DEF TypeOK
    <2>2. until <= clock + MaxTtl /\ MaxTtl \in Int
      BY TimeAssumption DEF EvidentUntil
    <2>3. \A a, b, c, d \in Int : a <= b + d /\ c >= b => a <= c + d
      OBVIOUS
    <2> QED
      BY <1>1, <2>1, <2>2, <2>3
  <1> QED
    BY <1>2, <1>3 DEF EvidentUntil

\* A record stamped t, of content seen no longer before t than MaxLag.
LEMMA StampEvident ==
  ASSUME TypeOK, TypeOK', [Next]_vars, NEW v \in Version, NEW t \in 0..MaxTime, t <= clock,
         NEW ttl \in 0..MaxTtl, Since(v, t - MaxLag)
  PROVE  EvidentUntil(v, t + ttl)'
  <1>1. t + ttl \in Time
    BY TimeAssumption DEF Time
  <1>2. t + ttl <= clock + MaxTtl
    BY TimeAssumption DEF TypeOK
  <1>3. Since(v, t + ttl - MaxTtl - MaxLag)
    <2>1. /\ t - MaxLag \in Int /\ t + ttl - MaxTtl - MaxLag \in Int
          /\ t + ttl - MaxTtl - MaxLag <= t - MaxLag
      BY TimeAssumption
    <2> QED
      BY <2>1, SinceEarlier
  <1>4. EvidentUntil(v, t + ttl)
    <2>1. PICK u \in Int : u = t + ttl
      OBVIOUS
    <2>2. u <= clock + MaxTtl /\ Since(v, u - MaxTtl - MaxLag)
      BY <1>2, <1>3, <2>1, TimeAssumption DEF Since, TypeOK
    <2>3. EvidentUntil(v, u)
      BY <2>2 DEF EvidentUntil
    <2> QED
      BY <2>1, <2>3
  <1> QED
    BY <1>1, <1>4, UntilPersists

LEMMA RecordsEvident ==
  ASSUME TypeOK, TypeOK', EvidenceInv, [Next]_vars
  PROVE  EvidentResults' /\ EvidentValidations'
  <1>1. \A m \in results : m.by \notin Outside => EvidentUntil(m.ver, m.until)'
    <2> SUFFICES ASSUME NEW m \in results, m.by \notin Outside
                 PROVE  EvidentUntil(m.ver, m.until)'
      OBVIOUS
    <2>1. m.ver \in Version /\ m.until \in Time /\ EvidentUntil(m.ver, m.until)
      BY DEF TypeOK, Result, EvidenceInv, EvidentResults
    <2> QED
      BY <2>1, UntilPersists
  <1>2. \A w \in validations : w.by \notin Outside => EvidentUntil(w.res.ver, w.until)'
    <2> SUFFICES ASSUME NEW w \in validations, w.by \notin Outside
                 PROVE  EvidentUntil(w.res.ver, w.until)'
      OBVIOUS
    <2>1. w.res \in Result /\ w.until \in Time /\ EvidentUntil(w.res.ver, w.until)
      BY DEF TypeOK, Validation, EvidenceInv, EvidentValidations
    <2>2. w.res.ver \in Version
      BY <2>1 DEF Result
    <2> QED
      BY <2>1, <2>2, UntilPersists
  <1>3. ASSUME NEW r \in Request, Publish(r)
        PROVE  EvidentResults' /\ EvidentValidations'
    <2>1. /\ loc[r].now \in 0..MaxTime /\ loc[r].now <= clock
          /\ loc[r].got \subseteq Version /\ loc[r].cand \subseteq Result
      BY DEF TypeOK, Local, EvidenceInv, EvidentRequest
    <2>2. PICK t \in 0..MaxTime, ttl \in 0..MaxTtl : t = loc[r].now /\ ttl = Ttl(r)
      BY <2>1, PolicyTypes
    <2>3. t \in Int /\ t - MaxLag \in Int /\ t - MaxLag <= t /\ t <= clock
      BY <2>1, <2>2, TimeAssumption
    <2>4. ASSUME NEW v \in loc[r].got PROVE EvidentUntil(v, t + ttl)'
      <3>1. v \in Version /\ Since(v, t - MaxLag)
        BY <2>1, <2>2, <2>3, SinceEarlier DEF EvidenceInv, EvidentRequest
      <3> QED
        BY <2>3, <3>1, StampEvident
    <2>5. ASSUME loc[r].status = 304, NEW m \in loc[r].cand PROVE EvidentUntil(m.ver, t + ttl)'
      <3>1. m.ver \in Version
        BY <2>1 DEF Result
      <3>2. Since(m.ver, t - MaxLag)
        BY <2>2, <2>3, <2>5, <3>1, SinceEarlier DEF EvidenceInv, EvidentRequest
      <3> QED
        BY <2>3, <3>1, <3>2, StampEvident
    <2>6. ASSUME NEW m \in results', m.by \notin Outside PROVE EvidentUntil(m.ver, m.until)'
      <3>1. m \in results \/ \E v \in loc[r].got, b \in Validator : m = NewResult(r, v, t, ttl, b)
        BY <1>3, <2>2 DEF Publish
      <3> QED
        BY <1>1, <2>4, <2>6, <3>1 DEF NewResult
    <2>7. ASSUME NEW w \in validations', w.by \notin Outside PROVE EvidentUntil(w.res.ver, w.until)'
      <3>1. \/ w \in validations
            \/ loc[r].status = 304 /\ \E m \in loc[r].cand : w = NewValidation(r, m, t, ttl)
        BY <1>3, <2>2 DEF Publish, Validates
      <3> QED
        BY <1>2, <2>5, <2>7, <3>1 DEF NewValidation
    <2> QED
      BY <2>6, <2>7 DEF EvidentResults, EvidentValidations
  <1>4. ASSUME NEW r \in Request, JobPublish(r)
        PROVE  EvidentResults' /\ EvidentValidations'
    <2>1. /\ job[r].time \in 0..MaxTime /\ job[r].time <= clock /\ job[r].ttl \in 0..MaxTtl
          /\ job[r].got \subseteq Version /\ job[r].cand \subseteq Result
      BY DEF TypeOK, Job, EvidenceInv, EvidentJob
    <2>2. EvidentBy(r, job[r].time - MaxLag)
      BY <1>4 DEF JobPublish, JobStep, EvidenceInv, EvidentJob
    <2>3. PICK t \in 0..MaxTime, ttl \in 0..MaxTtl : t = job[r].time /\ ttl = job[r].ttl
      BY <2>1
    <2>4. t <= clock /\ EvidentBy(r, t - MaxLag)
      BY <2>1, <2>2, <2>3
    <2>5. ASSUME NEW v \in job[r].got PROVE EvidentUntil(v, t + ttl)'
      <3>1. v \in Version /\ Since(v, t - MaxLag)
        BY <2>1, <2>4 DEF EvidentBy
      <3> QED
        BY <2>4, <3>1, StampEvident
    <2>6. ASSUME job[r].status = 304, NEW m \in job[r].cand PROVE EvidentUntil(m.ver, t + ttl)'
      <3>1. m.ver \in Version
        BY <2>1 DEF Result
      <3>2. Since(m.ver, t - MaxLag)
        BY <2>4, <2>6 DEF EvidentBy
      <3> QED
        BY <2>4, <3>1, <3>2, StampEvident
    <2>7. ASSUME NEW m \in results', m.by \notin Outside PROVE EvidentUntil(m.ver, m.until)'
      <3>1. m \in results \/ \E v \in job[r].got, b \in Validator : m = NewResult(r, v, t, ttl, b)
        BY <1>4, <2>3 DEF JobPublish
      <3> QED
        BY <1>1, <2>5, <2>7, <3>1 DEF NewResult
    <2>8. ASSUME NEW w \in validations', w.by \notin Outside PROVE EvidentUntil(w.res.ver, w.until)'
      <3>1. \/ w \in validations
            \/ job[r].status = 304 /\ \E m \in job[r].cand : w = NewValidation(r, m, t, ttl)
        BY <1>4, <2>3 DEF JobPublish
      <3> QED
        BY <1>2, <2>6, <2>8, <3>1 DEF NewValidation
    <2> QED
      BY <2>7, <2>8 DEF EvidentResults, EvidentValidations
  <1>5. CASE \A r \in Request : ~Publish(r) /\ ~JobPublish(r)
    <2>1. results' = results /\ validations' = validations
      <3>1. ASSUME NEW r \in Request, Start(r) \/ Proceed(r)
            PROVE  results' = results /\ validations' = validations
        BY <1>5, <3>1 DEF Start, Proceed, Lookup, Freshness, Mark, Enqueue, Unmark,
           Conditional, Fetch, Leave, shared
      <3>2. ASSUME NEW r \in Request, JobRun(r)
            PROVE  results' = results /\ validations' = validations
        BY <1>5, <3>2 DEF JobRun, JobRequest, JobObserve, JobFail, JobFinish
      <3> QED
        BY <3>1, <3>2 DEF Next, OriginChanges, Tick, Terminated, vars, shared
    <2> QED
      BY <1>1, <1>2, <2>1 DEF EvidentResults, EvidentValidations
  <1> QED
    BY <1>3, <1>4, <1>5

LEMMA ResultsGrow ==
  ASSUME [Next]_vars
  PROVE  results \subseteq results'
  <1>1. ASSUME NEW r \in Request, Start(r) \/ Proceed(r) PROVE results \subseteq results'
    BY <1>1 DEF Start, Proceed, Lookup, Freshness, Mark, Enqueue, Unmark, Conditional, Fetch,
       Publish, Leave, shared
  <1>2. ASSUME NEW r \in Request, JobRun(r) PROVE results \subseteq results'
    BY <1>2 DEF JobRun, JobRequest, JobObserve, JobPublish, JobFail, JobFinish
  <1> QED
    BY <1>1, <1>2 DEF Next, OriginChanges, Tick, Terminated, vars, shared

\* The versions and times a request's evidence is about.
LEMMA RequestTerms ==
  ASSUME TypeOK, NEW r \in Request
  PROVE  /\ loc[r].now \in Int /\ loc[r].now \in 0..MaxTime
         /\ Allowance(r) \in Nat /\ Window(r) \in Nat
         /\ loc[r].got \subseteq Version /\ HandedOut(r) \subseteq Version
         /\ \A m \in loc[r].cand : m \in Result /\ m.ver \in Version
  <1>1. loc[r] \in Local
    BY DEF TypeOK
  <1>2. /\ loc[r].now \in Int /\ loc[r].now \in 0..MaxTime
        /\ loc[r].got \subseteq Version /\ loc[r].cand \subseteq Result
    BY <1>1, TimeAssumption DEF Local
  <1>3. \A m \in loc[r].cand : m \in Result /\ m.ver \in Version
    BY <1>2 DEF Result
  <1>4. HandedOut(r) \subseteq Version
    BY <1>2, <1>3 DEF HandedOut
  <1>5. Allowance(r) \in Nat /\ Window(r) \in Nat
    BY PolicyTypes, TimeAssumption DEF Allowance, Window
  <1> QED
    BY <1>2, <1>3, <1>4, <1>5

\* A step that leaves a request alone keeps its evidence.
LEMMA RequestPersists ==
  ASSUME TypeOK, TypeOK', EvidenceInv, [Next]_vars, NEW r \in Request,
         pc'[r] = pc[r], loc'[r] = loc[r]
  PROVE  EvidentRequest(r)'
  <1>1. EvidentRequest(r)
    BY DEF EvidenceInv
  <1>2. PICK t \in 0..MaxTime : t = loc[r].now
    BY RequestTerms
  <1>3. t <= clock /\ t <= clock' /\ clock \in Int
    BY <1>1, <1>2, ClockAdvances DEF EvidentRequest, TypeOK
  <1>4. \A v \in Version, d \in Nat : Since(v, t - d) => Since(v, t - d)'
    <2> SUFFICES ASSUME NEW v \in Version, NEW d \in Nat, Since(v, t - d)
                 PROVE  Since(v, t - d)'
      OBVIOUS
    <2>1. t - d \in Int /\ t - d <= clock
      BY <1>3
    <2> QED
      BY <2>1, SincePersists
  <1>5. \A v \in Version : Since(v, t) => Since(v, t)'
    BY <1>3, SincePersists
  <1>6. PICK d \in Nat : d = Allowance(r)
    BY RequestTerms
  <1>7. HandedOut(r)' = HandedOut(r) /\ loc'[r].now = t /\ Allowance(r)' = d
    BY <1>2, <1>6 DEF HandedOut, Allowance
  <1>a. PICK e \in Nat : e = Window(r) /\ e = Window(r)'
    BY RequestTerms DEF Window
  <1>8. /\ \A v \in loc[r].got : Since(v, t)'
        /\ loc[r].status = 304 => \A m \in loc[r].cand : Since(m.ver, t)'
    BY <1>1, <1>2, <1>5, RequestTerms DEF EvidentRequest
  <1>9. pc[r] \in {"mark", "enqueue"} =>
          \A m \in loc[r].cand : Since(m.ver, t - e)'
    BY <1>1, <1>2, <1>4, <1>a, RequestTerms DEF EvidentRequest
  <1>10. pc[r] = "return" => \A v \in HandedOut(r) : Since(v, t - d)'
    BY <1>1, <1>2, <1>4, <1>6, RequestTerms DEF EvidentRequest
  <1>11. loc[r].cand \subseteq results'
    BY <1>1, ResultsGrow DEF EvidentRequest
  <1> QED
    BY <1>1, <1>2, <1>3, <1>7, <1>a, <1>8, <1>9, <1>10, <1>11 DEF EvidentRequest

\* A step that leaves a job alone keeps its evidence; the clock waits for a
\* job that has its response until it has been stamped.
LEMMA JobPersists ==
  ASSUME TypeOK, TypeOK', EvidenceInv, [Next]_vars, NEW r \in Request, job'[r] = job[r]
  PROVE  EvidentJob(r)'
  <1>1. EvidentJob(r)
    BY DEF EvidenceInv
  <1>2. job[r] \in Job
    BY DEF TypeOK
  <1>3. /\ job[r].time \in 0..MaxTime /\ job[r].got \subseteq Version
        /\ job[r].cand \subseteq Result
    BY <1>2 DEF Job
  <1>4. PICK t \in 0..MaxTime : t = job[r].time
    BY <1>3
  <1>5. t <= clock /\ t <= clock' /\ clock \in Int /\ clock' \in Int
    BY <1>1, <1>4, ClockAdvances DEF EvidentJob, TypeOK
  <1>6. \A m \in job[r].cand : m.ver \in Version
    BY <1>3 DEF Result
  <1>7. ASSUME NEW d \in Nat, EvidentBy(r, t - d) PROVE EvidentBy(r, t - d)'
    <2>1. t - d \in Int /\ t - d <= clock
      BY <1>5
    <2>2. \A v \in Version : Since(v, t - d) => Since(v, t - d)'
      BY <2>1, SincePersists
    <2> QED
      BY <1>3, <1>6, <1>7, <2>2 DEF EvidentBy
  <1>8. job[r].st = "observe" => clock' - t <= MaxLag
    <2>1. CASE Tick
      <3>1. job[r].st = "observe" => clock - t < MaxLag /\ clock' = clock + 1
        BY <1>4, <2>1 DEF Tick
      <3> QED
        BY <1>5, <3>1, TimeAssumption
    <2>2. CASE ~Tick
      <3>1. clock' = clock
        BY <2>2, WorldKept DEF Next, OriginChanges, Terminated, vars, shared
      <3> QED
        BY <1>1, <1>4, <3>1 DEF EvidentJob
    <2> QED
      BY <2>1, <2>2
  <1>9. job[r].st = "observe" => EvidentBy(r, t)'
    <2>1. \A v \in Version : Since(v, t) => Since(v, t)'
      BY <1>5, SincePersists
    <2> QED
      BY <1>1, <1>3, <1>4, <1>6, <2>1 DEF EvidentBy, EvidentJob
  <1>10. job[r].st = "publish" => EvidentBy(r, t - MaxLag)'
    BY <1>1, <1>4, <1>7, TimeAssumption DEF EvidentJob
  <1> QED
    BY <1>1, <1>4, <1>5, <1>8, <1>9, <1>10 DEF EvidentJob

\* The content of a candidate whose boundary is no more than d before t.
LEMMA BoundaryEvident ==
  ASSUME TypeOK, EvidenceInv, NEW m \in results, m.by \notin Outside,
         NEW p, p.validations \cap Outside = {}, NEW b \in Boundaries(m, p),
         NEW t \in 0..MaxTime, NEW d \in Nat, t - b <= d
  PROVE  Since(m.ver, t - (MaxTtl + MaxLag + d))
  <1>1. b \in Time /\ m.ver \in Version
    BY DEF Boundaries, TypeOK, Result, Validation
  <1>2. EvidentUntil(m.ver, b)
    <2>1. CASE b = m.until
      BY <2>1 DEF EvidenceInv, EvidentResults
    <2>2. CASE \E w \in validations : w.res = m /\ w.by \in p.validations /\ b = w.until
      BY <2>2 DEF EvidenceInv, EvidentValidations
    <2> QED
      BY <2>1, <2>2 DEF Boundaries
  <1>3. /\ b - MaxTtl - MaxLag \in Int /\ t - (MaxTtl + MaxLag + d) \in Int
        /\ t - (MaxTtl + MaxLag + d) <= b - MaxTtl - MaxLag
    BY <1>1, TimeAssumption DEF Time
  <1> QED
    BY <1>1, <1>2, <1>3, SinceEarlier DEF EvidentUntil

LEMMA FreshnessEvident ==
  ASSUME TypeOK, EvidenceInv, NEW r \in Request, NEW m \in loc[r].cand
  PROVE  /\ Fresh(m, loc[r].policy, loc[r].now) =>
              Since(m.ver, loc[r].now - (MaxTtl + MaxLag))
         /\ Stale(m, loc[r].policy, loc[r].now) => Since(m.ver, loc[r].now - Window(r))
  <1> DEFINE p == loc[r].policy
             t == loc[r].now
  <1>1. /\ m \in results /\ m.by \notin Outside /\ t \in 0..MaxTime
        /\ p.stale \in Nat /\ p.validations \cap Outside = {}
    BY RequestTerms, PolicyTypes DEF EvidenceInv, EvidentRequest
  <1>2. ASSUME Fresh(m, p, t) PROVE Since(m.ver, t - (MaxTtl + MaxLag))
    <2>1. PICK b \in Boundaries(m, p) : t <= b
      BY <1>2 DEF Fresh
    <2>2. b \in Int
      BY <1>1, TimeAssumption DEF Boundaries, TypeOK, Result, Validation, Time
    <2>3. t - b <= 0
      BY <1>1, <2>1, <2>2
    <2> HIDE DEF p, t
    <2>4. Since(m.ver, t - (MaxTtl + MaxLag + 0))
      BY <1>1, <2>1, <2>3, BoundaryEvident
    <2> QED
      BY <2>4, TimeAssumption
  <1>3. ASSUME Stale(m, p, t) PROVE Since(m.ver, t - (MaxTtl + MaxLag + p.stale))
    <2>1. PICK b \in Boundaries(m, p) : t - b <= p.stale
      BY <1>3 DEF Stale
    <2>2. PICK d \in Nat : d = p.stale
      BY <1>1
    <2> HIDE DEF p, t
    <2> QED
      BY <1>1, <2>1, <2>2, BoundaryEvident
  <1> QED
    BY <1>2, <1>3 DEF Window

LEMMA ThreadEvident ==
  ASSUME TypeOK, TypeOK', EvidenceInv, [Next]_vars, NEW r \in Request, Start(r) \/ Proceed(r)
  PROVE  EvidentRequest(r)'
  <1>1. origin' = origin /\ left' = left /\ clock' = clock /\ results \subseteq results'
    BY ResultsGrow DEF Start, Proceed, Lookup, Freshness, Mark, Enqueue, Unmark, Conditional,
       Fetch, Publish, Leave, shared
  <1>2. loc[r] \in Local /\ EvidentRequest(r)
    BY DEF TypeOK, EvidenceInv
  <1>3. CASE Start(r) \/ Leave(r)
    <2>1. /\ loc'[r].now \in {0, clock} /\ loc'[r].cand = {} /\ loc'[r].got = {}
          /\ loc'[r].status = 0 /\ pc'[r] \in {"idle", "lookup", "fetch"}
      BY <1>3 DEF Start, Leave, NewLocal, Goto, TypeOK
    <2>2. loc'[r].now <= clock'
      BY <1>1, <2>1 DEF TypeOK
    <2> QED
      BY <2>1, <2>2 DEF EvidentRequest
  <1>4. CASE Lookup(r)
    <2>1. /\ loc'[r].now = loc[r].now /\ loc'[r].got = loc[r].got /\ loc'[r].status = 0
          /\ pc'[r] \in {"freshness", "conditional", "fetch"}
      BY <1>2, <1>4 DEF Lookup, InFull, Goto, TypeOK, Local, EvidentRequest
    <2>2. \/ loc'[r].cand = {}
          \/ \E m \in Candidates(loc[r].policy) : loc'[r].cand = {m}
      BY <1>2, <1>4 DEF Lookup, InFull, TypeOK, Local
    <2>3. \A m \in Candidates(loc[r].policy) : m \in results /\ m.by \notin Outside
      BY PolicyTypes DEF Candidates
    <2> QED
      BY <1>1, <1>2, <2>1, <2>2, <2>3 DEF EvidentRequest, Since
  <1>5. CASE Freshness(r)
    <2>1. /\ loc'[r].now = loc[r].now /\ loc'[r].got = loc[r].got
          /\ loc'[r].status = loc[r].status /\ loc'[r].policy = loc[r].policy
      BY <1>2, <1>5 DEF Freshness, InFull, Return, Goto, TypeOK, Local
    <2>2. \/ pc'[r] = "fetch" /\ loc'[r].cand = {}
          \/ /\ pc'[r] = "return" /\ loc'[r].outcome = "fresh_hit" /\ loc'[r].cand = loc[r].cand
             /\ \A m \in loc[r].cand : Fresh(m, loc[r].policy, loc[r].now)
          \/ /\ pc'[r] = "mark" /\ loc'[r].cand = loc[r].cand
             /\ \A m \in loc[r].cand : Stale(m, loc[r].policy, loc[r].now)
      BY <1>2, <1>5 DEF Freshness, InFull, Return, Goto, TypeOK, Local, EvidentRequest
    <2>3. pc'[r] = "return" => \A v \in HandedOut(r)' : Since(v, loc[r].now - Allowance(r)')
      <3>1. pc'[r] = "return" => Allowance(r)' = MaxTtl + MaxLag
        BY <2>2 DEF Allowance
      <3> QED
        BY <2>2, <3>1, FreshnessEvident DEF HandedOut
    <2>4. pc'[r] = "mark" =>
            \A m \in loc'[r].cand : Since(m.ver, loc[r].now - Window(r)')
      BY <2>1, <2>2, FreshnessEvident DEF Window
    <2> QED
      BY <1>1, <1>2, <2>1, <2>2, <2>3, <2>4 DEF EvidentRequest, Since
  <1>6. CASE Mark(r) \/ Enqueue(r) \/ Unmark(r)
    <2>a. CASE Unmark(r)
      <3>1. /\ loc'[r] = [loc[r] EXCEPT !.cand = {}] /\ pc'[r] = "fetch"
        BY <2>a DEF Unmark, InFull, Goto, TypeOK
      <3> QED
        BY <1>1, <1>2, <3>1 DEF EvidentRequest, Since, Local
    <2>b. CASE Mark(r) \/ Enqueue(r)
      <3>1. /\ pc[r] \in {"mark", "enqueue"}
            /\ \/ loc'[r] = loc[r] /\ pc'[r] \in {"enqueue", "unmark"}
               \/ loc'[r] = [loc[r] EXCEPT !.outcome = "stale"] /\ pc'[r] = "return"
        BY <2>b DEF Mark, Enqueue, Return, Goto, TypeOK
      <3>2. /\ loc'[r].now = loc[r].now /\ loc'[r].got = loc[r].got
            /\ loc'[r].status = loc[r].status /\ loc'[r].policy = loc[r].policy
            /\ loc'[r].cand = loc[r].cand
            /\ pc'[r] = "return" => loc'[r].outcome = "stale"
        BY <1>2, <3>1 DEF Local
      <3>3. Window(r)' = Window(r) /\ (pc'[r] = "return" => Allowance(r)' = Window(r))
        BY <3>2 DEF Allowance, Window
      <3>4. pc'[r] = "return" => \A v \in HandedOut(r)' : Since(v, loc[r].now - Allowance(r)')
        BY <1>2, <3>1, <3>2, <3>3 DEF HandedOut, EvidentRequest
      <3> QED
        BY <1>1, <1>2, <3>1, <3>2, <3>3, <3>4 DEF EvidentRequest, Since
    <2> QED
      BY <1>6, <2>a, <2>b
  <1>7. CASE Conditional(r)
    <2>1. /\ loc'[r].now = loc[r].now /\ loc'[r].cand = loc[r].cand
          /\ \/ /\ loc'[r].status = 304 /\ loc'[r].got = loc[r].got
                /\ pc'[r] \in {"fetch", "publish"} /\ \A m \in loc[r].cand : m.ver = origin
             \/ loc'[r].status = 200 /\ loc'[r].got = {origin} /\ pc'[r] = "publish"
      BY <1>2, <1>7 DEF Conditional, Goto, TypeOK, Local, EvidentRequest
    <2> QED
      BY <1>1, <1>2, <2>1 DEF EvidentRequest, Since
  <1>8. CASE Fetch(r)
    <2>1. /\ loc'[r].now = loc[r].now /\ loc'[r].cand = loc[r].cand
          /\ loc'[r].status = loc[r].status /\ loc'[r].got = {origin} /\ pc'[r] = "publish"
      BY <1>2, <1>8 DEF Fetch, Goto, TypeOK, Local
    <2> QED
      BY <1>1, <1>2, <2>1 DEF EvidentRequest, Since
  <1>9. CASE Publish(r)
    <2>1. /\ loc'[r].now = loc[r].now /\ loc'[r].cand = loc[r].cand
          /\ loc'[r].status = loc[r].status /\ loc'[r].got = loc[r].got
          /\ pc[r] = "publish" /\ pc'[r] = "return"
          /\ loc'[r].outcome = IF loc[r].got = {} THEN "conditional_304" ELSE "executed"
      BY <1>2, <1>9 DEF Publish, Return, Goto, TypeOK, Local
    <2>2. \A v \in HandedOut(r)' : Since(v, loc[r].now)
      BY <1>2, <2>1 DEF HandedOut, EvidentRequest
    <2>3. loc[r].now - Allowance(r)' = loc[r].now
      BY <2>1, RequestTerms DEF Allowance
    <2> QED
      BY <1>1, <1>2, <2>1, <2>2, <2>3 DEF EvidentRequest, Since
  <1> QED
    BY <1>3, <1>4, <1>5, <1>6, <1>7, <1>8, <1>9 DEF Proceed

LEMMA JobEvident ==
  ASSUME TypeOK, TypeOK', EvidenceInv, [Next]_vars, NEW r \in Request, JobRun(r)
  PROVE  EvidentJob(r)'
  <1>1. origin' = origin /\ left' = left /\ clock' = clock /\ clock \in Int
    BY DEF JobRun, JobRequest, JobObserve, JobPublish, JobFail, JobFinish, JobStep, TypeOK
  <1>2. job[r] \in Job /\ EvidentJob(r)
    BY DEF TypeOK, EvidenceInv
  <1>3. CASE JobRequest(r)
    <2>1. /\ job'[r].st = "observe" /\ job'[r].time = clock /\ job'[r].cand = job[r].cand
          /\ \/ job'[r].got = {} /\ \E m \in job[r].cand : origin = m.ver
             \/ job'[r].got = {origin} /\ job'[r].status = 200
      <3>1. \/ /\ \E m \in job[r].cand : origin = m.ver
               /\ job'[r] = Answered(job[r], 304, {})
            \/ job'[r] = Answered(job[r], 200, {origin})
        BY <1>3 DEF JobRequest, JobStep, TypeOK
      <3>2. {origin} \in SUBSET Version /\ {} \in SUBSET Version
        BY DEF TypeOK
      <3> QED
        BY <1>2, <3>1, <3>2, JobAnswered
    <2>2. job'[r].status = 304 => \A m \in job'[r].cand : m.ver = origin
      BY <1>2, <2>1 DEF EvidentJob
    <2> QED
      BY <1>1, <1>2, <2>1, <2>2, TimeAssumption DEF EvidentJob, EvidentBy, Since
  <1>4. CASE JobObserve(r)
    <2>1. /\ job[r].st = "observe" /\ job'[r].st = "publish" /\ job'[r].time = clock
          /\ job'[r].got = job[r].got /\ job'[r].cand = job[r].cand
          /\ job'[r].status = job[r].status
      BY <1>4 DEF JobObserve, JobStep, TypeOK, Job
    <2>2. EvidentBy(r, job[r].time) /\ clock - job[r].time <= MaxLag
      BY <1>2, <2>1 DEF EvidentJob
    <2>3. /\ job[r].time \in Int /\ clock - MaxLag \in Int /\ clock - MaxLag <= job[r].time
          /\ job[r].got \subseteq Version /\ job[r].cand \subseteq Result
      BY <1>1, <1>2, <2>2, TimeAssumption DEF Job
    <2>4. \A m \in job[r].cand : m.ver \in Version
      BY <2>3 DEF Result
    <2>5. EvidentBy(r, clock - MaxLag)
      BY <2>2, <2>3, <2>4, SinceEarlier DEF EvidentBy
    <2> QED
      BY <1>1, <1>2, <2>1, <2>5 DEF EvidentJob, EvidentBy, Since
  <1>5. CASE JobPublish(r) \/ JobFail(r) \/ JobFinish(r)
    <2>1. job'[r].st \in {"finish", "none"} /\ job'[r].time = 0 /\ job'[r].cand = {}
      <3>1. /\ Over(r).st = "finish" /\ Over(r).time = 0 /\ Over(r).cand = {}
            /\ NoJob.st = "none" /\ NoJob.time = 0 /\ NoJob.cand = {}
        BY DEF Over, NoJob
      <3>2. job'[r] \in {Over(r), NoJob}
        BY <1>5 DEF JobPublish, JobFail, JobFinish, JobStep, TypeOK
      <3> QED
        BY <3>1, <3>2
    <2> QED
      BY <1>1, <2>1 DEF EvidentJob, TypeOK
  <1> QED
    BY <1>3, <1>4, <1>5 DEF JobRun

LEMMA EnqueueEvident ==
  ASSUME TypeOK, TypeOK', EvidenceInv, [Next]_vars, NEW r \in Request, Enqueue(r)
  PROVE  EvidentJob(r)'
  <1>1. CASE job' = job
    BY <1>1, JobPersists
  <1>2. CASE job' # job
    <2>1. /\ job'[r].st = "queued" /\ job'[r].time = 0
          /\ job'[r].cand = loc[r].cand /\ clock' = clock
      <3>1. PICK b : job'[r] = [NoJob EXCEPT !.st = "queued", !.cand = loc[r].cand,
                                             !.ttl = Ttl(r), !.stray = b]
        BY <1>2 DEF Enqueue, Queue, TypeOK
      <3> QED
        BY <3>1 DEF Enqueue, NoJob, shared
    <2>2. \A m, n \in loc[r].cand : m = n
      BY DEF EvidenceInv, EvidentRequest
    <2> QED
      BY <2>1, <2>2 DEF EvidentJob, TypeOK
  <1> QED
    BY <1>1, <1>2

LEMMA EvidenceNext == TypeOK /\ EvidenceInv /\ [Next]_vars => EvidenceInv'
  <1> SUFFICES ASSUME TypeOK, EvidenceInv, [Next]_vars PROVE EvidenceInv'
    OBVIOUS
  <1>1. TypeOK'
    BY TypeNext
  <1>2. EvidentResults' /\ EvidentValidations'
    BY <1>1, RecordsEvident
  <1>3. ASSUME NEW r \in Request, Start(r) \/ Proceed(r)
        PROVE  \A s \in Request : EvidentRequest(s)' /\ EvidentJob(s)'
    <2>1. EvidentRequest(r)'
      BY <1>1, <1>3, ThreadEvident
    <2>2. \A s \in Request \ {r} : pc'[s] = pc[s] /\ loc'[s] = loc[s] /\ job'[s] = job[s]
      BY <1>3 DEF Start, Proceed, Lookup, Freshness, Mark, Enqueue, Unmark, Conditional,
         Fetch, Publish, Leave, InFull, Return, Queue, Goto, TypeOK
    <2>3. EvidentJob(r)'
      <3>1. CASE Enqueue(r)
        BY <1>1, <3>1, EnqueueEvident
      <3>2. CASE ~Enqueue(r)
        <4>1. job' = job
          BY <1>3, <3>2 DEF Start, Proceed, Lookup, Freshness, Mark, Unmark, InFull, Conditional, Fetch,
             Publish, Leave
        <4> QED
          BY <1>1, <4>1, JobPersists
      <3> QED
        BY <3>1, <3>2
    <2> QED
      BY <1>1, <2>1, <2>2, <2>3, RequestPersists, JobPersists
  <1>4. ASSUME NEW r \in Request, JobRun(r)
        PROVE  \A s \in Request : EvidentRequest(s)' /\ EvidentJob(s)'
    <2>1. EvidentJob(r)'
      BY <1>1, <1>4, JobEvident
    <2>2. pc' = pc /\ loc' = loc /\ \A s \in Request \ {r} : job'[s] = job[s]
      BY <1>4 DEF JobRun, JobRequest, JobObserve, JobPublish, JobFail, JobFinish, JobStep, TypeOK
    <2> QED
      BY <1>1, <2>1, <2>2, RequestPersists, JobPersists
  <1>5. ASSUME OriginChanges \/ Tick \/ UNCHANGED vars
        PROVE  \A s \in Request : EvidentRequest(s)' /\ EvidentJob(s)'
    <2>1. pc' = pc /\ loc' = loc /\ job' = job
      BY <1>5 DEF OriginChanges, Tick, vars
    <2> QED
      BY <1>1, <2>1, RequestPersists, JobPersists
  <1>6. \A s \in Request : EvidentRequest(s)' /\ EvidentJob(s)'
    BY <1>3, <1>4, <1>5 DEF Next, Terminated
  <1> QED
    BY <1>2, <1>6 DEF EvidenceInv

\* Whatever is returned was the origin's content during the request if it was
\* executed or validated, at most a TTL (and a job's lag) before the request
\* for a fresh hit, and max_stale_seconds more for a stale one.
THEOREM FreshAsClaimed == Spec => []AsFreshAsClaimed
  <1>1. TypeOK /\ EvidenceInv => AsFreshAsClaimed
    BY DEF EvidenceInv, EvidentRequest, AsFreshAsClaimed
  <1> QED
    BY <1>1, TypeInit, TypeNext, EvidenceInit, EvidenceNext, PTL DEF Spec
=============================================================================
