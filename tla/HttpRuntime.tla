---------------------------- MODULE HttpRuntime ----------------------------
(***************************************************************************)
(* execute_http_with_policy (runtime.py) for one exact http.fetch action:  *)
(* the threads of a process that request it, the policy file they resolve, *)
(* the single-flight revalidator (revalidation.py) and its background job, *)
(* the stores searched in order, and the origin behind the transport.      *)
(*                                                                         *)
(* The content of a response is the origin's version at that instant.  A   *)
(* result is fresh until produced_at + TTL; a 304 extends it by a separate *)
(* validation record.  Requests stamp records with the time they started,  *)
(* the background job with the time it looked after the response came.     *)
(***************************************************************************)
EXTENDS Integers, FiniteSets, Sequences

CONSTANTS
  Request,      \* threads; each makes one request after the other
  Caller,       \* [Request -> the producer and validation_ttl_seconds it passes]
  Policies,     \* [Request -> what the policy file it passes may resolve to]
  Version,      \* contents of the origin
  Served,       \* the one it serves when the process starts
  Stores,       \* the tiers, a sequence in search order
  PublishTo,    \* the tier that receives results and validations
  Producer,
  Outside,      \* producers that do not run this program: no policy trusts them
  Preloaded,    \* results that are stored when the process starts
  Vouched,      \* validations of them by producers outside
  Validator,    \* whether the origin sends an ETag or Last-Modified
  MaxTtl,       \* the longest TTL that a caller and a policy agree on
  MaxLag,       \* bound: ticks from a background response to the clock read
  StartTime, MaxTime,  \* bounds: first and last clock reading
  MaxStarts,    \* bound: requests in a behaviour
  MaxChanges    \* bound: changes of the origin

Tier == {Stores[i] : i \in DOMAIN Stores}
Time == 0..(MaxTime + MaxTtl)

\* An operation's entry in the policy file: max_validation_ttl_seconds and
\* max_stale_seconds, allowed_tiers, the trusted producers.
Policy == [mode : {"shadow", "conditional", "swr"}, ttl : Nat \ {0}, stale : Nat,
           tiers : SUBSET Tier, results : SUBSET Producer, validations : SUBSET Producer]

\* No policy (kill switch, disabled, unreadable) does not shorten a TTL.
NoPolicy == [mode |-> "none", ttl |-> MaxTtl, stale |-> 0,
             tiers |-> {}, results |-> {}, validations |-> {}]

Least(a, b) == IF a <= b THEN a ELSE b

ASSUME StoreAssumption ==
  /\ PublishTo \in Tier /\ Served \in Version /\ Outside \subseteq Producer
  /\ Caller \in [Request -> [producer : Producer \ Outside, ttl : Nat \ {0}]]
  /\ Validator \subseteq BOOLEAN
ASSUME PolicyAssumption ==
  /\ DOMAIN Policies = Request
  /\ \A r \in Request : \A p \in Policies[r] :
       /\ p \in Policy \cup {NoPolicy}
       /\ (p.results \cup p.validations) \cap Outside = {}
       /\ Least(Caller[r].ttl, p.ttl) <= MaxTtl
ASSUME PreloadedAssumption ==
  /\ Preloaded \subseteq [tier : Tier, by : Producer, until : Time]
  /\ \A p \in Preloaded : p.by \notin Outside => p.until <= MaxTtl
  /\ Vouched \subseteq [tier : Tier, by : Outside, until : Time]
ASSUME TimeAssumption ==
  /\ MaxTtl \in Nat \ {0} /\ MaxLag \in Nat
  /\ MaxTime \in Nat /\ StartTime \in 0..MaxTime
  /\ MaxStarts \in Nat /\ MaxChanges \in Nat

VARIABLES
  origin,       \* the content the origin serves
  clock,
  results,      \* the manifests of this action, over all tiers
  validations,  \* the source-validation records
  inflight,     \* the action digest is in _inflight
  pc,           \* [Request -> where execute_http_with_policy stands]
  loc,          \* [Request -> its local variables]
  job,          \* [Request -> the background job it submitted]
  starts,       \* requests so far
  changes,      \* changes of the origin so far
  left,         \* history: [Version -> when the origin last stopped serving it]
  cover,        \* history: [Request -> what became of the submission it relies on]
  strayed       \* history: a submission has raised after it queued the job

shared == <<origin, clock, results, validations>>
vars == <<shared, inflight, pc, loc, job, starts, changes, left, cover, strayed>>

Result == [tier : Tier, by : Producer, ver : Version, at : Time, until : Time,
           validator : BOOLEAN]
Validation == [tier : Tier, by : Producer, res : Result, until : Time]
Location == {"idle", "lookup", "freshness", "mark", "enqueue", "unmark", "conditional",
             "fetch", "publish", "return"}
Outcome == {"none", "executed", "fresh_hit", "stale", "conditional_304"}
Local == [policy : Policy \cup {NoPolicy}, now : 0..MaxTime, cand : SUBSET Result,
          got : SUBSET Version, status : {0, 200, 304}, outcome : Outcome]
JobState == {"none", "queued", "observe", "publish", "finish"}
Job == [st : JobState, cand : SUBSET Result, got : SUBSET Version, status : {0, 200, 304},
        time : 0..MaxTime, ttl : 0..MaxTtl, stray : BOOLEAN]
Cover == {"none", "open", "accepted", "refused"}

NoJob == [st |-> "none", cand |-> {}, got |-> {}, status |-> 0, time |-> 0, ttl |-> 0,
          stray |-> FALSE]
NewLocal(p, t) ==
  [policy |-> p, now |-> t, cand |-> {}, got |-> {}, status |-> 0, outcome |-> "none"]

TypeOK ==
  /\ origin \in Version
  /\ clock \in 0..MaxTime
  /\ results \subseteq Result
  /\ validations \subseteq Validation
  /\ inflight \in BOOLEAN
  /\ pc \in [Request -> Location]
  /\ loc \in [Request -> Local]
  /\ \A r \in Request : loc[r].policy \in Policies[r] \cup {NoPolicy}
  /\ job \in [Request -> Job]
  /\ starts \in 0..MaxStarts
  /\ changes \in 0..MaxChanges
  /\ left \in [Version -> -1..MaxTime]
  /\ cover \in [Request -> Cover]
  /\ strayed \in BOOLEAN

\* Earlier requests stored the content the origin had at time 0, which it may
\* have left at once; producers outside vouch for anything.
Init ==
  /\ origin = Served
  /\ clock = StartTime
  /\ \E was \in Version :
       /\ results = {[tier |-> p.tier, by |-> p.by, ver |-> was, at |-> 0, until |-> p.until,
                       validator |-> TRUE] : p \in Preloaded}
       /\ left = [v \in Version |-> IF v = was /\ v # origin THEN 0 ELSE -1]
  /\ validations = {[tier |-> w.tier, by |-> w.by, res |-> m, until |-> w.until] :
                      w \in Vouched, m \in results}
  /\ inflight = FALSE
  /\ pc = [r \in Request |-> "idle"]
  /\ loc = [r \in Request |-> NewLocal(NoPolicy, 0)]
  /\ job = [r \in Request |-> NoJob]
  /\ starts = 0 /\ changes = 0
  /\ cover = [r \in Request |-> "none"]
  /\ strayed = FALSE

-----------------------------------------------------------------------------
\* candidate_for_revalidation goes through all stores in order and each store's
\* candidates newest first, and passes over a store that cannot be read and a
\* result that fails integrity or is invalidated: any stored result of a
\* trusted producer may be what it comes to.
Candidates(p) == {m \in results : m.by \in p.results}

\* Mutant of Boundaries: whoever vouches extends the boundary.
BoundariesOfAnyone(m, p) ==
  {m.until} \cup {v.until : v \in {w \in validations : w.res = m /\ w.tier = m.tier}}

\* _latest_trusted_freshness: the validations in the candidate's tier, by
\* producers that the policy trusts for them.
Boundaries(m, p) ==
  {m.until} \cup
  {v.until : v \in {w \in validations : w.res = m /\ w.tier = m.tier /\ w.by \in p.validations}}

\* Fresh at time t, or expired by no more than max_stale_seconds.
Fresh(m, p, t) == \E b \in Boundaries(m, p) : t <= b
Stale(m, p, t) == \E b \in Boundaries(m, p) : t - b <= p.stale

Goto(r, to) == pc' = [pc EXCEPT ![r] = to]
Return(r, outcome) ==
  /\ Goto(r, "return")
  /\ loc' = [loc EXCEPT ![r].outcome = outcome]
InFull(r) ==
  /\ Goto(r, "fetch")
  /\ loc' = [loc EXCEPT ![r].cand = {}]

\* The TTL of a request: its caller's, capped by its policy.
Ttl(r) == Least(Caller[r].ttl, loc[r].policy.ttl)

NewResult(r, v, t, ttl, b) ==
  [tier |-> PublishTo, by |-> Caller[r].producer, ver |-> v, at |-> t, until |-> t + ttl,
   validator |-> b]

NewValidation(r, m, t, ttl) ==
  [tier |-> PublishTo, by |-> Caller[r].producer, res |-> m, until |-> t + ttl]

-----------------------------------------------------------------------------
\* Resolve the policy, a file that may have been edited since the last request,
\* and read the clock.  Without a policy, or with an authorization partition
\* it refuses, the request executes in full.  (A thread whose own job is still
\* running asks under another name.)
Start(r) ==
  /\ pc[r] = "idle" /\ job[r].st = "none"
  /\ starts < MaxStarts
  /\ starts' = starts + 1
  /\ \E p \in Policies[r] :
       /\ loc' = [loc EXCEPT ![r] = NewLocal(p, clock)]
       /\ \/ Goto(r, "fetch")
          \/ p.mode # "none" /\ Goto(r, "lookup")
  /\ UNCHANGED <<shared, inflight, job, left, cover, changes, strayed>>

\* What each mode asks of a candidate before it goes on with it.  Shadow mode
\* takes it from any tier; what stale-while-revalidate asks besides its tier
\* comes after the freshness.
Usable(r, m) ==
  LET p == loc[r].policy IN
  /\ p.mode # "shadow" => m.tier \in p.tiers
  /\ p.mode = "conditional" => Caller[r].producer \in p.validations
  /\ p.mode # "swr" => m.validator

\* Find a candidate, or execute in full: there is none, or it is not usable.
Lookup(r) ==
  /\ pc[r] = "lookup"
  /\ \/ InFull(r)
     \/ \E m \in Candidates(loc[r].policy) :
          /\ Usable(r, m)
          /\ loc' = [loc EXCEPT ![r].cand = {m}]
          /\ Goto(r, IF loc[r].policy.mode = "swr" THEN "freshness" ELSE "conditional")
  /\ UNCHANGED <<shared, inflight, job, left, cover, starts, changes, strayed>>

\* What a stale result needs besides: a validator to revalidate with, and a
\* producer trusted for both answers the origin may give.
Refreshable(r, m) ==
  /\ m.validator
  /\ Caller[r].producer \in loc[r].policy.validations \cap loc[r].policy.results

\* stale-while-revalidate: a fresh hit, an eligible stale result, or a full
\* execution (window exceeded, validations that cannot be read, not
\* refreshable, no coordinator, no publish store).
Freshness(r) ==
  /\ pc[r] = "freshness"
  /\ \/ InFull(r)
     \/ \E m \in loc[r].cand :
          \/ Fresh(m, loc[r].policy, loc[r].now) /\ Return(r, "fresh_hit")
          \/ /\ ~Fresh(m, loc[r].policy, loc[r].now) /\ Stale(m, loc[r].policy, loc[r].now)
             /\ Refreshable(r, m)
             /\ Goto(r, "mark") /\ UNCHANGED loc
  /\ UNCHANGED <<shared, inflight, job, left, cover, starts, changes, strayed>>

\* Mutant of Mark: membership is tested, but not under the lock that adds.
MarkUnchecked(r) ==
  /\ pc[r] = "mark"
  /\ inflight' = TRUE
  /\ Goto(r, "enqueue")
  /\ UNCHANGED <<shared, loc, job, left, cover, starts, changes, strayed>>

\* Mutant of Mark: a coalesced request does not see what it coalesces with.
MarkIgnoresOwner(r) ==
  /\ pc[r] = "mark"
  /\ Return(r, "stale")
  /\ UNCHANGED <<shared, inflight, job, left, cover, starts, changes, strayed>>

\* The submission that put the key in flight is undecided, has raised, or was
\* accepted.
Standing ==
  IF \E s \in Request : pc[s] = "enqueue" THEN "open"
  ELSE IF \E s \in Request : pc[s] = "unmark" THEN "refused"
  ELSE IF \E s \in Request : job[s].st # "none" THEN "accepted" ELSE "none"

\* submit, first critical section: coalesce with the key in flight or add it.
Mark(r) ==
  /\ pc[r] = "mark"
  /\ IF inflight
     THEN /\ Return(r, "stale")
          /\ cover' = [cover EXCEPT ![r] = Standing]
          /\ UNCHANGED inflight
     ELSE /\ inflight' = TRUE
          /\ Goto(r, "enqueue")
          /\ UNCHANGED <<loc, cover>>
  /\ UNCHANGED <<shared, job, left, starts, changes, strayed>>

\* The submission is decided, for those too that have coalesced with it.
Settle(decision) ==
  [s \in Request |-> IF cover[s] = "open" THEN decision ELSE cover[s]]

\* The executor has the job of r in its queue.
Queue(r, stray) ==
  job' = [job EXCEPT ![r] = [NoJob EXCEPT !.st = "queued", !.cand = loc[r].cand,
                                          !.ttl = Ttl(r), !.stray = stray]]

\* executor.submit accepts the job, or raises: before it has queued the job, as
\* it always does once shutdown was called, or after (no thread can be started).
Enqueue(r) ==
  /\ pc[r] = "enqueue"
  /\ \/ /\ Queue(r, FALSE)
        /\ cover' = [Settle("accepted") EXCEPT ![r] = "accepted"]
        /\ Return(r, "stale")
        /\ UNCHANGED strayed
     \/ /\ cover' = Settle("refused")
        /\ Goto(r, "unmark")
        /\ \/ UNCHANGED <<job, strayed>>
           \/ Queue(r, TRUE) /\ strayed' = TRUE
        /\ UNCHANGED loc
  /\ UNCHANGED <<shared, inflight, left, starts, changes>>

\* The exception path of submit; the request then executes in full.
Unmark(r) ==
  /\ pc[r] = "unmark"
  /\ inflight' = FALSE
  /\ InFull(r)
  /\ UNCHANGED <<shared, job, left, cover, starts, changes, strayed>>

\* conditional_get with the candidate's validators: 304 only while the origin
\* still serves that content.  A 304 is published as a validation record and
\* substitutes the candidate; in shadow mode the content is fetched as well.
Conditional(r) ==
  /\ pc[r] = "conditional"
  /\ \E m \in loc[r].cand :
       \/ /\ origin = m.ver
          /\ loc' = [loc EXCEPT ![r].status = 304]
          /\ Goto(r, IF loc[r].policy.mode = "shadow" THEN "fetch" ELSE "publish")
       \/ /\ loc' = [loc EXCEPT ![r].status = 200, ![r].got = {origin}]
          /\ Goto(r, "publish")
  /\ UNCHANGED <<shared, inflight, job, left, cover, starts, changes, strayed>>

\* execute_http_fetch.
Fetch(r) ==
  /\ pc[r] = "fetch"
  /\ loc' = [loc EXCEPT ![r].got = {origin}]
  /\ Goto(r, "publish")
  /\ UNCHANGED <<shared, inflight, job, left, cover, starts, changes, strayed>>

\* Whether the request publishes a validation of its candidate: a conditional
\* 304, or one that shadow mode has seen to match the fetched content.
Validates(r) ==
  /\ loc[r].status = 304
  /\ loc[r].policy.mode = "shadow" => \E m \in loc[r].cand : loc[r].got = {m.ver}

\* Publish what was learnt, stamped with the time the request started.
Publish(r) ==
  /\ pc[r] = "publish"
  /\ IF Validates(r)
     THEN /\ validations' = validations \cup
                {NewValidation(r, m, loc[r].now, Ttl(r)) : m \in loc[r].cand}
          /\ UNCHANGED results
     ELSE /\ \E b \in Validator :
               results' = results \cup {NewResult(r, v, loc[r].now, Ttl(r), b) : v \in loc[r].got}
          /\ UNCHANGED validations
  /\ Return(r, IF loc[r].got = {} THEN "conditional_304" ELSE "executed")
  /\ UNCHANGED <<origin, clock, inflight, job, left, cover, starts, changes, strayed>>

\* The outcome reaches the caller, or an exception does: the transport, the
\* store or an unexpected status.
Leave(r) ==
  /\ pc[r] \in {"conditional", "fetch", "publish", "return"}
  /\ Goto(r, "idle")
  /\ loc' = [loc EXCEPT ![r] = NewLocal(NoPolicy, 0)]
  /\ cover' = [cover EXCEPT ![r] = "none"]
  /\ UNCHANGED <<shared, inflight, job, left, starts, changes, strayed>>

-----------------------------------------------------------------------------
\* The background job, revalidate_http_candidate inside guarded().  An
\* exception at any point publishes nothing and goes on to the finally block.
JobStep(r, st, next) ==
  /\ job[r].st = st
  /\ job' = [job EXCEPT ![r] = next]
  /\ UNCHANGED <<origin, clock, pc, loc, left, cover, starts, changes, strayed>>

\* The conditional request and the origin's answer to it.
Answered(j, status, got) ==
  [j EXCEPT !.st = "observe", !.status = status, !.got = got, !.time = clock]

JobRequest(r) ==
  /\ \/ \E m \in job[r].cand :
          origin = m.ver /\ JobStep(r, "queued", Answered(job[r], 304, {}))
     \/ JobStep(r, "queued", Answered(job[r], 200, {origin}))
  /\ UNCHANGED <<results, validations, inflight>>

\* observed_at, read after the answer came.
JobObserve(r) ==
  /\ JobStep(r, "observe", [job[r] EXCEPT !.st = "publish", !.time = clock])
  /\ UNCHANGED <<results, validations, inflight>>

\* What is left to do is the finally block.
Over(r) == [NoJob EXCEPT !.st = "finish", !.stray = job[r].stray]

JobPublish(r) ==
  /\ JobStep(r, "publish", Over(r))
  /\ IF job[r].status = 304
     THEN /\ validations' = validations \cup
                {NewValidation(r, m, job[r].time, job[r].ttl) : m \in job[r].cand}
          /\ UNCHANGED results
     ELSE /\ \E b \in Validator :
               results' = results \cup
                 {NewResult(r, v, job[r].time, job[r].ttl, b) : v \in job[r].got}
          /\ UNCHANGED validations
  /\ UNCHANGED inflight

\* Mutant of JobFail: a failed revalidation is tried again in the same job.
JobFailRetries(r) ==
  /\ \E st \in {"queued", "observe", "publish"} :
       JobStep(r, st, [job[r] EXCEPT !.st = "queued", !.got = {}, !.status = 0, !.time = 0])
  /\ UNCHANGED <<results, validations, inflight>>

JobFail(r) ==
  /\ \E st \in {"queued", "observe", "publish"} : JobStep(r, st, Over(r))
  /\ UNCHANGED <<results, validations, inflight>>

\* finally: discard the key.
JobFinish(r) ==
  /\ JobStep(r, "finish", NoJob)
  /\ inflight' = FALSE
  /\ UNCHANGED <<results, validations>>

JobRun(r) ==
  JobRequest(r) \/ JobObserve(r) \/ JobPublish(r) \/ JobFail(r) \/ JobFinish(r)

-----------------------------------------------------------------------------
\* The environment: the origin and the clock.
OriginChanges ==
  /\ changes < MaxChanges
  /\ changes' = changes + 1
  /\ origin' \in Version \ {origin}
  /\ left' = [left EXCEPT ![origin] = clock]
  /\ UNCHANGED <<clock, results, validations, inflight, pc, loc, job, cover, starts,
                 strayed>>

Tick ==
  /\ clock < MaxTime
  /\ \A r \in Request : job[r].st = "observe" => clock - job[r].time < MaxLag
  /\ clock' = clock + 1
  /\ UNCHANGED <<origin, results, validations, inflight, pc, loc, job, left, cover, starts,
                 changes, strayed>>

\* What a thread does by itself once a request has started.
Proceed(r) ==
  \/ Lookup(r) \/ Freshness(r) \/ Mark(r) \/ Enqueue(r) \/ Unmark(r)
  \/ Conditional(r) \/ Fetch(r) \/ Publish(r) \/ Leave(r)

\* No more requests come, and a job without a thread may stay in the queue.
Terminated ==
  /\ starts = MaxStarts
  /\ \A r \in Request : pc[r] = "idle" /\ (job[r].st = "none" \/ job[r].stray)
  /\ UNCHANGED vars

Next ==
  \/ \E r \in Request : Start(r) \/ Proceed(r) \/ JobRun(r)
  \/ OriginChanges \/ Tick \/ Terminated

Spec == Init /\ [][Next]_vars

\* The threads of the requests and of the executor are scheduled, and the
\* transport answers or times out.  Whether a thread takes up a job whose
\* submission raised is not known.
Fairness ==
  \A r \in Request : WF_vars(Proceed(r)) /\ WF_vars(~job[r].stray /\ JobRun(r))
FairSpec == Spec /\ Fairness

-----------------------------------------------------------------------------
\* A request is between adding the key and handing it to the executor, or its
\* job has not discarded the key yet.
OwnsKey(r) == pc[r] \in {"enqueue", "unmark"} \/ job[r].st # "none"

\* Until a submission raises after it has queued its job, which then runs
\* without the key, at most one revalidation of the action is under way,
\* counting those about to be submitted, and the key is in flight exactly as
\* long as there is one: neither a failing job nor a refused submission leaks
\* or drops the key.
SingleFlight == ~strayed =>
  /\ \A r, s \in Request : OwnsKey(r) /\ OwnsKey(s) => r = s
  /\ inflight <=> \E r \in Request : OwnsKey(r)

ReturnsStale(r) == pc[r] = "return" /\ loc[r].outcome = "stale"

\* A request about to hand out a stale result relies on a submission that was
\* accepted or is undecided, or it coalesced with one that then raised: never
\* on a key that nobody holds, or on nothing.
StaleIsSubmitted == \A r \in Request : ReturnsStale(r) => cover[r] # "none"

\* stale-while-revalidate-v1.md, section 2: "A stale result without scheduled or
\* coalesced revalidation must never be returned."  Once the submission a
\* request coalesced with has raised, nothing is scheduled for it.
StaleIsCovered == \A r \in Request : ReturnsStale(r) => cover[r] \in {"open", "accepted"}

\* The content a request is about to return; content v was the origin's at
\* some instant not before t.
HandedOut(r) ==
  IF loc[r].outcome = "executed" THEN loc[r].got ELSE {m.ver : m \in loc[r].cand}
Since(v, t) == v = origin \/ left[v] >= t

\* How long before the request the content handed out may have gone.  Records
\* keep the TTL of the policy they were written under, the window is that of
\* the request's own policy.
Allowance(r) ==
  IF loc[r].outcome = "fresh_hit" THEN MaxTtl + MaxLag
  ELSE IF loc[r].outcome = "stale" THEN MaxTtl + MaxLag + loc[r].policy.stale ELSE 0

\* The content handed out was the origin's at some instant recent enough for
\* the outcome reported with it: during the request if it was executed or
\* validated, and at most one TTL (plus max_stale_seconds) before the request
\* started if it was substituted, although requests, background jobs, policy
\* edits and the origin interleave freely between reading, stamping and
\* publishing, and although others vouch for the result.
AsFreshAsClaimed ==
  \A r \in Request : pc[r] = "return" =>
    \A v \in HandedOut(r) : Since(v, loc[r].now - Allowance(r))

\* A key in flight is released, so that a later stale request revalidates.
KeyReleased == inflight ~> ~inflight
=============================================================================
