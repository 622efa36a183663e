# OnceMesh: a TLA+ verification project

OnceMesh (Python, `src/src/oncemesh`) reuses the results of operations instead
of running them again. Results are immutable, named by digests and kept in
content-addressed stores; a lookup may return one only under a policy. Several
threads, processes and hosts share the same files, and hardly anything is
deleted, so the questions worth asking are about interleavings, stale reads,
crashes between two writes, and about what a returned result rests on.

This directory models the stateful parts of OnceMesh in TLA+, checks them with
TLC on small instances, and proves every safety property of the passing runs
with TLAPS for every value of the constants. `PROJECT.json` lists components, runs,
mutants, the map from definitions to source lines, findings, hazards and
theorems.

## 1. Inventory

| Component (source) | State it keeps | Operations | Modelled by |
|---|---|---|---|
| Process file lock (`coordination.py`) | an `RLock` per path and process, an advisory lock on a file | `with ProcessFileLock(...)`: enter with a deadline, body, exit | `ProcessFileLock`, `ExclusiveLock` |
| Active-key index and indexed adapter (`integrations/index.py`) | key → generation, publication id, active flag (memory, JSON file or SQLite) over immutable objects | `put`, `get`, `get_all`, `delete`, `clear`, `prepare_put`, `activate` | `IndexedCache`, `MutableKV` |
| Execution-cache bridge, epoch registry (`execution_cache.py`, `integrations/base.py`) | bridge-wide and per-namespace clear epochs in one file; results in a store | `get`, `set`, `get_or_execute`, `clear`, `set_enabled` | `ExecutionCache` |
| HTTP policy runtime and revalidation (`runtime.py`, `revalidation.py`, `conditional.py`) | results, validations, keys in flight, background jobs | `execute_http_with_policy` in all modes, `submit`, the background job, `shutdown` | `HttpRuntime` |
| Result store and lookup (`store.py`, `cache.py`) | blobs, results, action index, validations, invalidations, one file each | `publish_result`, `put_validation`, `publish_invalidation`, `reuse`, `candidate_for_revalidation` | `ResultStore` |
| Deterministic policy runtime (`runtime.py`, `policy.py`, `key_registry.py`, `receipt.py`, `shadow.py`) | policy file, kill switch, key registry file, receipts | `execute_deterministic_with_policy`, `run_shadow`, `publish_signed_result` | `ExactSubstitution` |
| Federation between origin and receiver (`federation.py`, `federation_pilot.py`, client of `federation_http.py`) | the origin's manifest and the catalog it loaded from it; the receiver's leased cache, one file per entry and per blob | `package`, `withdraw`, `serve`, `probe`; `import_from_peer`; `import_bundle`, `prune`, `candidates`, `get_blob`, `summary`, `lease_until` | `FederationImport` |
| Federation HTTP server (`federation_http.py`) | request slots, remembered nonces, a deque of request times per peer | `do_GET`: take a slot, authenticate, ask the limiter, answer, give the slot back | `FederationServer` |
| Evaluation runs and their log (`evaluation.py`, `metrics.py`, `shadow.py`, `conditional.py`) | results and validations in a store, a file of JSON lines | `run_evaluation`, `run_pdf_evaluation`, `run_revalidation_evaluation`, `record`, `read_jsonl`, the reports' completeness check | `Evaluation` |
| Encoding, digests, document checks (`canonical.py`, `document_validation.py`) | none | pure functions | abstract identities in the modules that use them |
| Discovery (`discovery.py`), adapters (`adapters/`), framework glue (`integrations/langchain.py`, ...), organization pilot and reports (`organization_pilot.py`, `mesh_status.py`) | none shared | pure transformations, network I/O, scripts | not modelled |

How they interact:

* The index (JSON back end) and the epoch registry do every read-change-replace
  of their file inside a `ProcessFileLock`. `IndexedCache` and `ExecutionCache`
  use a lock with one holder, which is what `ExclusiveLock` promises and
  `ProcessFileLock` is shown to implement.
* The indexed adapter publishes through the bridge, and the bridge through
  `publish_result` and `reuse`. `IndexedCache` and `ExecutionCache` therefore
  take a publication and a lookup as one step each; `ResultStore` has the steps.
* Both policy runtimes re-read the policy file for each call, look candidates up
  with `reuse` or `candidate_for_revalidation`, and publish what they executed.
* The HTTP runtime hands stale-while-revalidate work to the single-flight
  revalidator, a thread pool of the same process.
* A federation receiver asks an origin twice, for its availability and for one
  bundle; `FederationServer` is the origin's side of each request,
  `FederationImport` the exchange and what becomes of its result. The leased
  cache has a thread lock of its own, not a `ProcessFileLock`.
* Evaluation runs are processes that share a store and append to one log; they
  call `run_shadow` and `run_conditional_http_shadow`, not the policy runtimes.

What is hard here, component by component, and what makes it correct:

* **Lock**: two locks of different kinds and one deadline, failures between
  them, crashes, a thread nested in its own lock. Correct: one body at a time,
  the file lock given back on every path and the `RLock` on every path but an
  exception of `close()`, every attempt ends.
* **Index**: whole-file replacement, publication before activation, readers
  outside the lock, crashes in between. Correct: no lost update, no revision
  comes back, the adapter behaves as an atomic map.
* **Bridge**: nothing is deleted, so a clear is only as good as the epochs.
  Correct: a cleared identity never comes back; a get serves nothing cleared
  before it began.
* **HTTP runtime**: decisions made on a candidate read earlier, coalescing,
  submissions that raise, policies edited between requests, two clocks. Correct:
  one revalidation at a time, no stale result without a submission behind it,
  content as fresh as claimed.
* **Store and lookup**: a publication is many files, a lookup reads many files
  without a lock, lineage is a graph with limits. Correct: the action index
  always resolves; a hit is admissible through its whole lineage.
* **Deterministic runtime**: five sources read at five moments. Correct: a
  substitution rests only on what was true during that very call.
* **Federation server**: clocks are read before a lock is taken, so the tables
  are changed with old and unordered readings; signed requests are replayed;
  every limit can be full. Correct: a nonce is remembered for its whole time, no
  window admits more than its limit, a refusal has a cause, slots come back.
* **Federation import**: two requests to an origin that is edited and restarted
  between them, late answers, leases, shared blobs, crashes between two files,
  readers that prune and then read. Correct: entries have their blobs, what is
  leased stays and what is over is not read, only what was offered and is
  allowed is admitted.
* **Evaluation**: runs that die anywhere, in a line of the log too, and are
  repeated under the same id while sources change. Correct: the reader loses
  nothing it accepts, the log never claims what the store does not hold, a
  report that says complete is.

The hazards, each at its line, are listed in `PROJECT.json`.

## 2. Plan

Done, in this order, the most shared part first: `ProcessFileLock` (against
`ExclusiveLock`), `IndexedCache` (against `MutableKV`), `ExecutionCache`,
`HttpRuntime`, `ResultStore`, `ExactSubstitution`, `FederationServer`,
`FederationImport` and `Evaluation`, each with its proofs. Every safety property
that a passing run checks, both refinements included, is also a theorem.

Left:

1. A composition of `ExecutionCache` with the steps of `ResultStore` in place of
   its one-step publication and lookup, as a refinement.
2. Several processes over one leased cache (`prune_receiver_cache` run beside a
   receiver). The code documents the cache as single-process, so the properties
   to state first are those that survive it.
3. Measures like `Remaining` of the lookup for the other calls that must end: a
   call of `ExactSubstitution`, a request of `HttpRuntime`, the holder of the
   leased cache's lock.

Abstract specifications: `ExclusiveLock` (at most one holder; a crash frees it)
and `MutableKV` (each adapter call takes effect at one instant or not at all).

## 3. Modules

Each specification module but the two abstract ones has a `MC` module with
constants for TLC and a `...Proofs` module; `ProcessFileLock` and `Evaluation`,
the two modules about a plain file that processes share, have one in common,
`SharedFileProofs`, for which the names of `Evaluation` (`EvaluationInit`,
`EvaluationNext`, `EvaluationSpec`, `EvaluationTypeOK`, `stage`) are kept apart
from those of the lock. The type invariant of each module is a theorem
(`TypeCorrect`, `EvaluationTypes`). Definitions named `...Early`,
`...Cached`, `...Unlocked` and the like, marked as mutants, are plausible slips
in the code; no run uses them as they stand, and each is a change under which a
property is seen to fail.

**ProcessFileLock.** One with-statement is a pair of thread and nesting depth.
`Enter`, `ThreadAcquire`/`ThreadTimeout` (the `RLock`), `Open`, `TryLock`/
`TryFail`/`Wake` (polling `flock`), `Cleanup`, `Unlock` and `ExitFinally` are
the lines of `__enter__` and `__exit__`; opening, locking, unlocking and closing
the file each have a disjunct in which they raise. `Cleanup` and `ExitFinally`
close the file before they release the `RLock` (`LetGo`), so an exception of
`close()` skips the release: the file lock is gone with the descriptor, the
`RLock` stays held in that process until it ends. `kept` counts these skipped
releases, `MaxKept` bounds them. A crash frees what the operating system frees.

**IndexedCache.** `Acquire`, `Read`, `Publish`, `Commit`, `Unlock` are the write
path of all mutations, `List`, `ReadRevision`, `Lookup`, `Return` the read path.
`LockedReads` chooses between JSON (readers lock) and SQLite (readers do not).
`Fail` and `Crash` may come at any step. `MayDisable` allows `set_enabled` while
a call of the same bridge runs; between calls it is always allowed.

**ExecutionCache.** A key's identity is the key with two epochs. `ReadEpochs`,
`Lookup`, `Execute`, `Publish` are `get`, `set` and `get_or_execute`; `Acquire`,
`Read`, `Write`, `Unlock` the rotation of a clear. History variables remember
what a committed clear retired.

**HttpRuntime.** Threads take `Start`, `Lookup`, `Freshness`, then `Mark`,
`Enqueue`, `Unmark` (submission), `Conditional`, `Fetch`, `Publish`, `Leave`;
the job takes `JobRequest`, `JobObserve`, `JobPublish`, `JobFail`, `JobFinish`.
`Start` resolves the thread's policy file to any of its `Policies`: the file is
read once per request and may be edited between two. A policy has its mode, its
cap on the TTL, its staleness window, its tiers and the producers it trusts for
results and for validations; the TTL of a record is the least of the caller's
and the policy's (`Ttl`). `Lookup` may come to any stored result of a trusted
producer: the walk of `cache.py:382-401` passes over stores that cannot be read
and candidates it rejects and goes on to older ones and to the next tier, and
`ResultStore` has its steps. Tiers restrict the conditional and the
stale-while-revalidate mode, not the shadow mode. `Boundaries` counts the
validations by producers the policy trusts for them, in the candidate's own
tier. `Outside` producers do not run this program and vouch for what they like;
that no policy trusts them is an assumption (`PolicyAssumption`). `Enqueue` may
raise before the executor has queued the job, as after a shutdown, or after (no
thread can be started); such a job is a stray, which a worker may take up or
not (`strayed`). `left` is the history of when the origin stopped serving a
content, which gives freshness its meaning, and `cover` of what became of the
submission that a stale answer relies on. A publish store is
taken to be configured.

**ResultStore.** What manifests say is constant, where they are stored is state.
`Publishable` and `Recordable` bound which results publishers put where and which
of them somebody validates or invalidates.
`PutBlob`, `PutResult`, `PutAction` are the files of a publication, each step
may be the last (`Abandon`). The lookup has its call stack as state: `Start`,
`Scan`, `Pick`, `Visit`, `Freshness`, `Artifacts`, `Descend`, `Locate`,
`NotLocated`, `Ascend`, `Reject`, `NextTier`, `Exhausted`, `Return`.

**ExactSubstitution.** `Begin`, `ReadSwitch`, `ReadPolicy`, `LookUp`,
`ReadReceipts`, `CheckReceipt` (once per receipt, reading the registry anew),
`Substitute`, or `Execute`, `Publish`, `Record`; in shadow mode the record comes
before the publication, as in `run_shadow`. Operators (`Edit`), publishers
(`PublishSigned`, `PutReceipt`, `Abandon`, `PutStranger`) and the clock act at
any moment. `seen` is a history of the switch and the two files since a call
began. The checks of `validate_policy_document` and `validate_key_registry`
between fields are `ValidDocument` and `ValidRegistry`; those on the form of
single fields are the flag `wellformed`.

**FederationServer.** A handler thread takes `Connect` (a slot, without waiting;
`Busy` is the 503), `Authenticate` (signature and clock), `Remember` (the nonce
table, under its lock), `ReadRate`, `Allow` (the limiter's deque, under its
lock), `Serve`, `Release`; every refusal goes to the answer and from there to the
`finally` clause. `Remember` and `Allow` use the reading of an earlier step. A
deque is the sequence of all its readings with the number of those dropped in
front, so that the history stays in view. A request is a constant record of what
its headers say, delivered any number of times.

**FederationImport.** The origin takes `List`, `Withdraw`, `Stop`, `Start`; a
manifest takes effect with the next start. A probe takes `BeginProbe`, `Ask`,
`Fetch` or `Miss`, `CheckLease`, `EnterStore`, `WriteBlob`, `WriteEntry` or
`WriteFails`, and then the cache calls of its report; a reader takes
`BeginLookup` and two of them. Each cache call is `ReadClock`, `EnterPrune`,
`UnlinkEntry`, `UnlinkBlob`, `LeavePrune` (or `PruneFails`) and its own read; an
import goes by its own list of artifacts and a prune by the entries it has read
once, so that only the lock keeps the two apart. `Crash` ends all
threads of the receiver and leaves the files. `Verdict` stands for the checks of
the local policy, `Drift` for what the two clocks differ by, `offered` and `late`
are histories.

**Evaluation.** A run takes `Begin`, then for each operation of its workload
`NextCase`, `Lookup`, `ConditionalGet` or `Execute`, and `Record`, `Publish`
(shadow) or `Save`, `Record` (conditional), and last `Report`. `Interrupt` comes
anywhere, `InterruptWrite` leaves part of a line or a line without its newline:
the log is its terminated lines and a tail, and the next line written is glued
to the tail.

## 4. Runs

Passing runs:

| Run | What it shows |
|---|---|
| `lock` | Three threads of two processes, nesting twice: mutual exclusion, nothing leaked but the `RLock` of a process in which a `close()` raised, and a refinement of `ExclusiveLock`, through timeouts, failures and crashes; every attempt ends, the self-nested one too, and the lock comes free again. |
| `index` | Two clients, two keys, two values, four calls, readers without a lock, bridges switched off and on between their calls: identities are unique, an active revision is stored, revisions only advance, what `get` and `get_all` return was current during the call, and the adapter refines `MutableKV`. |
| `execution_cache` | Two clients, two keys, three calls, two ticks: clears are never lost, exact, and a get serves nothing retired before it began or expired. |
| `http` | Two threads with different policies (shadow, conditional, stale-while-revalidate with other windows, tiers and trusted producers) that change between requests, a preloaded expired result that an untrusted producer vouches for, submissions that raise before or after queueing, failing jobs, an origin that changes: at most one revalidation, the key in flight exactly while somebody owns it, no stale result without a submission behind it, content as fresh as claimed, and keys are released. |
| `store` | Five manifests in a graph with a shared source, one untrusted and one without expiry, limits at their boundary, two stores of which one is unreadable at times, publications that stop anywhere, a validation or an invalidation: the index resolves, hits are admissible, a miss has its reasons (a limit that a result's own graph exceeds, something it stands on, or a store that fails), and every lookup ends. |
| `substitution` | One caller, call after call, two tiers, an action in a partition and one without, others publishing signed and unsigned results and foreign receipts, the switch, the policy or the registry edited (revoked, narrowed, unreadable): `PolicyHonoured` (an allowing document for the caller's own partition), `PartitionsApart`, `ReceiptHonoured`, and every call ends. |
| `federation_server` | Two handlers, two peers, four requests (two with the same nonce from different peers, one that does not verify), tables of size two, four clock readings: `NonceRemembered`, `WindowBound`, `RefusalJustified`, and a full server gets a slot back. |
| `federation_import` | A prober and a reader, three results (two share a blob, one is of an untrusted producer), one edit of the manifest, restarts, lost answers, failing writes and prunes, crashes: `EntriesResolve`, `LeasedStays`, `PrunedWhenRead`, `OnlyOfferedAdmitted`, and the lock comes free. |
| `evaluation` | An evaluation and two revalidations under one id, interrupted anywhere, a source that changes and results that expire: `NothingLost`, `ValidationsBacked`, `CompleteMeansCovered`, `RevalidationFindsCandidates`. |

Runs that show a disagreement between the code and what the repository says of
it (the details and the quoted lines are under `findings`):

| Run | What the code does |
|---|---|
| `index_disable` | `set_enabled(False)` between `put`'s check and the publication activates a revision that was never stored and hides the previous value. |
| `http_refused` | A request coalesces with a key whose submission then raises: it returns a stale result that nothing revalidates (`StaleIsCovered`, the sentence of the specification). What does hold is `StaleIsSubmitted`: a submission was made. |
| `federation_replay` | A request signed ahead of the server's clock is accepted, and again when its nonce is forgotten, a `max_age` after the first reading, and its signature is still fresh (`NonceOnceInWindow`, the sentence of the specification). What does hold is `NonceRemembered`: acceptances of a nonce are a `max_age` apart. |

More behaviours that a reader of the docs would not expect are in the models and
behind no run:

* A job whose submission raised after it was queued runs without its key, which
  `submit` has discarded, and discards the key of a later job when it ends, so
  that two revalidations of one action may overlap (`strayed`, the condition of
  `SingleFlight`).
* An exception of `close()` leaves the `RLock` of the process held, so that its
  other threads time out from then on (`LetGo`).
* With a candidate from another tier than the publish store, the background
  validation is written where it is never looked for (`runtime.py:108`; against
  lines 36 to 40 of `spec/stale-while-revalidate-v1.md`).
* The limit on dependency edges is counted per candidate (`Pick` starts a new
  traversal) where `spec/derived-result-lineage-v0.md` says per lookup.
* Candidates are sorted by a timestamp's text, in which a whole second comes
  after its fractions (`SortKey`).
* `execute_and_record` publishes before it records its event (`Publish`,
  `Record`), so that a failed publication leaves none.
* A line of the evaluation log that was cut short makes the next run's first line
  unreadable with it, and from then on every report fails (`Record` and
  `Report`; `metrics.py:64` calls the log resumable). An interrupted run's events
  are counted together with those of its repetition under the same id, hence the
  condition on ids in `CompleteMeansCovered`.
* An expired entry can be read when it was imported between a reader's prune and
  its read (`late` in `PrunedWhenRead`), and a probe that is delayed overwrites a
  newer lease with its own, older one (`WriteEntry`).
* `lease_until` is called twice for one report, and the second answer may be
  `None` (`ReadLease`; `federation_pilot.py:780`). `get_blob` takes no lock, so
  the file it found may be gone when it is opened (`OpenBlob`).
* An availability that is generated after the receiver read its clock counts as
  from the future if the answer took longer than the allowed skew (`Timely`).
* `package` accepts a result with lineage, which `publish` refuses when the origin
  starts: an origin whose manifest lists one stays down (`Start`; in the run all packaged results can be published).

### Bounds, and why they are enough

* Two processes, clients or threads: each property is violated, if at all, by
  one actor acting between two steps of another. `lock` has a third thread, so
  that two share a process and one does not. The substitution run has one
  caller: what other callers do to it (publish, and nothing else) its own
  earlier calls and the publishers do as well.
* Two keys tell "this key" from "another key": one would hide lost updates. In
  `index` they share a namespace, so that `get_all` reads two keys; in
  `execution_cache` each has its own.
* `LockedReads` is FALSE in the runs: SQLite's readers, who take no lock, can do
  all that the JSON file's readers can except time out.
* `MaxCalls` 3 or 4: overwrite, delete or clear, write again, and a reader.
* `MaxTime` 1 to 4 with a TTL of 1: fresh, at the boundary, stale, beyond the
  staleness window.
* `lock`: `MaxKept` lets two closes raise in the process with two threads and one
  in the other: one such close is enough to shut the `RLock` for good, the second
  comes from a nested statement.
* `http`: the preloaded result is from time 0 with a TTL of 1, requests come at 2
  and 3, so it is stale inside a window of 1 or 2 and beyond one of 1. Two
  requests are all that can coalesce; one change of the origin may come before,
  between or after any two steps of them. `MaxLag` 1 bounds how long after a
  response the job reads the clock. One caller asks for more than any policy
  grants. All responses have a validator (`Validator`): those without only go the
  way of the results that are not usable, which `Lookup` may take for any.
* `store`: depth 2 and 2 edges over a diamond, so that both limits are met
  exactly and exceeded by one, and a second candidate comes after. One publisher
  adds the root to the first store, which fails at times, or the shared
  dependency to the second; one record (`MaxRecords`) validates or invalidates
  the source under everything else.
* `federation_server`: the nonces of the requests are three keys for a table of
  two, so it can be full of others' nonces; `MaxAge` and `Window` 2 with readings
  0 to 3 have requests at, inside and outside both boundaries, and a thread whose
  reading is older than the window.
* `federation_replay`: one authentic request is enough; a clock to 4 leaves its
  window, signed at 2 with a `MaxAge` of 2, open until after its nonce is
  forgotten.
* `federation_import`: `Retention` 1 and `MaxTime` 2 let a lease end and the same
  result be imported again; `MaxEntries` 2 is met and exceeded by the catalog of
  three; drifts -2 and 0 are outside and inside the age limit. One edit is enough
  for an origin that changes between the two requests of a probe.
* `evaluation`: one URL and one repetition give two operations; three runs are
  one to die, one to repeat it and one to share the log.
* `MaxEdits`, `MaxWrites` 1 or 2: a change before and a change during a call.
* Symmetry is used for processes, threads, values and contents where the run has
  no liveness property and the constants do not tell them apart.
* The proofs below remove the bounds for the properties they cover.

Deadlock is checked in all runs but `evaluation`, whose runs end: a thread that
may rest can always start again or the clock and other processes have a step, and
the bounds on calls are met with an explicit idle step where a model counts
calls.

Clocks never go back in any module; where two machines or two moments of reading
matter, the difference is in the model (`Drift`, `obs`).

### Fairness

* `ProcessFileLock`: weak fairness of a thread's own steps (it is scheduled) and
  of the passage of its deadline; strong fairness of `Unlock`, because the body
  of every with-statement in the repository is straight-line code that ends.
* `HttpRuntime`: weak fairness of request threads and of the executor's workers;
  the transport has timeouts, so a response or an exception comes. A stray job
  gets no fairness: no worker may be left to take it.
* `ResultStore`: weak fairness of the looking thread only.
* `ExactSubstitution`: weak fairness of each call's steps; the operation itself
  returns or raises.

* `FederationServer`: weak fairness of a handler's steps. It has no socket
  timeout, so this assumes that a client reads its answer or closes.
* `FederationImport`: weak fairness of the steps inside the cache's lock only,
  which are file operations.
* `Evaluation`: none.

No fairness is assumed of operators, publishers, the origin or crashes.

## 5. Proofs

TLAPS checks every theorem; the assumptions are the named `ASSUME`s on the
constants, which TLC evaluates in each run. There are no bounds on the numbers
of processes, keys, calls, times or depths.

* **SharedFileProofs**, the lock: `TypeCorrect`, `Exclusive`, `RLockBalanced`,
  `CompleteRelease`, `Refinement`. Mutual exclusion is not inductive: the flags of a
  statement must follow from where it stands, and only the body and the first
  half of `__exit__` may own the file lock (`FlagsMatch`). The
  balance of the `RLock` is a cardinality, of the statements that hold it, plus
  the releases skipped by a close that raised (`kept`), hence the assumption that
  the threads are finite. So the `RLock` of a process at rest is free exactly if
  no close has raised in it, and the file lock is free in any case.
  With one statement in the body at most, the abstract lock's holder is that
  statement: `TryLock` maps to its acquisition, leaving the body and the death of
  the holder's process to its release, and all else, waits, retries and errors
  included, to nothing.
* **SharedFileProofs**, the log: `EvaluationTypes`, `RecordedEventsAreRead`,
  `ReportedValidationsAreStored`, `CountingIsEnough`,
  `RevalidationAfterEvaluation`. A run is in a case of its workload and has the
  bytes, the candidate and the way that its step needs (`Progress`, `HasBody`).
  What was recorded is among the terminated lines as long as they parse
  (`AllLogged`), and a run about to record a validation has stored it
  (`SavedFirst`). For the report, an event has a run, a case it has come to and
  the id of the run, and two events of one case are the same (`EventsPlaced`):
  when one run has used the id, its events map one to one into its cases, so
  that as many events as cases leave no case out; that step is the
  theorem about injections between finite sets. For the revalidation, a run has
  published what it has come past (`EvaluatedFetched`), nothing leaves the
  store, and "prepared" means that such a run had returned (`PreparedMeans`).
* **IndexedCacheProofs**: `TypeCorrect`, `NoLostUpdate`, `OneValuePerIdentity`,
  `NeverResurrected`, `ActivationImpliesPublication`, `ReadsAreCurrent`,
  `Refinement`. The invariant says that whoever is between taking and releasing
  the lock holds it and has a current copy, and that a publication id not yet
  used is in no object. A read takes a revision and looks the object up later:
  its answer was current because the objects of a revision that was ever active
  are settled (`IndexSettled`: no writer will add one), so the object that
  is found, or is not, is what was there when the revision was read
  (`ReadsSettled`); and whatever was current at some instant of a call is kept as
  such (`AnswersSeen`). In the refinement a mutation takes effect at `Commit`, which writes
  the index, and the value it shows is its own (`CommitsOwnValue`). The theorems
  `ActivationImpliesPublication` and `Refinement` have the hypothesis
  `~MayDisable`, no bridge is switched off under its own calls: run
  `index_disable` shows why.
* **ExecutionCacheProofs**: `TypeCorrect`, `ClearIsForever`, `GetServesLive`,
  `ClearExact`. Every retired identity is behind the file in one epoch and
  ahead in none, and epochs only grow; what a get holds was not in the set of
  identities retired before it began.
* **HttpRuntimeProofs**: `TypeCorrect`, `OneFlight`, `StaleSubmitted`,
  `FreshAsClaimed`. `FlightInv` ties the keys in flight to an owner by location
  as long as no job has strayed; `StaleSubmitted` has no such condition: whoever
  finds the key in flight finds a submission that is undecided, refused or
  accepted, stray jobs or not. `FreshAsClaimed` rests on every result of a
  producer that runs this program, and every validation by one, being backed by
  an instant at which the origin served the content, no more than the longest TTL
  and the job's lag before its boundary; what an outside producer vouches for
  does not count because no policy trusts it (`PolicyAssumption`).
* **ResultStoreProofs**: `TypeCorrect`, `IndexSound`, `HitsAreAdmissible`,
  `NothingMissed`, `LookupsApproachTheirEnd`.
  `IndexInv` adds what a publication under way has written. `WalkInv` says what
  the evaluations that returned, the callers on the stack and the one in
  progress have established; at a hit the checked results with the root are
  closed under dependencies, so they contain the root's closure, and no
  induction over the graph is needed. Stores only grow (`Monotone`).
  `NothingMissed` needs the converse, that whatever the lookup refuses it may
  refuse. The edges below a result are counted as the chains of dependencies
  that lead down from it (`Chains`), which needs no recursion. `PathInv`: the
  calls on the stack are such a chain without a repetition (`Descent`,
  `NoCycle`), within the depth limit (`WithinDepth`), and each edge counted so
  far ends a chain of its own that the traversal will not walk again
  (`Counted`). So a traversal that runs out of edges has found one chain too
  many, one that runs out of depth a chain too long, and one that meets a result
  again a cycle, which can be walked to any depth (`CycleIsTooDeep`). `DueInv`: a result
  that was complete when the lookup began is still ahead of it or being tried,
  or there is a reason to refuse it, and reasons do not go away
  (`RefusableStays`); a dependency sought for it is in a store not asked yet
  (`Sought`). A result that is found in a
  store that cannot be read has its reason in that store (`UnreadableRefuses`).
  `LookupsApproachTheirEnd` is the part of termination that is a safety property:
  stores, candidates, edges, checks and frames left (`Remaining`) shrink in a
  lexicographic order with each step of the lookup, in a cyclic graph and with
  unreadable files too, and steps of others leave them alone. Its hypothesis is
  that there are finitely many results. That some step is always possible, and
  so `LookupEnds`, is left to TLC.
* **ExactSubstitutionProofs**: `TypeCorrect`, `SubstitutionsHonourPolicy`,
  `SubstitutionsHonourReceipts`, `PartitionsStayApart`. Each step of a call adds
  one fact (`SwitchSeen`, `PolicySeen`, `CandidateFound`, `ReceiptsRead`,
  `ReceiptAccepted`), and `Stable` shows that nobody else takes one away, since
  stores and histories grow.

* **FederationServerProofs**: `TypeCorrect`, `WindowBoundHolds`,
  `NonceRememberedHolds`, `RefusalJustifiedHolds`. The invariant says where a
  thread has a request, a requester or a reading (`Located`), that the slots and
  the threads at work add up (`SlotsCounted`), that a remembered nonce was
  accepted with a reading a `max_age` before it expires and none is forgotten
  earlier (`NoncesKept`), and that what a deque has dropped is outside the
  window and what it holds is within the limit (`DequesKept`). The times at
  which readings are appended are in order, the readings need not be.
* **FederationImportProofs**: `TypeCorrect`, `EntriesResolveHolds`,
  `PrunedWhenReadHolds`, `LeasedStaysHolds`, `OnlyOfferedAdmittedHolds`. Readings
  are not ahead of the clock (`ReadBefore`), and a thread between its first
  request and its write has a result that was served since it began and, once
  fetched, is allowed (`Probing`). Entries resolve because whoever writes or
  prunes holds the lock (`Locked`): the blobs an import has been through are
  still there when it writes its entry (`Storing`), and what a prune has listed
  is what is there (`Listed`).

Only model-checked: the liveness properties `AttemptResolves`, `LockComesFree`,
`KeyReleased`, `LookupEnds`, `CallsEnd`, `SlotFrees` and `LockReleased` (fairness
and `ENABLED` are outside what the prover handles), and the violated properties
of `index_disable`, `http_refused` and `federation_replay`.

## 6. Not modelled

* Hashing, signatures, canonical JSON, schema checks: pure functions over bytes.
  A digest is an identity and a signature a flag; collisions and forgeries are
  assumed away.
* `import_filesystem` and `integrity_check` of the SQLite index: a one-time
  migration and a read-only scan.
* `MemoryStore`: same interface as `FilesystemStore` within one process; its
  order of equal candidates differs and is not modelled.
* Metrics of the policy runtimes: that a call records its event is a step that may
  fail; the log itself is in `Evaluation`. Sums and rates of summaries are
  arithmetic over the events.
* The two substitution runners of `evaluation.py` and their reports: loops over
  the runtimes that `HttpRuntime` and `ExactSubstitution` model.
* The in-memory federation cache (same interface under one lock), its validations
  and receipts (pruned and read as candidates are), `prune_receiver_cache` as a
  second process (section 2), and `keygen`, identities and the preflight checks:
  files written once or only read.
* Start and close of the federation server, and TLS.
* Network I/O of the adapters: the origin's answer in `HttpRuntime`.
* The organization pilot, mesh status, evaluation scripts, command lines, static
  discovery and framework glue: no state of their own.
