-------------------------- MODULE FederationImport --------------------------
(***************************************************************************)
(* Federation between an origin and a receiver (federation.py,             *)
(* federation_pilot.py and the client of federation_http.py).              *)
(*                                                                         *)
(* The origin serves the publications its manifest listed when it was      *)
(* started; a withdrawal writes a new manifest and takes effect with the   *)
(* next start.  The receiver asks for the availability, fetches one bundle *)
(* of its action, checks it against local policy and stores it with a      *)
(* lease in a FilesystemFederationCacheStore: blobs first, the entry last. *)
(* Every reader prunes first, with a clock reading taken before the lock.  *)
(* The threads are those of one receiver process (the store's lock is a    *)
(* thread lock); the process may die between any two file operations.      *)
(*                                                                         *)
(* All results are of the action that is asked for, and a result is the    *)
(* number of its digest in the canonical order.                            *)
(***************************************************************************)
EXTENDS Integers, Sequences, FiniteSets

CONSTANTS
  Prober, Reader,   \* threads that import, threads that only look up
  Result, Blob, BlobsOf,
  Packaged,         \* results with a publication file (package_publication)
  Publishable,      \* those the catalog accepts (not results with lineage)
  Verdict,          \* what import_from_peer's policy says of each result
  MaxEntries, MaxAge, MaxSkew, Retention,  \* limits of the receiver
  Drift,            \* what the origin's clock may be ahead of the receiver's
  NoResult, NoThread,
  MaxTime, MaxEdits \* bounds: clock readings, edits of the manifest

Thread == Prober \cup Reader
(* refusals before the transfer, and after it *)
Denied == {"operation_denied", "transfer_limit_exceeded"}
Rejected == {"producer_untrusted", "receipt_key_untrusted", "receipt_invalid",
             "artifact_limit_exceeded", "bundle_invalid"}

ASSUME ResultAssumption ==
  /\ Result \subseteq Nat /\ IsFiniteSet(Result) /\ NoResult \notin Result
  /\ BlobsOf \in [Result -> SUBSET Blob]
  /\ Publishable \subseteq Packaged /\ Packaged \subseteq Result
  /\ Verdict \in [Result -> {"ok"} \cup Denied \cup Rejected]
(* what FederationPeerConfig checks of the limits *)
PeerConfig ==
  /\ MaxEntries \in Nat \ {0} /\ MaxAge \in Nat \ {0} /\ MaxSkew \in Nat
  /\ Retention \in Nat \ {0}
ASSUME ReceiverAssumption ==
  /\ PeerConfig /\ Drift \subseteq Int /\ NoThread \notin Thread
  /\ MaxTime \in Nat /\ MaxEdits \in Nat

VARIABLES
  clock,
  listed,    \* results the origin's current manifest names
  catalog,   \* results the running origin serves
  up,        \* whether it runs
  edits,     \* edits of the manifest so far
  entries,   \* [Result -> retain_until of its entry file], 0: no file
  blobs,     \* blob files
  lock,      \* the thread in the cache's critical section
  pc, plan,  \* [Thread -> step, cache calls still to make]
  res, obs,  \* [Thread -> result at hand, last clock reading]
  need,      \* [Thread -> artifacts still to store, or for get_blob to load]
  listing,   \* [Thread -> the entries its prune has read and not unlinked]
  offered,   \* history: [Thread -> what was served since its probe began]
  late       \* history: [Thread -> entries written since its prune ended]

origin == <<listed, catalog, up, edits>>
files == <<entries, blobs>>
locals == <<pc, plan, res, obs, need>>
vars == <<clock, origin, files, lock, listing, locals, offered, late>>

Steps == {"idle", "ask", "fetch", "lease", "store", "write", "prune", "enter",
          "unlink", "read", "open", "evidence"}
Calls == {"candidates", "get_blob", "summary", "lease_until", "lease_until again"}

TypeOK ==
  /\ clock \in 0 .. MaxTime /\ up \in BOOLEAN /\ edits \in 0 .. MaxEdits
  /\ listed \subseteq Packaged /\ catalog \subseteq Publishable
  /\ entries \in [Result -> Nat] /\ blobs \subseteq Blob
  /\ lock \in Thread \cup {NoThread}
  /\ pc \in [Thread -> Steps] /\ plan \in [Thread -> Seq(Calls)]
  /\ res \in [Thread -> Result \cup {NoResult}] /\ obs \in [Thread -> Nat]
  /\ need \in [Thread -> SUBSET Blob] /\ listing \in [Thread -> [Result -> Nat]]
  /\ offered \in [Thread -> SUBSET Result] /\ late \in [Thread -> SUBSET Result]

NoEntries == [r \in Result |-> 0]
Init ==
  /\ clock = 0 /\ listed \in SUBSET Publishable /\ catalog = listed /\ up = TRUE
  /\ edits = 0 /\ entries = NoEntries /\ blobs = {}
  /\ lock = NoThread
  /\ pc = [t \in Thread |-> "idle"] /\ plan = [t \in Thread |-> <<>>]
  /\ res = [t \in Thread |-> NoResult] /\ obs = [t \in Thread |-> 0]
  /\ need = [t \in Thread |-> {}] /\ listing = [t \in Thread |-> NoEntries]
  /\ offered = [t \in Thread |-> {}] /\ late = [t \in Thread |-> {}]
----------------------------------------------------------------------------
(* The origin. *)

(* package_publication, and the operator's new line in the manifest *)
List(r) ==
  /\ r \in Packaged \ listed /\ edits < MaxEdits
  /\ listed' = listed \cup {r} /\ edits' = edits + 1
  /\ UNCHANGED <<clock, catalog, up, files, lock, listing, locals, offered, late>>

(* withdraw_origin_publication: exactly one match, a new manifest *)
Withdraw(r) ==
  /\ r \in listed /\ edits < MaxEdits
  /\ listed' = listed \ {r} /\ edits' = edits + 1
  /\ UNCHANGED <<clock, catalog, up, files, lock, listing, locals, offered, late>>

(* PublicPeerCatalog.publish accepts it *)
Publishes(r) == r \in Publishable

(* serve_origin ends; starting it again loads every listed publication into *)
(* a new catalog, and one that publish refuses keeps the origin down        *)
Stop ==
  /\ up /\ up' = FALSE /\ catalog' = {}
  /\ UNCHANGED <<clock, listed, edits, files, lock, listing, locals, offered, late>>
Start ==
  /\ ~up /\ (\A r \in listed : Publishes(r)) /\ up' = TRUE /\ catalog' = listed
  /\ offered' = [t \in Thread |-> IF pc[t] \in {"ask", "fetch"}
                                  THEN offered[t] \cup listed ELSE offered[t]]
  /\ UNCHANGED <<clock, listed, edits, files, lock, listing, locals, late>>
----------------------------------------------------------------------------
(* The receiver: import_from_peer. *)

Goto(t, step) == pc' = [pc EXCEPT ![t] = step]
(* the call is over: a refusal, an exception or its return *)
Done(t) ==
  /\ Goto(t, "idle") /\ plan' = [plan EXCEPT ![t] = <<>>]
  /\ res' = [res EXCEPT ![t] = NoResult] /\ obs' = [obs EXCEPT ![t] = 0]
  /\ need' = [need EXCEPT ![t] = {}]
  /\ offered' = [offered EXCEPT ![t] = {}] /\ late' = [late EXCEPT ![t] = {}]

BeginProbe(t) ==
  /\ pc[t] = "idle" /\ t \in Prober /\ Goto(t, "ask")
  /\ obs' = [obs EXCEPT ![t] = clock]
  /\ plan' = [plan EXCEPT ![t] = <<"candidates", "get_blob", "summary",
                                   "lease_until", "lease_until again">>]
  /\ offered' = [offered EXCEPT ![t] = catalog]
  /\ UNCHANGED <<clock, origin, files, lock, listing, res, need, late>>

(* generated_at against the age and skew limits of the receiver *)
Timely(t, generated) ==
  generated >= obs[t] - MaxAge /\ generated <= obs[t] + MaxSkew

(* a signed availability that verifies, of the origin that is running *)
Answered(t) ==
  \E drift \in Drift :
    up /\ Timely(t, clock + drift) /\ Cardinality(catalog) <= MaxEntries
(* its entries are sorted: the first one of the action is the candidate *)
Advertised == {r \in catalog : \A q \in catalog : r <= q}

Ask(t) ==
  /\ pc[t] = "ask" /\ Answered(t)
  /\ \E r \in Advertised :
       /\ Verdict[r] \notin Denied
       /\ Goto(t, "fetch") /\ res' = [res EXCEPT ![t] = r]
  /\ UNCHANGED <<clock, origin, files, lock, listing, plan, obs, need, offered, late>>

(* the catalog still has the bundle *)
Serves(r) == up /\ r \in catalog

\* Mutant: what came with a verified availability is not checked again.
FetchUnchecked(t) ==
  /\ pc[t] = "fetch" /\ Serves(res[t]) /\ Goto(t, "lease")
  /\ UNCHANGED <<clock, origin, files, lock, listing, plan, res, obs, need, offered, late>>

(* a later request: the origin may have been restarted in between *)
Fetch(t) ==
  /\ pc[t] = "fetch" /\ Serves(res[t]) /\ Verdict[res[t]] = "ok"
  /\ Goto(t, "lease")
  /\ UNCHANGED <<clock, origin, files, lock, listing, plan, res, obs, need, offered, late>>

(* a refusal is reported too, with the cache's summary *)
Refused(t) ==
  /\ Goto(t, "prune") /\ plan' = [plan EXCEPT ![t] = <<"summary">>]
  /\ res' = [res EXCEPT ![t] = NoResult] /\ obs' = [obs EXCEPT ![t] = 0]
  /\ offered' = [offered EXCEPT ![t] = {}] /\ UNCHANGED <<need, late>>

(* the refusals of import_from_peer; and any request, timely or not, that   *)
(* fails on its way, is answered with an error status, comes too late, or   *)
(* ends in an exception that the client does not catch                      *)
Miss(t) ==
  /\ pc[t] \in {"ask", "fetch"} /\ (Refused(t) \/ Done(t))
  /\ UNCHANGED <<clock, origin, files, lock, listing>>

(* import_bundle reads the clock and judges the lease before its lock *)
CheckLease(t) ==
  /\ pc[t] = "lease"
  /\ \/ /\ obs[t] + Retention > clock /\ Goto(t, "store")
        /\ UNCHANGED <<plan, res, obs, need, offered, late>>
     \/ obs[t] + Retention <= clock /\ Done(t)
  /\ UNCHANGED <<clock, origin, files, lock, listing>>

EnterStore(t) ==
  /\ pc[t] = "store" /\ lock = NoThread /\ lock' = t /\ Goto(t, "write")
  /\ need' = [need EXCEPT ![t] = BlobsOf[res[t]]]
  /\ UNCHANGED <<clock, origin, files, listing, plan, res, obs, offered, late>>

(* the next artifact: its file is there already or is written now *)
WriteBlob(t) ==
  /\ pc[t] = "write"
  /\ \E b \in need[t] :
       blobs' = blobs \cup {b} /\ need' = [need EXCEPT ![t] = @ \ {b}]
  /\ UNCHANGED <<clock, origin, entries, lock, listing, pc, plan, res, obs,
                 offered, late>>

(* the entry replaces an older one, whatever its lease; then the lock goes *)
WriteEntry(t) ==
  /\ pc[t] = "write" /\ need[t] = {}
  /\ entries' = [entries EXCEPT ![res[t]] = obs[t] + Retention]
  /\ late' = [u \in Thread |-> IF pc[u] = "read" THEN late[u] \cup {res[t]}
                               ELSE late[u]]
  /\ lock' = NoThread /\ Goto(t, "prune")
  /\ obs' = [obs EXCEPT ![t] = 0] /\ offered' = [offered EXCEPT ![t] = {}]
  /\ UNCHANGED <<clock, origin, blobs, listing, plan, res, need>>

\* Mutant: the lock is not released when the import raises.
WriteFailsLocked(t) ==
  pc[t] = "write" /\ Done(t) /\ UNCHANGED <<clock, origin, files, lock, listing>>

(* a file operation of the import raises inside the lock *)
WriteFails(t) ==
  /\ pc[t] = "write" /\ lock' = NoThread /\ Done(t)
  /\ UNCHANGED <<clock, origin, files, listing>>
----------------------------------------------------------------------------
(* The cache's readers: each call prunes, then reads. *)

BeginLookup(t) ==
  /\ pc[t] = "idle" /\ t \in Reader /\ Goto(t, "prune")
  /\ plan' = [plan EXCEPT ![t] = <<"candidates", "get_blob">>]
  /\ UNCHANGED <<clock, origin, files, lock, listing, res, obs, need, offered, late>>

(* prune() reads the clock before it takes the lock *)
ReadClock(t) ==
  /\ pc[t] = "prune" /\ Goto(t, "enter")
  /\ obs' = [obs EXCEPT ![t] = clock] /\ late' = [late EXCEPT ![t] = {}]
  /\ UNCHANGED <<clock, origin, files, lock, listing, plan, res, need, offered>>

(* _read_entries *)
Present == {r \in Result : entries[r] # 0}

\* Mutant: the prune does not take the lock.
EnterPruneUnlocked(t) ==
  /\ pc[t] = "enter" /\ Goto(t, "unlink")
  /\ listing' = [listing EXCEPT ![t] = entries]
  /\ UNCHANGED <<clock, origin, files, lock, plan, res, obs, need, offered, late>>

(* the lock, and all entries read once *)
EnterPrune(t) ==
  /\ pc[t] = "enter" /\ lock = NoThread /\ lock' = t /\ Goto(t, "unlink")
  /\ listing' = [listing EXCEPT ![t] = entries]
  /\ UNCHANGED <<clock, origin, files, plan, res, obs, need, offered, late>>

\* Mutant: an entry that ends at the reading itself is kept.
ExpiredBefore(t) == {r \in Result : listing[t][r] \in 1 .. obs[t] - 1}

Expired(t) == {r \in Result : listing[t][r] \in 1 .. obs[t]}
(* asked for when the expired ones are gone *)
LiveBlobs(t) == UNION {BlobsOf[r] : r \in {q \in Result : listing[t][q] # 0}}

\* Mutant: an entry's blobs go with it, shared or not.
UnlinkEntryAndBlobs(t) ==
  /\ pc[t] = "unlink"
  /\ \E r \in Expired(t) : /\ entries' = [entries EXCEPT ![r] = 0]
                           /\ listing' = [listing EXCEPT ![t][r] = 0]
                           /\ blobs' = blobs \ BlobsOf[r]
  /\ UNCHANGED <<clock, origin, lock, locals, offered, late>>

UnlinkEntry(t) ==
  /\ pc[t] = "unlink"
  /\ \E r \in Expired(t) : /\ entries' = [entries EXCEPT ![r] = 0]
                           /\ listing' = [listing EXCEPT ![t][r] = 0]
  /\ UNCHANGED <<clock, origin, blobs, lock, locals, offered, late>>
UnlinkBlob(t) ==
  /\ pc[t] = "unlink" /\ Expired(t) = {}
  /\ \E b \in blobs \ LiveBlobs(t) : blobs' = blobs \ {b}
  /\ UNCHANGED <<clock, origin, entries, lock, listing, locals, offered, late>>
LeavePrune(t) ==
  /\ pc[t] = "unlink" /\ Expired(t) = {} /\ blobs \subseteq LiveBlobs(t)
  /\ lock' = NoThread /\ Goto(t, "read")
  /\ listing' = [listing EXCEPT ![t] = NoEntries]
  /\ UNCHANGED <<clock, origin, files, plan, res, obs, need, offered, late>>

(* a file operation of the prune raises inside the lock *)
PruneFails(t) ==
  /\ pc[t] = "unlink" /\ lock' = NoThread /\ Done(t)
  /\ listing' = [listing EXCEPT ![t] = NoEntries]
  /\ UNCHANGED <<clock, origin, files>>

(* on to the next call of the plan, or to the end of the caller *)
Proceed(t, rest) ==
  /\ plan' = [plan EXCEPT ![t] = rest]
  /\ obs' = [obs EXCEPT ![t] = 0] /\ late' = [late EXCEPT ![t] = {}]
  /\ Goto(t, IF rest # <<>> THEN "prune"
             ELSE IF t \in Prober THEN "evidence" ELSE "idle")

(* candidates(): the newest import comes first; any entry stands for it. A  *)
(* probe goes on to the artifacts only of the result it imported.           *)
Wanted(t, r) == IF t \in Reader \/ r = res[t] THEN BlobsOf[r] ELSE {}
ReadCandidates(t) ==
  /\ pc[t] = "read" /\ Head(plan[t]) = "candidates" /\ lock = NoThread
  /\ \/ \E r \in Present :
          /\ need' = [need EXCEPT ![t] = Wanted(t, r)]
          /\ Proceed(t, IF Wanted(t, r) = {} THEN Tail(Tail(plan[t]))
                        ELSE Tail(plan[t]))
     \/ /\ Present = {}
        /\ Proceed(t, Tail(Tail(plan[t]))) /\ UNCHANGED need
  /\ UNCHANGED <<clock, origin, files, lock, listing, res, offered>>

(* get_blob() takes no lock: is_file, then read_bytes, which may raise *)
FindBlob(t) ==
  /\ pc[t] = "read" /\ Head(plan[t]) = "get_blob"
  /\ \/ /\ need[t] \cap blobs # {} /\ Goto(t, "open")
        /\ UNCHANGED <<plan, need, obs, late>>
     \/ /\ need[t] \ blobs # {} /\ Proceed(t, Tail(plan[t]))
        /\ need' = [need EXCEPT ![t] = {}]
  /\ UNCHANGED <<clock, origin, files, lock, listing, res, offered>>
OpenBlob(t) ==
  /\ pc[t] = "open"
  /\ \/ \E b \in need[t] \cap blobs :
          /\ need' = [need EXCEPT ![t] = @ \ {b}]
          /\ Proceed(t, IF need[t] = {b} THEN Tail(plan[t]) ELSE plan[t])
          /\ UNCHANGED <<res, offered>>
     \/ need[t] \ blobs # {} /\ Done(t)
  /\ UNCHANGED <<clock, origin, files, lock, listing>>

(* summary() counts the files that are left *)
ReadSummary(t) ==
  /\ pc[t] = "read" /\ Head(plan[t]) = "summary" /\ lock = NoThread
  /\ Proceed(t, Tail(plan[t]))
  /\ UNCHANGED <<clock, origin, files, lock, listing, res, need, offered>>

(* lease_until() is called to see whether there is a lease, and again for   *)
(* its value; without one the second time the report raises                 *)
ReadLease(t) ==
  /\ pc[t] = "read" /\ Head(plan[t]) \in {"lease_until", "lease_until again"}
  /\ lock = NoThread
  /\ \/ /\ entries[res[t]] # 0 /\ Proceed(t, Tail(plan[t]))
        /\ UNCHANGED <<res, need, offered>>
     \/ /\ entries[res[t]] = 0 /\ Head(plan[t]) = "lease_until"
        /\ Proceed(t, <<>>) /\ UNCHANGED <<res, need, offered>>
     \/ entries[res[t]] = 0 /\ Head(plan[t]) = "lease_until again" /\ Done(t)
  /\ UNCHANGED <<clock, origin, files, lock, listing>>

(* the report goes into a file of its own *)
WriteEvidence(t) ==
  pc[t] = "evidence" /\ Done(t) /\ UNCHANGED <<clock, origin, files, lock, listing>>

(* the receiver process dies: its files stay as they are *)
Crash ==
  /\ \E t \in Thread : pc[t] # "idle"
  /\ lock' = NoThread /\ pc' = [t \in Thread |-> "idle"]
  /\ plan' = [t \in Thread |-> <<>>] /\ res' = [t \in Thread |-> NoResult]
  /\ obs' = [t \in Thread |-> 0] /\ need' = [t \in Thread |-> {}]
  /\ listing' = [t \in Thread |-> NoEntries]
  /\ offered' = [t \in Thread |-> {}] /\ late' = [t \in Thread |-> {}]
  /\ UNCHANGED <<clock, origin, files>>

Tick ==
  /\ clock < MaxTime /\ clock' = clock + 1
  /\ UNCHANGED <<origin, files, lock, listing, locals, offered, late>>

(* the steps inside the lock *)
Critical(t) ==
  \/ WriteBlob(t) \/ WriteEntry(t) \/ WriteFails(t)
  \/ UnlinkEntry(t) \/ UnlinkBlob(t) \/ LeavePrune(t) \/ PruneFails(t)

Step(t) ==
  \/ Ask(t) \/ Fetch(t) \/ Miss(t) \/ CheckLease(t) \/ EnterStore(t)
  \/ Critical(t) \/ ReadClock(t) \/ EnterPrune(t)
  \/ ReadCandidates(t) \/ FindBlob(t) \/ OpenBlob(t)
  \/ ReadSummary(t) \/ ReadLease(t) \/ WriteEvidence(t)

Next ==
  \/ \E r \in Result : List(r) \/ Withdraw(r)
  \/ Stop \/ Start \/ Crash \/ Tick
  \/ \E t \in Thread : BeginProbe(t) \/ BeginLookup(t) \/ Step(t)

Spec == Init /\ [][Next]_vars
(* a thread that holds the lock keeps running *)
FairSpec == Spec /\ \A t \in Thread : WF_vars(Critical(t))
----------------------------------------------------------------------------
(* Every blob of every entry file is there, in every state a crash or a     *)
(* failed write can leave (import_bundle writes the entry last, prune       *)
(* removes it first, and both hold the lock).                               *)
EntriesResolve == \A r \in Result : entries[r] # 0 => BlobsOf[r] \subseteq blobs

(* What is leased stays: as long as a lease runs, no step of any thread, no *)
(* other result's expiry and no crash removes the entry or a blob of it     *)
(* (prune and its clock reading from before the lock).                      *)
LeasedStays ==
  [][\A r \in Result : entries[r] > clock =>
       entries'[r] # 0 /\ BlobsOf[r] \subseteq blobs']_vars

(* An entry is written only for a result that local policy admits and that  *)
(* the origin really served at some moment since that probe began: after a  *)
(* withdrawal and a restart no new import of it succeeds.                   *)
OnlyOfferedAdmitted ==
  [][\A r \in Result : entries'[r] # entries[r] /\ entries'[r] # 0 =>
       /\ Verdict[r] = "ok"
       /\ \E t \in Prober : pc[t] = "write" /\ res[t] = r /\ r \in offered[t]]_vars

(* A reader that has pruned sees no entry whose lease had ended at its own  *)
(* reading, except one that an import wrote after that prune let go of the  *)
(* lock (candidates and lease_until prune and read in two sections).        *)
PrunedWhenRead ==
  \A t \in Thread : pc[t] = "read" =>
    \A r \in Result : entries[r] # 0 => entries[r] > obs[t] \/ r \in late[t]

(* Each critical section of the cache ends, also when a file operation in   *)
(* it fails.                                                                *)
LockReleased == lock # NoThread ~> lock = NoThread
=============================================================================
