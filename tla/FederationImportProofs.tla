----------------------- MODULE FederationImportProofs -----------------------
(***************************************************************************)
(* Theorems about FederationImport for any number of threads, results,     *)
(* artifacts and edits of the manifest and any limits and clock drifts.    *)
(***************************************************************************)
EXTENDS FederationImport, SequenceTheorems, TLAPS

(* These only name a part of an assumption or of a guard. *)
USE DEF PeerConfig, Publishes, Answered, Advertised, Serves, Present

-----------------------------------------------------------------------------
(* The inductive invariant. *)

Types ==
  /\ clock \in Nat /\ listed \subseteq Result /\ catalog \subseteq Result
  /\ entries \in [Result -> Nat]
  /\ pc \in [Thread -> Steps] /\ obs \in [Thread -> Nat]
  /\ res \in [Thread -> Result \cup {NoResult}]
  /\ offered \in [Thread -> SUBSET Result] /\ late \in [Thread -> SUBSET Result]

(* Readings are from the past. *)
ReadBefore == \A t \in Thread : obs[t] <= clock

(* What a probe holds is something the origin has served since it began,    *)
(* and past the fetch it is something that local policy admits.             *)
Probing ==
  \A t \in Thread :
    /\ pc[t] \in {"ask", "fetch"} => catalog \subseteq offered[t]
    /\ pc[t] \in {"ask", "fetch", "lease", "store", "write"} => t \in Prober
    /\ pc[t] \in {"fetch", "lease", "store", "write"} => res[t] \in offered[t]
    /\ pc[t] \in {"lease", "store", "write"} => Verdict[res[t]] = "ok"

(* One thread at a time is inside the lock.  So the blobs that an import    *)
(* has been through stay until its entry is written, and what a prune has   *)
(* listed is what is there.                                                 *)
Locked == \A t \in Thread : pc[t] \in {"write", "unlink"} => lock = t
Storing == \A t \in Thread : pc[t] = "write" => BlobsOf[res[t]] \ need[t] \subseteq blobs
Listed ==
  \A t \in Thread : pc[t] = "unlink" =>
    \A r \in Result : entries[r] # 0 => listing[t][r] = entries[r]
Exclusion ==
  /\ need \in [Thread -> SUBSET Blob] /\ listing \in [Thread -> [Result -> Nat]]
  /\ Locked /\ Storing /\ Listed

Inv ==
  Types /\ ReadBefore /\ Probing /\ Exclusion /\ EntriesResolve /\ PrunedWhenRead

(* The steps that leave the files alone. *)
QuietStep(t) ==
  \/ Ask(t) \/ Fetch(t) \/ Miss(t) \/ CheckLease(t) \/ EnterStore(t) \/ WriteFails(t)
  \/ ReadClock(t) \/ EnterPrune(t) \/ LeavePrune(t) \/ ReadCandidates(t) \/ FindBlob(t)
  \/ OpenBlob(t) \/ ReadSummary(t) \/ ReadLease(t) \/ WriteEvidence(t)
  \/ BeginProbe(t) \/ BeginLookup(t) \/ PruneFails(t)

LEMMA QuietFiles == \A t \in Thread : QuietStep(t) => UNCHANGED <<clock, origin, files>>
  BY DEF QuietStep, Ask, Fetch, Miss, CheckLease, EnterStore, WriteFails, ReadClock, EnterPrune,
         LeavePrune, ReadCandidates, FindBlob, OpenBlob, ReadSummary, ReadLease, WriteEvidence,
         BeginProbe, BeginLookup, PruneFails

(* A thread writes its own locals only. *)
LEMMA DoneTypes ==
  ASSUME Types, NEW t \in Thread, Done(t)
  PROVE  /\ pc' \in [Thread -> Steps] /\ obs' \in [Thread -> Nat]
         /\ res' \in [Thread -> Result \cup {NoResult}]
         /\ offered' \in [Thread -> SUBSET Result] /\ late' \in [Thread -> SUBSET Result]
  BY DEF Types, Done, Goto, Steps

LEMMA RefusedTypes ==
  ASSUME Types, NEW t \in Thread, Refused(t)
  PROVE  /\ pc' \in [Thread -> Steps] /\ obs' \in [Thread -> Nat]
         /\ res' \in [Thread -> Result \cup {NoResult}]
         /\ offered' \in [Thread -> SUBSET Result] /\ late' \in [Thread -> SUBSET Result]
  BY DEF Types, Refused, Goto, Steps

LEMMA ProceedTypes ==
  ASSUME Types, NEW t \in Thread, NEW rest, Proceed(t, rest)
  PROVE  /\ pc' \in [Thread -> Steps] /\ obs' \in [Thread -> Nat]
         /\ late' \in [Thread -> SUBSET Result]
  BY DEF Types, Proceed, Goto, Steps

LEMMA InitInv == Init => Inv
  <1> SUFFICES ASSUME Init PROVE Inv
    OBVIOUS
  <1>1. Types
    BY ResultAssumption DEF Init, Types, Steps, NoEntries
  <1>2. ReadBefore /\ Probing /\ EntriesResolve /\ PrunedWhenRead
    BY DEF Init, ReadBefore, Probing, EntriesResolve, PrunedWhenRead, NoEntries
  <1>3. Exclusion
    BY DEF Init, Exclusion, Locked, Storing, Listed, NoEntries
  <1> QED
    BY <1>1, <1>2, <1>3 DEF Inv

LEMMA QuietTypes ==
  ASSUME Inv, NEW t \in Thread, QuietStep(t)
  PROVE  Types'
  <1>0. Types /\ UNCHANGED <<clock, origin, files>>
    BY QuietFiles DEF Inv
  <1>1. CASE \/ Miss(t) \/ WriteFails(t) \/ WriteEvidence(t) \/ PruneFails(t)
    BY <1>0, <1>1, DoneTypes, RefusedTypes
       DEF Types, origin, files, Miss, WriteFails, WriteEvidence, PruneFails
  <1>2. CASE Ask(t)
    BY <1>0, <1>2 DEF Types, origin, files, Ask, Goto, Steps
  <1>3. CASE Fetch(t) \/ EnterStore(t) \/ EnterPrune(t) \/ LeavePrune(t) \/ BeginLookup(t)
    BY <1>0, <1>3 DEF Types, origin, files, Fetch, EnterStore, EnterPrune, LeavePrune,
       BeginLookup, Goto, Steps
  <1>4. CASE CheckLease(t)
    <2>1. CASE Done(t)
      BY <1>0, <2>1, DoneTypes DEF Types, origin, files
    <2>2. CASE Goto(t, "store") /\ UNCHANGED <<plan, res, obs, need, offered, late>>
      BY <1>0, <2>2 DEF Types, origin, files, Goto, Steps
    <2> QED
      BY <1>4, <2>1, <2>2 DEF CheckLease
  <1>5. CASE ReadClock(t) \/ BeginProbe(t)
    <2>1. CASE ReadClock(t)
      BY <1>0, <2>1 DEF Types, origin, files, ReadClock, Goto, Steps
    <2>2. CASE BeginProbe(t)
      <3>1. /\ pc' = [pc EXCEPT ![t] = "ask"] /\ obs' = [obs EXCEPT ![t] = clock]
            /\ offered' = [offered EXCEPT ![t] = catalog]
            /\ UNCHANGED <<clock, origin, files, lock, res, need, late>>
        BY <2>2 DEF BeginProbe, Goto
      <3> QED
        BY <1>0, <3>1, ResultAssumption, ReceiverAssumption DEF Types, origin, files, Steps
    <2> QED
      BY <1>5, <2>1, <2>2
  <1>6. CASE ReadCandidates(t)
    <2>1. PICK rest : Proceed(t, rest)
      BY <1>6 DEF ReadCandidates
    <2> QED
      BY <1>0, <1>6, <2>1, ProceedTypes DEF Types, origin, files, ReadCandidates
  <1>7. CASE FindBlob(t)
    <2>1. CASE Goto(t, "open") /\ UNCHANGED <<plan, need, obs, late>>
      BY <1>0, <1>7, <2>1 DEF Types, origin, files, FindBlob, Goto, Steps
    <2>2. CASE Proceed(t, Tail(plan[t]))
      BY <1>0, <1>7, <2>2, ProceedTypes DEF Types, origin, files, FindBlob
    <2> QED
      BY <1>7, <2>1, <2>2 DEF FindBlob
  <1>8. CASE OpenBlob(t) \/ ReadSummary(t) \/ ReadLease(t)
    <2>1. CASE Done(t)
      BY <1>0, <2>1, DoneTypes DEF Types, origin, files
    <2>2. ASSUME NEW rest, Proceed(t, rest), UNCHANGED <<res, offered>> PROVE Types'
      BY <1>0, <2>2, ProceedTypes DEF Types, origin, files
    <2> QED
      BY <1>8, <2>1, <2>2 DEF OpenBlob, ReadSummary, ReadLease
  <1> QED
    BY <1>1, <1>2, <1>3, <1>4, <1>5, <1>6, <1>7, <1>8 DEF QuietStep

(* Another thread's locals stay. *)
LEMMA OthersStay ==
  ASSUME Types, NEW t \in Thread, QuietStep(t), NEW u \in Thread, u # t
  PROVE  /\ pc'[u] = pc[u] /\ obs'[u] = obs[u] /\ res'[u] = res[u]
         /\ offered'[u] = offered[u] /\ late'[u] = late[u]
  <1>1. \/ Done(t) \/ Refused(t)
        \/ \E rest : Proceed(t, rest) /\ UNCHANGED <<res, offered>>
        \/ Ask(t) \/ Fetch(t) \/ EnterStore(t) \/ EnterPrune(t) \/ LeavePrune(t)
        \/ BeginLookup(t) \/ ReadClock(t) \/ BeginProbe(t)
        \/ (\E step : Goto(t, step)) /\ UNCHANGED <<res, obs, offered, late>>
    BY DEF QuietStep, Miss, CheckLease, WriteFails, ReadCandidates, FindBlob, OpenBlob,
           ReadSummary, ReadLease, WriteEvidence, PruneFails
  <1>2. CASE Done(t) \/ Refused(t)
    BY <1>2 DEF Types, Done, Refused, Goto
  <1>3. CASE \E rest : Proceed(t, rest) /\ UNCHANGED <<res, offered>>
    BY <1>3 DEF Types, Proceed, Goto
  <1>4. CASE Ask(t) \/ Fetch(t) \/ EnterStore(t) \/ EnterPrune(t) \/ LeavePrune(t)
    BY <1>4 DEF Types, Goto, Ask, Fetch, EnterStore, EnterPrune, LeavePrune
  <1>5. CASE BeginLookup(t) \/ ReadClock(t) \/ BeginProbe(t)
    BY <1>5 DEF Types, Goto, BeginLookup, ReadClock, BeginProbe
  <1>6. CASE (\E step : Goto(t, step)) /\ UNCHANGED <<res, obs, offered, late>>
    BY <1>6 DEF Types, Goto
  <1> QED
    BY <1>1, <1>2, <1>3, <1>4, <1>5, <1>6

(* Where a quiet step leaves its own thread. *)
LEMMA OwnAfter ==
  ASSUME Inv, NEW t \in Thread, QuietStep(t)
  PROVE  /\ obs'[t] \in {0, clock, obs[t]}
         /\ pc'[t] = "ask" => t \in Prober /\ offered'[t] = catalog
         /\ pc'[t] = "fetch" => /\ pc[t] = "ask" /\ res'[t] \in catalog
                                /\ offered'[t] = offered[t]
         /\ pc'[t] = "lease" => /\ pc[t] = "fetch" /\ Verdict[res[t]] = "ok"
                                /\ res'[t] = res[t] /\ offered'[t] = offered[t]
         /\ pc'[t] \in {"store", "write"} => /\ pc[t] \in {"lease", "store"}
                                /\ res'[t] = res[t] /\ offered'[t] = offered[t]
         /\ pc'[t] = "read" => pc[t] = "unlink" /\ Expired(t) = {} /\ obs'[t] = obs[t]
  <1>0. Types
    BY DEF Inv
  <1>1. CASE Done(t) \/ Refused(t)
    BY <1>0, <1>1 DEF Types, Done, Refused, Goto
  <1>2. CASE \E rest : Proceed(t, rest)
    BY <1>0, <1>2 DEF Types, Proceed, Goto
  <1>3. CASE Ask(t)
    BY <1>0, <1>3 DEF Types, Ask, Goto
  <1>4. CASE Fetch(t) \/ EnterStore(t) \/ EnterPrune(t) \/ LeavePrune(t)
    BY <1>0, <1>4 DEF Types, Fetch, EnterStore, EnterPrune, LeavePrune, Goto
  <1>5. CASE BeginLookup(t) \/ ReadClock(t) \/ BeginProbe(t)
    BY <1>0, <1>5 DEF Types, BeginLookup, ReadClock, BeginProbe, Goto
  <1>6. CASE CheckLease(t)
    BY <1>0, <1>1, <1>6 DEF Types, CheckLease, Goto
  <1>7. CASE FindBlob(t)
    BY <1>0, <1>2, <1>7 DEF Types, FindBlob, Goto
  <1> QED
    BY <1>1, <1>2, <1>3, <1>4, <1>5, <1>6, <1>7
       DEF QuietStep, Miss, WriteFails, WriteEvidence, ReadCandidates, OpenBlob, ReadSummary,
           ReadLease, PruneFails

(* What a quiet step does about the lock and what is read or kept under it. *)
LEMMA LockAfter ==
  ASSUME Inv, NEW t \in Thread, QuietStep(t)
  PROVE  /\ lock' = lock \/ lock = NoThread \/ pc[t] \in {"write", "unlink"}
         /\ listing' \in [Thread -> [Result -> Nat]]
         /\ \A u \in Thread : u # t => listing'[u] = listing[u]
         /\ pc'[t] \in {"write", "unlink"} => lock' = t
         /\ pc'[t] = "unlink" => listing'[t] = entries
         /\ pc'[t] = "write" => EnterStore(t)
  <1>0. /\ pc \in [Thread -> Steps] /\ entries \in [Result -> Nat]
        /\ listing \in [Thread -> [Result -> Nat]] /\ NoEntries \in [Result -> Nat]
    BY DEF Inv, Types, Exclusion, NoEntries
  <1>1. CASE EnterStore(t)
    BY <1>0, <1>1 DEF Goto, EnterStore
  <1>2. CASE EnterPrune(t) \/ LeavePrune(t)
    BY <1>0, <1>2 DEF Goto, EnterPrune, LeavePrune
  <1>3. CASE WriteFails(t) \/ PruneFails(t)
    BY <1>0, <1>3 DEF Goto, Done, WriteFails, PruneFails
  <1>4. CASE \/ Ask(t) \/ Fetch(t) \/ Miss(t) \/ CheckLease(t) \/ ReadClock(t)
             \/ ReadCandidates(t) \/ FindBlob(t) \/ OpenBlob(t) \/ ReadSummary(t)
             \/ ReadLease(t) \/ WriteEvidence(t) \/ BeginProbe(t) \/ BeginLookup(t)
    <2>1. lock' = lock /\ listing' = listing
      BY <1>4 DEF Ask, Fetch, Miss, CheckLease, ReadClock, ReadCandidates, FindBlob, OpenBlob,
         ReadSummary, ReadLease, WriteEvidence, BeginProbe, BeginLookup
    <2>2. \/ Done(t) \/ Refused(t) \/ (\E rest : Proceed(t, rest))
          \/ \E step \in Steps \ {"write", "unlink"} : Goto(t, step)
      BY <1>4 DEF Ask, Fetch, Miss, CheckLease, ReadClock, ReadCandidates, FindBlob, OpenBlob,
         ReadSummary, ReadLease, WriteEvidence, BeginProbe, BeginLookup, Steps
    <2>3. pc'[t] \notin {"write", "unlink"}
      BY <1>0, <2>2 DEF Done, Refused, Proceed, Goto
    <2> QED
      BY <1>0, <2>1, <2>3
  <1> QED
    BY <1>1, <1>2, <1>3, <1>4, Zenon DEF QuietStep

(* The artifacts a thread has still to store or to load. *)
LEMMA NeedAfter ==
  ASSUME Inv, NEW t \in Thread, BeginProbe(t) \/ BeginLookup(t) \/ Step(t)
  PROVE  /\ need' \in [Thread -> SUBSET Blob]
         /\ \A u \in Thread : u # t => need'[u] = need[u]
  <1>0. (\A r \in Result : BlobsOf[r] \subseteq Blob) /\ need \in [Thread -> SUBSET Blob]
    BY ResultAssumption DEF Inv, Exclusion
  <1>1. CASE Done(t) \/ Refused(t)
    BY <1>0, <1>1 DEF Done, Refused
  <1>2. CASE ReadCandidates(t) \/ FindBlob(t)
    <2>1. \A r \in Result : Wanted(t, r) \subseteq Blob
      BY <1>0 DEF Wanted
    <2> QED
      BY <1>0, <1>2, <2>1 DEF ReadCandidates, FindBlob
  <1>3. CASE OpenBlob(t) \/ WriteBlob(t)
    BY <1>0, <1>1, <1>3 DEF OpenBlob, WriteBlob
  <1>4. CASE EnterStore(t)
    <2>1. res[t] \in Result
      BY <1>4 DEF EnterStore, Inv, Probing, Types
    <2> QED
      BY <1>0, <1>4, <2>1 DEF EnterStore
  <1>5. CASE \/ CheckLease(t) \/ ReadLease(t) \/ Miss(t) \/ WriteFails(t) \/ PruneFails(t)
             \/ WriteEvidence(t)
    BY <1>0, <1>1, <1>5 DEF CheckLease, ReadLease, Miss, WriteFails, PruneFails, WriteEvidence
  <1>6. CASE \/ BeginProbe(t) \/ BeginLookup(t) \/ Ask(t) \/ Fetch(t)
             \/ WriteEntry(t) \/ ReadClock(t) \/ EnterPrune(t)
             \/ UnlinkEntry(t) \/ UnlinkBlob(t) \/ LeavePrune(t) \/ ReadSummary(t)
    BY <1>0, <1>6 DEF BeginProbe, BeginLookup, Ask, Fetch, WriteEntry,
       ReadClock, EnterPrune, UnlinkEntry, UnlinkBlob, LeavePrune, ReadSummary, locals
  <1> QED
    BY <1>2, <1>3, <1>4, <1>5, <1>6, Zenon DEF Step, Critical

LEMMA QuietExclusion ==
  ASSUME Inv, NEW t \in Thread, QuietStep(t)
  PROVE  Exclusion'
  <1>0. Types /\ entries' = entries /\ blobs' = blobs /\ NoThread \notin Thread
    BY QuietFiles, ReceiverAssumption DEF Inv, files
  <1>1. Exclusion
    BY DEF Inv
  <1>2. /\ need' \in [Thread -> SUBSET Blob] /\ \A u \in Thread : u # t => need'[u] = need[u]
    BY NeedAfter, Zenon DEF QuietStep, Step, Critical
  <1>3. ASSUME NEW u \in Thread, u # t
        PROVE  /\ pc'[u] \in {"write", "unlink"} => lock' = u
               /\ pc'[u] = "write" => BlobsOf[res'[u]] \ need'[u] \subseteq blobs
               /\ pc'[u] = "unlink" =>
                    \A r \in Result : entries[r] # 0 => listing'[u][r] = entries[r]
    <2>1. /\ pc'[u] = pc[u] /\ res'[u] = res[u] /\ need'[u] = need[u]
          /\ listing'[u] = listing[u]
      BY <1>0, <1>2, <1>3, OthersStay, LockAfter
    <2>2. pc[u] \in {"write", "unlink"} => lock = u /\ lock' = lock
      BY <1>0, <1>1, <1>3, LockAfter DEF Exclusion, Locked
    <2>3. pc[u] = "write" => BlobsOf[res[u]] \ need[u] \subseteq blobs
      BY <1>1 DEF Exclusion, Storing
    <2>4. pc[u] = "unlink" => \A r \in Result : entries[r] # 0 => listing[u][r] = entries[r]
      BY <1>1 DEF Exclusion, Listed
    <2> QED
      BY <2>1, <2>2, <2>3, <2>4
  <1>4. /\ pc'[t] \in {"write", "unlink"} => lock' = t
        /\ pc'[t] = "write" => BlobsOf[res'[t]] \ need'[t] \subseteq blobs
        /\ pc'[t] = "unlink" =>
             \A r \in Result : entries[r] # 0 => listing'[t][r] = entries[r]
    <2>1. pc'[t] = "write" => res'[t] = res[t] /\ need'[t] = BlobsOf[res[t]]
      BY <1>1, LockAfter DEF EnterStore, Exclusion
    <2> QED
      BY <2>1, LockAfter
  <1>5. Locked'
    BY <1>3, <1>4 DEF Locked
  <1>6. Storing'
    BY <1>0, <1>3, <1>4 DEF Storing
  <1>7. Listed'
    BY <1>0, <1>3, <1>4 DEF Listed
  <1> QED
    BY <1>2, <1>5, <1>6, <1>7, LockAfter DEF Exclusion

LEMMA QuietInv ==
  ASSUME Inv, NEW t \in Thread, QuietStep(t)
  PROVE  Inv'
  <1>0. Types /\ clock' = clock /\ catalog' = catalog /\ entries' = entries /\ blobs' = blobs
    BY QuietFiles DEF Inv, origin, files
  <1>1. Types'
    BY QuietTypes
  <1>2. ReadBefore'
    <2> SUFFICES ASSUME NEW u \in Thread PROVE obs'[u] <= clock'
      BY DEF ReadBefore
    <2>1. obs[u] <= clock /\ clock \in Nat /\ obs[u] \in Nat
      BY <1>0 DEF Inv, ReadBefore, Types
    <2>2. CASE u = t
      BY <1>0, <2>1, <2>2, OwnAfter
    <2>3. CASE u # t
      BY <1>0, <2>1, <2>3, OthersStay
    <2> QED
      BY <2>2, <2>3
  <1>3. Probing'
    <2> SUFFICES ASSUME NEW u \in Thread
                 PROVE  /\ pc'[u] \in {"ask", "fetch"} => catalog \subseteq offered'[u]
                        /\ pc'[u] \in {"ask", "fetch", "lease", "store", "write"} => u \in Prober
                        /\ pc'[u] \in {"fetch", "lease", "store", "write"} =>
                             res'[u] \in offered'[u]
                        /\ pc'[u] \in {"lease", "store", "write"} => Verdict[res'[u]] = "ok"
      BY <1>0 DEF Probing
    <2>1. /\ pc[u] \in {"ask", "fetch"} => catalog \subseteq offered[u]
          /\ pc[u] \in {"ask", "fetch", "lease", "store", "write"} => u \in Prober
          /\ pc[u] \in {"fetch", "lease", "store", "write"} => res[u] \in offered[u]
          /\ pc[u] \in {"lease", "store", "write"} => Verdict[res[u]] = "ok"
      BY DEF Inv, Probing
    <2>2. CASE u = t
      BY <2>1, <2>2, OwnAfter
    <2>3. CASE u # t
      BY <1>0, <2>1, <2>3, OthersStay
    <2> QED
      BY <2>2, <2>3
  <1>4. EntriesResolve'
    BY <1>0 DEF Inv, EntriesResolve
  <1>5. PrunedWhenRead'
    <2> SUFFICES ASSUME NEW u \in Thread, pc'[u] = "read", NEW r \in Result, entries[r] # 0
                 PROVE  entries[r] > obs'[u] \/ r \in late'[u]
      BY <1>0 DEF PrunedWhenRead
    <2>1. entries[r] \in Nat /\ obs[u] \in Nat
      BY <1>0 DEF Types
    <2>2. CASE u = t
      <3>1. Expired(t) = {} /\ obs'[u] = obs[u]
        BY <2>2, OwnAfter
      <3>2. listing[t][r] = entries[r]
        BY <2>2, OwnAfter DEF Inv, Exclusion, Listed
      <3>3. entries[r] \notin 1 .. obs[u]
        BY <2>2, <3>1, <3>2 DEF Expired
      <3> QED
        BY <2>1, <3>1, <3>3
    <2>3. CASE u # t
      BY <1>0, <2>3, OthersStay DEF Inv, PrunedWhenRead
    <2> QED
      BY <2>2, <2>3
  <1> QED
    BY <1>1, <1>2, <1>3, <1>4, <1>5, QuietExclusion DEF Inv

(* Inside the lock a thread is alone. *)
LEMMA Alone ==
  ASSUME Inv, NEW t \in Thread, pc[t] \in {"write", "unlink"}
  PROVE  lock = t /\ \A u \in Thread : u # t => pc[u] \notin {"write", "unlink"}
  BY DEF Inv, Exclusion, Locked

(* The writer's step of an import. *)
LEMMA WriteEntryInv ==
  ASSUME Inv, NEW t \in Thread, WriteEntry(t)
  PROVE  Inv'
  <1>0. /\ Types /\ pc[t] = "write" /\ need[t] = {}
        /\ clock' = clock /\ catalog' = catalog /\ listed' = listed /\ blobs' = blobs
        /\ res' = res /\ need' = need /\ listing' = listing
    BY DEF Inv, WriteEntry, origin
  <1>1. /\ entries' = [entries EXCEPT ![res[t]] = obs[t] + Retention]
        /\ pc' = [pc EXCEPT ![t] = "prune"] /\ obs' = [obs EXCEPT ![t] = 0]
        /\ offered' = [offered EXCEPT ![t] = {}]
        /\ late' = [u \in Thread |-> IF pc[u] = "read" THEN late[u] \cup {res[t]} ELSE late[u]]
    BY DEF WriteEntry, Goto
  <1>2. res[t] \in Result
    BY <1>0 DEF Inv, Probing, Types
  <1>3. Types'
    BY <1>0, <1>1, <1>2, ReceiverAssumption DEF Types, Steps
  <1>4. ReadBefore'
    BY <1>0, <1>1 DEF Inv, ReadBefore, Types
  <1>5. Probing'
    <2> SUFFICES ASSUME NEW u \in Thread
                 PROVE  /\ pc'[u] \in {"ask", "fetch"} => catalog \subseteq offered'[u]
                        /\ pc'[u] \in {"ask", "fetch", "lease", "store", "write"} => u \in Prober
                        /\ pc'[u] \in {"fetch", "lease", "store", "write"} =>
                             res[u] \in offered'[u]
                        /\ pc'[u] \in {"lease", "store", "write"} => Verdict[res[u]] = "ok"
      BY <1>0 DEF Probing
    <2>1. CASE u = t
      BY <1>0, <1>1, <2>1 DEF Types
    <2>2. CASE u # t
      <3>1. pc'[u] = pc[u] /\ offered'[u] = offered[u]
        BY <1>0, <1>1, <2>2 DEF Types
      <3> QED
        BY <3>1 DEF Inv, Probing
    <2> QED
      BY <2>1, <2>2
  <1>6. EntriesResolve'
    <2>1. BlobsOf[res[t]] \subseteq blobs
      BY <1>0 DEF Inv, Exclusion, Storing
    <2> QED
      BY <1>0, <1>1, <1>2, <2>1 DEF Inv, EntriesResolve, Types
  <1>7. PrunedWhenRead'
    <2> SUFFICES ASSUME NEW u \in Thread, pc'[u] = "read", NEW r \in Result, entries'[r] # 0
                 PROVE  entries'[r] > obs'[u] \/ r \in late'[u]
      BY DEF PrunedWhenRead
    <2>1. u # t /\ pc[u] = "read" /\ obs'[u] = obs[u] /\ late'[u] = late[u] \cup {res[t]}
      BY <1>0, <1>1 DEF Types
    <2>2. CASE r = res[t]
      BY <2>1, <2>2
    <2>3. CASE r # res[t]
      <3>1. entries'[r] = entries[r]
        BY <1>0, <1>1, <2>3 DEF Types
      <3> QED
        BY <2>1, <3>1 DEF Inv, PrunedWhenRead
    <2> QED
      BY <2>2, <2>3
  <1>8. Exclusion'
    <2>1. \A u \in Thread : pc'[u] \notin {"write", "unlink"}
      BY <1>0, <1>1, Alone DEF Types
    <2> QED
      BY <1>0, <2>1 DEF Inv, Exclusion, Locked, Storing, Listed
  <1> QED
    BY <1>3, <1>4, <1>5, <1>6, <1>7, <1>8 DEF Inv

(* Steps that touch nothing but the files: a blob is added, an expired      *)
(* entry goes, a blob that no entry names goes.                             *)
LEMMA FilesInv ==
  ASSUME Inv, UNCHANGED <<clock, origin, pc, res, obs, offered, late>>,
         entries' \in [Result -> Nat], EntriesResolve', Exclusion',
         \A r \in Result : entries'[r] \in {0, entries[r]}
  PROVE  Inv'
  <1>1. Types' /\ ReadBefore' /\ Probing'
    BY DEF Inv, Types, ReadBefore, Probing, origin
  <1>2. PrunedWhenRead'
    BY DEF Inv, PrunedWhenRead
  <1> QED
    BY <1>1, <1>2 DEF Inv

LEMMA WriteBlobInv ==
  ASSUME Inv, NEW t \in Thread, WriteBlob(t)
  PROVE  Inv'
  <1>1. entries' = entries /\ blobs \subseteq blobs'
    BY DEF WriteBlob
  <1>2. EntriesResolve'
    BY <1>1 DEF Inv, EntriesResolve
  <1>3. Exclusion'
    <2>1. PICK b \in need[t] : blobs' = blobs \cup {b} /\ need' = [need EXCEPT ![t] = @ \ {b}]
      BY DEF WriteBlob
    <2>2. UNCHANGED <<pc, res, lock, listing>> /\ Exclusion
      BY DEF WriteBlob, Inv
    <2>3. need' \in [Thread -> SUBSET Blob]
      BY <2>1, <2>2 DEF Exclusion
    <2>4. Storing'
      <3> SUFFICES ASSUME NEW u \in Thread, pc[u] = "write"
                   PROVE  BlobsOf[res[u]] \ need'[u] \subseteq blobs'
        BY <2>2 DEF Storing
      <3>1. BlobsOf[res[u]] \ need[u] \subseteq blobs /\ need \in [Thread -> SUBSET Blob]
        BY <2>2 DEF Exclusion, Storing
      <3>2. need[u] \subseteq need'[u] \cup {b}
        BY <2>1, <3>1
      <3> QED
        BY <2>1, <3>1, <3>2
    <2> QED
      BY <1>1, <2>2, <2>3, <2>4 DEF Exclusion, Locked, Listed
  <1> QED
    BY <1>1, <1>2, <1>3, FilesInv DEF Inv, Types, WriteBlob

LEMMA UnlinkEntryInv ==
  ASSUME Inv, NEW t \in Thread, UnlinkEntry(t)
  PROVE  Inv'
  <1>1. PICK x \in Expired(t) : /\ entries' = [entries EXCEPT ![x] = 0]
                                /\ listing' = [listing EXCEPT ![t][x] = 0]
    BY DEF UnlinkEntry
  <1>2. entries \in [Result -> Nat] /\ blobs' = blobs
    BY DEF Inv, Types, UnlinkEntry
  <1>3. entries' \in [Result -> Nat] /\ \A r \in Result : entries'[r] \in {0, entries[r]}
    BY <1>1, <1>2
  <1>4. EntriesResolve'
    BY <1>2, <1>3 DEF Inv, EntriesResolve
  <1>5. Exclusion'
    <2>1. UNCHANGED <<pc, res, lock, need>> /\ pc[t] = "unlink" /\ Exclusion /\ x \in Result
      BY <1>1 DEF UnlinkEntry, locals, Inv, Expired
    <2>2. listing' \in [Thread -> [Result -> Nat]]
      BY <1>1, <2>1 DEF Exclusion
    <2>3. Listed'
      <3> SUFFICES ASSUME NEW u \in Thread, pc[u] = "unlink", NEW r \in Result, entries'[r] # 0
                   PROVE  listing'[u][r] = entries'[r]
        BY <2>1 DEF Listed
      <3>1. u = t
        BY <2>1, Alone
      <3>2. r # x /\ entries'[r] = entries[r]
        BY <1>1, <1>2
      <3>3. listing'[t][r] = listing[t][r]
        BY <1>1, <2>1, <3>2 DEF Exclusion
      <3> QED
        BY <2>1, <3>1, <3>2, <3>3 DEF Exclusion, Listed
    <2> QED
      BY <1>2, <2>1, <2>2, <2>3 DEF Exclusion, Locked, Storing
  <1> QED
    BY <1>3, <1>4, <1>5, FilesInv DEF UnlinkEntry, locals

(* A prune's live blobs are those of all entries that are there. *)
LEMMA LiveCovers ==
  ASSUME Inv, NEW t \in Thread, UnlinkBlob(t), NEW r \in Result, entries[r] # 0
  PROVE  BlobsOf[r] \subseteq LiveBlobs(t)
  <1>1. listing[t][r] # 0
    BY DEF UnlinkBlob, Inv, Exclusion, Listed
  <1> QED
    BY <1>1 DEF LiveBlobs

LEMMA UnlinkBlobInv ==
  ASSUME Inv, NEW t \in Thread, UnlinkBlob(t)
  PROVE  Inv'
  <1>1. PICK b \in blobs \ LiveBlobs(t) : blobs' = blobs \ {b}
    BY DEF UnlinkBlob
  <1>2. entries' = entries
    BY DEF UnlinkBlob
  <1>3. \A r \in Result : entries[r] # 0 => b \notin BlobsOf[r]
    BY <1>1, LiveCovers
  <1>4. EntriesResolve'
    BY <1>1, <1>2, <1>3 DEF Inv, EntriesResolve
  <1>5. Exclusion'
    <2>1. UNCHANGED <<pc, res, lock, need, listing>> /\ pc[t] = "unlink" /\ Exclusion
      BY DEF UnlinkBlob, locals, Inv
    <2>2. \A u \in Thread : pc[u] # "write"
      BY <2>1, Alone
    <2> QED
      BY <1>2, <2>1, <2>2 DEF Exclusion, Locked, Storing, Listed
  <1> QED
    BY <1>2, <1>4, <1>5, FilesInv DEF Inv, Types, UnlinkBlob, locals

(* The origin: what it serves only grows where a probe's history grows too. *)
LEMMA OriginInv ==
  ASSUME Inv, Stop \/ Start \/ \E r \in Result : List(r) \/ Withdraw(r)
  PROVE  Inv'
  <1>0. Types
    BY DEF Inv
  <1>1. UNCHANGED <<clock, entries, blobs, lock, listing, pc, res, obs, need, late>>
    BY DEF Stop, Start, List, Withdraw, files, locals
  <1>2. /\ Types'
        /\ \A t \in Thread :
             /\ offered[t] \subseteq offered'[t]
             /\ pc[t] \in {"ask", "fetch"} => catalog' \subseteq catalog \cup offered'[t]
    <2>1. CASE Stop
      BY <1>0, <1>1, <2>1 DEF Types, Stop
    <2>2. CASE Start
      BY <1>0, <1>1, <2>2 DEF Types, Start
    <2>3. CASE \E r \in Result : List(r) \/ Withdraw(r)
      BY <1>0, <1>1, <2>3 DEF Types, List, Withdraw
    <2> QED
      BY <2>1, <2>2, <2>3
  <1>3. ReadBefore' /\ EntriesResolve' /\ PrunedWhenRead'
    BY <1>1 DEF Inv, ReadBefore, EntriesResolve, PrunedWhenRead
  <1>4. Probing'
    <2> SUFFICES ASSUME NEW u \in Thread
                 PROVE  /\ pc[u] \in {"ask", "fetch"} => catalog' \subseteq offered'[u]
                        /\ pc[u] \in {"ask", "fetch", "lease", "store", "write"} => u \in Prober
                        /\ pc[u] \in {"fetch", "lease", "store", "write"} =>
                             res[u] \in offered'[u]
                        /\ pc[u] \in {"lease", "store", "write"} => Verdict[res[u]] = "ok"
      BY <1>1 DEF Probing
    <2>1. /\ pc[u] \in {"ask", "fetch"} => catalog \subseteq offered[u]
          /\ pc[u] \in {"ask", "fetch", "lease", "store", "write"} => u \in Prober
          /\ pc[u] \in {"fetch", "lease", "store", "write"} => res[u] \in offered[u]
          /\ pc[u] \in {"lease", "store", "write"} => Verdict[res[u]] = "ok"
      BY DEF Inv, Probing
    <2>2. /\ offered[u] \subseteq offered'[u]
          /\ pc[u] \in {"ask", "fetch"} => catalog' \subseteq catalog \cup offered'[u]
      BY <1>2
    <2>3. pc[u] \in {"ask", "fetch"} => catalog' \subseteq offered'[u]
      BY <2>1, <2>2
    <2> QED
      BY <2>1, <2>2, <2>3
  <1>5. Exclusion'
    BY <1>1 DEF Inv, Exclusion, Locked, Storing, Listed
  <1> QED
    BY <1>2, <1>3, <1>4, <1>5 DEF Inv

LEMMA CrashTickInv ==
  ASSUME Inv, Crash \/ Tick \/ UNCHANGED vars
  PROVE  Inv'
  <1>1. CASE Crash
    <2>0. Types /\ EntriesResolve
      BY DEF Inv
    <2>1. Types'
      BY <1>1, <2>0 DEF Types, Crash, origin, files, Steps
    <2>2. ReadBefore' /\ Probing' /\ PrunedWhenRead'
      BY <1>1, <2>0 DEF Types, Crash, ReadBefore, Probing, PrunedWhenRead
    <2>3. EntriesResolve'
      BY <1>1, <2>0 DEF Crash, files, EntriesResolve
    <2>4. Exclusion'
      BY <1>1 DEF Crash, Exclusion, Locked, Storing, Listed, NoEntries
    <2> QED
      BY <2>1, <2>2, <2>3, <2>4 DEF Inv
  <1>2. CASE Tick
    <2>1. /\ clock' = clock + 1
          /\ UNCHANGED <<listed, catalog, entries, blobs, lock, listing, pc, res, obs, need,
                         offered, late>>
      BY <1>2 DEF Tick, origin, files, locals
    <2>2. Types' /\ Probing' /\ EntriesResolve' /\ PrunedWhenRead'
      BY <2>1 DEF Inv, Types, Probing, EntriesResolve, PrunedWhenRead
    <2>3. ReadBefore'
      BY <2>1 DEF Inv, Types, ReadBefore
    <2>4. Exclusion'
      BY <2>1 DEF Inv, Exclusion, Locked, Storing, Listed
    <2> QED
      BY <2>2, <2>3, <2>4 DEF Inv
  <1>3. CASE UNCHANGED vars
    BY <1>3 DEF Inv, Types, ReadBefore, Probing, Exclusion, Locked, Storing, Listed,
       EntriesResolve, PrunedWhenRead, vars, origin, files, locals
  <1> QED
    BY <1>1, <1>2, <1>3

LEMMA StepCases ==
  \A t \in Thread : BeginProbe(t) \/ BeginLookup(t) \/ Step(t) =>
    QuietStep(t) \/ WriteBlob(t) \/ WriteEntry(t) \/ UnlinkEntry(t) \/ UnlinkBlob(t)
  BY Zenon DEF Step, Critical, QuietStep

LEMMA InvNext == Inv /\ [Next]_vars => Inv'
  <1> SUFFICES ASSUME Inv, [Next]_vars PROVE Inv'
    OBVIOUS
  <1>1. CASE UNCHANGED vars
    BY <1>1, CrashTickInv
  <1>2. CASE \E r \in Result : List(r) \/ Withdraw(r)
    BY <1>2, OriginInv
  <1>3. CASE Stop \/ Start
    BY <1>3, OriginInv
  <1>4. CASE Crash \/ Tick
    BY <1>4, CrashTickInv
  <1>5. ASSUME NEW t \in Thread, BeginProbe(t) \/ BeginLookup(t) \/ Step(t) PROVE Inv'
    BY <1>5, StepCases, QuietInv, WriteBlobInv, WriteEntryInv, UnlinkEntryInv, UnlinkBlobInv
  <1> QED
    BY <1>1, <1>2, <1>3, <1>4, <1>5 DEF Next

(* The inductive invariant holds in every reachable state. *)
THEOREM Invariance == Spec => []Inv
  BY InitInv, InvNext, PTL DEF Spec

(* Every blob of every entry file is there, whatever failed or crashed      *)
(* (import_bundle and prune of the filesystem cache).                       *)
THEOREM EntriesResolveHolds == Spec => []EntriesResolve
  <1>1. Inv => EntriesResolve
    BY DEF Inv
  <1> QED
    BY <1>1, Invariance, PTL

(* A reader that has pruned meets an expired entry only if an import wrote  *)
(* it in between (candidates, lease_until).                                 *)
THEOREM PrunedWhenReadHolds == Spec => []PrunedWhenRead
  <1>1. Inv => PrunedWhenRead
    BY DEF Inv
  <1> QED
    BY <1>1, Invariance, PTL

-----------------------------------------------------------------------------
(* The action properties. *)

(* Only the four steps on files change an entry or a blob. *)
LEMMA FilesStay ==
  ASSUME [Next]_vars,
         ~ \E t \in Thread : WriteBlob(t) \/ WriteEntry(t) \/ UnlinkEntry(t) \/ UnlinkBlob(t)
  PROVE  entries' = entries /\ blobs' = blobs
  <1>1. CASE UNCHANGED vars
    BY <1>1 DEF vars, files
  <1>2. CASE (\E r \in Result : List(r) \/ Withdraw(r)) \/ Stop \/ Start \/ Crash \/ Tick
    BY <1>2 DEF List, Withdraw, Stop, Start, Crash, Tick, files
  <1>3. ASSUME NEW t \in Thread, BeginProbe(t) \/ BeginLookup(t) \/ Step(t)
        PROVE  entries' = entries /\ blobs' = blobs
    BY <1>3, StepCases, QuietFiles DEF files
  <1> QED
    BY <1>1, <1>2, <1>3 DEF Next

LEMMA LeasedStep ==
  ASSUME Inv, [Next]_vars, NEW r \in Result, entries[r] > clock
  PROVE  entries'[r] # 0 /\ BlobsOf[r] \subseteq blobs'
  <1>0. /\ entries \in [Result -> Nat] /\ clock \in Nat /\ obs \in [Thread -> Nat]
        /\ entries[r] # 0 /\ BlobsOf[r] \subseteq blobs
    BY DEF Inv, Types, EntriesResolve
  <1>1. CASE entries' = entries /\ blobs \subseteq blobs'
    BY <1>0, <1>1
  <1>2. ASSUME NEW t \in Thread, WriteEntry(t) PROVE entries'[r] # 0 /\ BlobsOf[r] \subseteq blobs'
    <2>1. entries' = [entries EXCEPT ![res[t]] = obs[t] + Retention] /\ blobs' = blobs
      BY <1>2 DEF WriteEntry
    <2>2. obs[t] + Retention # 0
      BY <1>0, ReceiverAssumption
    <2> QED
      BY <1>0, <2>1, <2>2
  <1>3. ASSUME NEW t \in Thread, UnlinkEntry(t) PROVE entries'[r] # 0 /\ BlobsOf[r] \subseteq blobs'
    <2>1. PICK x \in Expired(t) : entries' = [entries EXCEPT ![x] = 0]
      BY <1>3 DEF UnlinkEntry
    <2>2. obs[t] <= clock /\ listing[t][x] \in 1 .. obs[t] /\ x \in Result
      BY <2>1 DEF Inv, ReadBefore, Expired
    <2>3. listing[t][r] = entries[r]
      BY <1>0, <1>3 DEF UnlinkEntry, Inv, Exclusion, Listed
    <2>4. x # r
      BY <1>0, <2>2, <2>3
    <2> QED
      BY <1>0, <1>3, <2>1, <2>4 DEF UnlinkEntry
  <1>4. ASSUME NEW t \in Thread, UnlinkBlob(t) PROVE entries'[r] # 0 /\ BlobsOf[r] \subseteq blobs'
    <2>1. PICK b \in blobs \ LiveBlobs(t) : blobs' = blobs \ {b}
      BY <1>4 DEF UnlinkBlob
    <2>2. b \notin BlobsOf[r]
      BY <1>0, <1>4, <2>1, LiveCovers
    <2> QED
      BY <1>0, <1>4, <2>1, <2>2 DEF UnlinkBlob
  <1>5. ASSUME NEW t \in Thread, WriteBlob(t) PROVE entries' = entries /\ blobs \subseteq blobs'
    BY <1>5 DEF WriteBlob
  <1> QED
    BY <1>1, <1>2, <1>3, <1>4, <1>5, FilesStay

LEMMA AdmittedStep ==
  ASSUME Inv, [Next]_vars, NEW r \in Result, entries'[r] # entries[r], entries'[r] # 0
  PROVE  /\ Verdict[r] = "ok"
         /\ \E t \in Prober : pc[t] = "write" /\ res[t] = r /\ r \in offered[t]
  <1>0. entries \in [Result -> Nat]
    BY DEF Inv, Types
  <1>1. PICK t \in Thread : WriteBlob(t) \/ WriteEntry(t) \/ UnlinkEntry(t) \/ UnlinkBlob(t)
    BY FilesStay
  <1>2. WriteEntry(t)
    <2>1. ~WriteBlob(t) /\ ~UnlinkBlob(t)
      BY DEF WriteBlob, UnlinkBlob
    <2>2. ~UnlinkEntry(t)
      BY <1>0 DEF UnlinkEntry, Expired
    <2> QED
      BY <1>1, <2>1, <2>2
  <1>3. pc[t] = "write" /\ entries' = [entries EXCEPT ![res[t]] = obs[t] + Retention]
    BY <1>2 DEF WriteEntry
  <1>4. r = res[t]
    BY <1>0, <1>3
  <1>5. t \in Prober /\ res[t] \in offered[t] /\ Verdict[res[t]] = "ok"
    BY <1>3 DEF Inv, Probing
  <1> QED
    BY <1>3, <1>4, <1>5

(* What is leased stays, for any threads, results that share artifacts, and *)
(* clock readings (prune).                                                  *)
THEOREM LeasedStaysHolds == Spec => LeasedStays
  <1>1. Inv /\ [Next]_vars =>
          [\A r \in Result : entries[r] > clock =>
             entries'[r] # 0 /\ BlobsOf[r] \subseteq blobs']_vars
    BY LeasedStep
  <1> QED
    BY <1>1, Invariance, PTL DEF Spec, LeasedStays

(* An entry is written only for a result that policy admits and that the    *)
(* origin served since the probe began (import_from_peer).                  *)
THEOREM OnlyOfferedAdmittedHolds == Spec => OnlyOfferedAdmitted
  <1>1. Inv /\ [Next]_vars =>
          [\A r \in Result : entries'[r] # entries[r] /\ entries'[r] # 0 =>
             /\ Verdict[r] = "ok"
             /\ \E t \in Prober : pc[t] = "write" /\ res[t] = r /\ r \in offered[t]]_vars
    BY AdmittedStep
  <1> QED
    BY <1>1, Invariance, PTL DEF Spec, OnlyOfferedAdmitted

-----------------------------------------------------------------------------
(* Type correctness.  There are calls left to make until a thread is        *)
(* through with the cache, and another one after the call of candidates.    *)

Shaped(p) ==
  /\ p \in Seq(Calls)
  /\ p # <<>> /\ p[1] = "candidates" => Len(p) >= 2
  /\ \A i \in 2 .. Len(p) : p[i] # "candidates"

Planned ==
  /\ plan \in [Thread -> Seq(Calls)]
  /\ \A t \in Thread : /\ Shaped(plan[t])
                       /\ pc[t] \notin {"idle", "evidence"} => plan[t] # <<>>

Rest ==
  /\ clock \in 0 .. MaxTime /\ up \in BOOLEAN /\ edits \in 0 .. MaxEdits
  /\ listed \subseteq Packaged /\ catalog \subseteq Publishable
  /\ blobs \subseteq Blob /\ lock \in Thread \cup {NoThread}

ProbePlan == <<"candidates", "get_blob", "summary", "lease_until", "lease_until again">>

LEMMA Shapes ==
  /\ Shaped(<<>>) /\ Shaped(<<"candidates", "get_blob">>) /\ Shaped(<<"summary">>)
  /\ Shaped(ProbePlan) /\ ProbePlan # <<>>
  <1>1. Shaped(<<>>)
    BY DEF Shaped, Calls
  <1>2. Shaped(<<"candidates", "get_blob">>)
    BY DEF Shaped, Calls
  <1>3. Shaped(<<"summary">>)
    BY DEF Shaped, Calls
  <1>4. ProbePlan \in Seq(Calls) /\ Len(ProbePlan) >= 2 /\ ProbePlan # <<>>
    BY DEF ProbePlan, Calls
  <1>5. /\ Len(ProbePlan) = 5 /\ ProbePlan[2] = "get_blob" /\ ProbePlan[3] = "summary"
        /\ ProbePlan[4] = "lease_until" /\ ProbePlan[5] = "lease_until again"
    BY DEF ProbePlan
  <1>6. \A i \in 2 .. 5 : i = 2 \/ i = 3 \/ i = 4 \/ i = 5
    OBVIOUS
  <1>7. \A i \in 2 .. Len(ProbePlan) : ProbePlan[i] # "candidates"
    BY <1>5, <1>6
  <1>8. Shaped(ProbePlan)
    BY <1>4, <1>7, Zenon DEF Shaped
  <1> QED
    BY <1>1, <1>2, <1>3, <1>4, <1>8

LEMMA TailShaped ==
  ASSUME NEW p, Shaped(p), p # <<>>
  PROVE  Shaped(Tail(p))
  <1>1. /\ p \in Seq(Calls) /\ Len(p) \in Nat
        /\ \A i \in 2 .. Len(p) : p[i] # "candidates"
    BY DEF Shaped
  <1>2. /\ Tail(p) \in Seq(Calls) /\ Len(Tail(p)) = Len(p) - 1
        /\ \A i \in 1 .. Len(Tail(p)) : Tail(p)[i] = p[i + 1]
    BY <1>1, HeadTailProperties
  <1>3. \A i \in 1 .. Len(Tail(p)) : Tail(p)[i] # "candidates"
    BY <1>1, <1>2
  <1>4. Tail(p) # <<>> => 1 \in 1 .. Len(Tail(p))
    BY <1>2, EmptySeq
  <1> QED
    BY <1>2, <1>3, <1>4 DEF Shaped

LEMMA TailTailShaped ==
  ASSUME NEW p, Shaped(p), p # <<>>, Head(p) = "candidates"
  PROVE  Shaped(Tail(Tail(p)))
  <1>0. p \in Seq(Calls)
    BY DEF Shaped
  <1>1. p \in Seq(Calls) /\ p[1] = "candidates"
    BY <1>0
  <1>2. Len(p) >= 2 /\ Len(p) \in Nat
    BY <1>1 DEF Shaped
  <1>3. Len(Tail(p)) = Len(p) - 1
    BY <1>1, HeadTailProperties
  <1>4. Tail(p) # <<>>
    <2>1. Len(<<>>) = 0
      OBVIOUS
    <2> QED
      BY <1>2, <1>3, <2>1
  <1> QED
    BY <1>4, TailShaped

(* A step gives its thread a plan and a place that go together. *)
Moves(t, p, step) ==
  /\ Shaped(p) /\ step \in Steps /\ (step \notin {"idle", "evidence"} => p # <<>>)
  /\ plan' = [plan EXCEPT ![t] = p] /\ pc' = [pc EXCEPT ![t] = step]

LEMMA MovesPlanned ==
  ASSUME Types, Planned, NEW t \in Thread, NEW p, NEW step, Moves(t, p, step)
  PROVE  Planned'
  <1>1. p \in Seq(Calls)
    BY DEF Moves, Shaped
  <1>2. plan' \in [Thread -> Seq(Calls)]
    BY <1>1 DEF Moves, Planned
  <1>3. ASSUME NEW u \in Thread
        PROVE  Shaped(plan'[u]) /\ (pc'[u] \notin {"idle", "evidence"} => plan'[u] # <<>>)
    <2>1. CASE u = t
      <3>1. plan'[u] = p /\ pc'[u] = step
        BY <2>1 DEF Moves, Planned, Types
      <3> QED
        BY <3>1 DEF Moves
    <2>2. CASE u # t
      <3>1. plan'[u] = plan[u] /\ pc'[u] = pc[u]
        BY <2>2 DEF Moves, Planned, Types
      <3> QED
        BY <3>1 DEF Planned
    <2> QED
      BY <2>1, <2>2
  <1> QED
    BY <1>2, <1>3 DEF Planned

LEMMA ProceedMoves ==
  ASSUME NEW t \in Thread, NEW rest, Shaped(rest), Proceed(t, rest)
  PROVE  \E step : Moves(t, rest, step)
  <1>1. CASE rest # <<>>
    <2>1. Moves(t, rest, "prune")
      BY <1>1 DEF Proceed, Goto, Moves, Steps
    <2> QED
      BY <2>1
  <1>2. CASE rest = <<>>
    <2>1. Moves(t, rest, "evidence") \/ Moves(t, rest, "idle")
      BY <1>2 DEF Proceed, Goto, Moves, Steps
    <2> QED
      BY <2>1
  <1> QED
    BY <1>1, <1>2

LEMMA StepMoves ==
  ASSUME Types, Planned, NEW t \in Thread, BeginProbe(t) \/ BeginLookup(t) \/ Step(t)
  PROVE  \E p, step : Moves(t, p, step)
  <1>0. /\ Shaped(plan[t]) /\ plan = [plan EXCEPT ![t] = plan[t]]
        /\ pc = [pc EXCEPT ![t] = pc[t]] /\ pc[t] \in Steps
        /\ pc[t] \notin {"idle", "evidence"} => plan[t] # <<>>
    BY DEF Planned, Types
  <1>1. CASE Done(t)
    <2>1. Moves(t, <<>>, "idle")
      BY <1>1, Shapes DEF Done, Goto, Moves, Steps
    <2> QED
      BY <2>1
  <1>2. CASE BeginProbe(t)
    <2>1. plan' = [plan EXCEPT ![t] = ProbePlan] /\ pc' = [pc EXCEPT ![t] = "ask"]
      BY <1>2 DEF BeginProbe, Goto, ProbePlan
    <2>2. Moves(t, ProbePlan, "ask")
      BY <2>1, Shapes DEF Moves, Steps
    <2> QED
      BY <2>2
  <1>3. CASE BeginLookup(t)
    <2>1. Moves(t, <<"candidates", "get_blob">>, "prune")
      BY <1>3, Shapes DEF BeginLookup, Goto, Moves, Steps
    <2> QED
      BY <2>1
  <1>4. ASSUME plan' = plan, pc[t] \notin {"idle", "evidence"},
               NEW step \in Steps, Goto(t, step)
        PROVE  Moves(t, plan[t], step)
    BY <1>0, <1>4 DEF Goto, Moves
  <1>5. CASE \/ Ask(t) \/ Fetch(t) \/ EnterStore(t) \/ WriteEntry(t)
             \/ ReadClock(t) \/ EnterPrune(t) \/ LeavePrune(t)
    <2>1. plan' = plan /\ pc[t] \notin {"idle", "evidence"}
      BY <1>5 DEF Ask, Fetch, EnterStore, WriteEntry, ReadClock, EnterPrune, LeavePrune
    <2>2. \E step \in {"fetch", "lease", "write", "prune", "enter", "unlink", "read"} :
            Goto(t, step)
      BY <1>5 DEF Ask, Fetch, EnterStore, WriteEntry, ReadClock, EnterPrune, LeavePrune
    <2>3. {"fetch", "lease", "write", "prune", "enter", "unlink", "read"} \subseteq Steps
      BY DEF Steps
    <2> QED
      BY <1>4, <2>1, <2>2, <2>3
  <1>6. CASE CheckLease(t)
    <2>1. CASE Goto(t, "store") /\ UNCHANGED <<plan, res, obs, need, offered, late>>
      <3>1. Moves(t, plan[t], "store")
        BY <1>4, <1>6, <2>1 DEF CheckLease, Steps
      <3> QED
        BY <3>1
    <2> QED
      BY <1>1, <1>6, <2>1 DEF CheckLease
  <1>7. CASE WriteBlob(t) \/ UnlinkEntry(t) \/ UnlinkBlob(t)
    <2>1. plan' = plan /\ pc' = pc /\ pc[t] \notin {"idle", "evidence"}
      BY <1>7 DEF WriteBlob, UnlinkEntry, UnlinkBlob, locals
    <2>2. Moves(t, plan[t], pc[t])
      BY <1>0, <2>1 DEF Moves
    <2> QED
      BY <2>2
  <1>8. CASE ReadCandidates(t)
    <2>1. plan[t] # <<>> /\ Head(plan[t]) = "candidates"
      BY <1>0, <1>8 DEF ReadCandidates
    <2>2. Shaped(Tail(plan[t])) /\ Shaped(Tail(Tail(plan[t])))
      BY <1>0, <2>1, TailShaped, TailTailShaped
    <2>3. \E rest : Shaped(rest) /\ Proceed(t, rest)
      BY <1>8, <2>2 DEF ReadCandidates
    <2> QED
      BY <2>3, ProceedMoves
  <1>9. CASE FindBlob(t)
    <2>1. plan[t] # <<>> /\ pc[t] \notin {"idle", "evidence"}
      BY <1>0, <1>9 DEF FindBlob
    <2>2. CASE Goto(t, "open") /\ UNCHANGED <<plan, need, obs, late>>
      <3>1. Moves(t, plan[t], "open")
        BY <1>4, <2>1, <2>2 DEF Steps
      <3> QED
        BY <3>1
    <2>3. CASE Proceed(t, Tail(plan[t]))
      BY <1>0, <2>1, <2>3, TailShaped, ProceedMoves
    <2> QED
      BY <1>9, <2>2, <2>3 DEF FindBlob
  <1>10. CASE OpenBlob(t) \/ ReadSummary(t) \/ ReadLease(t)
    <2>1. plan[t] # <<>>
      BY <1>0, <1>10 DEF OpenBlob, ReadSummary, ReadLease
    <2>2. Shaped(Tail(plan[t]))
      BY <1>0, <2>1, TailShaped
    <2>3. Done(t) \/ \E rest : Shaped(rest) /\ Proceed(t, rest)
      BY <1>0, <1>10, <2>2, Shapes DEF OpenBlob, ReadSummary, ReadLease
    <2> QED
      BY <1>1, <2>3, ProceedMoves
  <1>11. CASE Refused(t)
    <2>1. Moves(t, <<"summary">>, "prune")
      BY <1>11, Shapes DEF Refused, Goto, Moves, Steps
    <2> QED
      BY <2>1
  <1>12. CASE Miss(t) \/ WriteFails(t) \/ PruneFails(t) \/ WriteEvidence(t)
    BY <1>1, <1>11, <1>12 DEF Miss, WriteFails, PruneFails, WriteEvidence
  <1> QED
    BY <1>2, <1>3, <1>5, <1>6, <1>7, <1>8, <1>9, <1>10, <1>12, Zenon DEF Step, Critical

LEMMA StepRest ==
  ASSUME Inv, Rest, NEW t \in Thread, BeginProbe(t) \/ BeginLookup(t) \/ Step(t)
  PROVE  Rest'
  <1>0. /\ \A r \in Result : BlobsOf[r] \subseteq Blob
        /\ blobs \subseteq Blob /\ lock \in Thread \cup {NoThread}
    BY ResultAssumption DEF Rest
  <1>1. SUFFICES /\ blobs' \subseteq Blob /\ lock' \in Thread \cup {NoThread}
                 /\ UNCHANGED <<clock, origin>>
    BY DEF Rest, origin
  <1>2. UNCHANGED <<clock, origin>>
    BY StepCases, QuietFiles DEF WriteBlob, WriteEntry, UnlinkEntry, UnlinkBlob
  <1>3. blobs' \subseteq Blob
    <2>1. CASE WriteBlob(t)
      <3>1. need[t] \subseteq Blob
        BY DEF Inv, Exclusion
      <3> QED
        BY <1>0, <2>1, <3>1 DEF WriteBlob
    <2>2. CASE UnlinkBlob(t) \/ WriteEntry(t) \/ UnlinkEntry(t)
      BY <1>0, <2>2 DEF UnlinkBlob, WriteEntry, UnlinkEntry
    <2> QED
      BY <1>0, <2>1, <2>2, StepCases, QuietFiles DEF files
  <1>4. lock' \in Thread \cup {NoThread}
    BY <1>0 DEF Step, Critical, BeginProbe, BeginLookup, Ask, Fetch, Miss, CheckLease, EnterStore,
       WriteBlob, WriteEntry, WriteFails, ReadClock, EnterPrune, UnlinkEntry, UnlinkBlob,
       LeavePrune, PruneFails, ReadCandidates, FindBlob, OpenBlob, ReadSummary, ReadLease,
       WriteEvidence
  <1> QED
    BY <1>2, <1>3, <1>4

LEMMA TypesInit == Init => Rest /\ Planned
  <1> SUFFICES ASSUME Init PROVE Rest /\ Planned
    OBVIOUS
  <1>1. Rest
    BY ResultAssumption, ReceiverAssumption DEF Init, Rest
  <1>2. Planned
    BY Shapes DEF Init, Planned, Shaped
  <1> QED
    BY <1>1, <1>2

LEMMA TypesNext == Inv /\ Rest /\ Planned /\ [Next]_vars => Rest' /\ Planned'
  <1> SUFFICES ASSUME Inv, Rest, Planned, [Next]_vars PROVE Rest' /\ Planned'
    OBVIOUS
  <1>0. Types
    BY DEF Inv
  <1>1. CASE UNCHANGED vars
    BY <1>1 DEF Rest, Planned, vars, origin, files, locals
  <1>2. CASE Stop \/ Start \/ \E r \in Result : List(r) \/ Withdraw(r)
    <2>1. UNCHANGED <<clock, blobs, lock, plan, pc>>
      BY <1>2 DEF Stop, Start, List, Withdraw, files, locals
    <2>2. edits' \in 0 .. MaxEdits
      BY <1>2, ReceiverAssumption DEF Rest, Stop, Start, List, Withdraw
    <2>3. listed' \subseteq Packaged /\ catalog' \subseteq Publishable
      BY <1>2 DEF Rest, Stop, Start, List, Withdraw
    <2>4. up' \in BOOLEAN
      BY <1>2, Zenon DEF Rest, Stop, Start, List, Withdraw
    <2> QED
      BY <2>1, <2>2, <2>3, <2>4 DEF Rest, Planned
  <1>3. CASE Crash
    <2>1. Rest'
      BY <1>3 DEF Crash, Rest, origin, files
    <2>2. Planned'
      BY <1>3, Shapes DEF Crash, Planned, Shaped
    <2> QED
      BY <2>1, <2>2
  <1>4. CASE Tick
    <2>1. clock' \in 0 .. MaxTime
      BY <1>4, ReceiverAssumption DEF Tick, Rest
    <2> QED
      BY <1>4, <2>1 DEF Tick, Rest, Planned, origin, files, locals
  <1>5. ASSUME NEW t \in Thread, BeginProbe(t) \/ BeginLookup(t) \/ Step(t)
        PROVE  Rest' /\ Planned'
    <2>1. PICK p, step : Moves(t, p, step)
      BY <1>0, <1>5, StepMoves
    <2> QED
      BY <1>0, <1>5, <2>1, MovesPlanned, StepRest
  <1> QED
    BY <1>1, <1>2, <1>3, <1>4, <1>5 DEF Next

(* Every variable keeps its type: above all, no thread runs out of calls    *)
(* of its plan while it is still reading (candidates, get_blob and          *)
(* lease_until as run_receiver_pilot and a reader call them).               *)
THEOREM TypeCorrect == Spec => []TypeOK
  <1>1. Inv /\ Rest /\ Planned => TypeOK
    BY DEF Inv, Types, Exclusion, Rest, Planned, TypeOK
  <1> QED
    BY <1>1, Invariance, TypesInit, TypesNext, PTL DEF Spec
=============================================================================
