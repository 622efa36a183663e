----------------------------- MODULE Evaluation -----------------------------
(***************************************************************************)
(* Evaluation runs and their event log: the runners of evaluation.py, the  *)
(* shadow and the conditional shadow of one operation (shadow.py,          *)
(* conditional.py), and the JSONL log and its reader (metrics.py).         *)
(*                                                                         *)
(* Runs are processes.  They share the store and append to one log; each   *)
(* may be interrupted anywhere, in the middle of a line too, and be run    *)
(* again under its old evaluation id.  Lookup and publication, which       *)
(* module ResultStore takes apart, are single steps here.                  *)
(***************************************************************************)
EXTENDS Integers, Sequences, FiniteSets

CONSTANTS
  Run, Id, IdOf,       \* processes, and the evaluation id given to each
  ModeOf,              \* [Run -> "evaluate" (run, pdf-run) or "revalidate"]
  Url, Urls,           \* the manifest's urls, as a set and in their order
  Repetitions,
  Version,             \* what a source may serve
  Plain,               \* the versions served without etag and last_modified
  Freshness,           \* freshness_seconds
  None, NoTail, Torn, Glued,
  MaxTime, MaxEdits    \* bounds: last clock reading, changes of sources

(* what validate_evaluation_manifest checks of the workload *)
Workload ==
  /\ Urls \in Seq(Url) /\ Urls # <<>> /\ Repetitions \in Nat \ {0}
  /\ Freshness \in Nat \ {0}
ASSUME WorkloadAssumption ==
  /\ Workload
  /\ IdOf \in [Run -> Id] /\ ModeOf \in [Run -> {"evaluate", "revalidate"}]
  /\ Plain \subseteq Version
  /\ MaxTime \in Nat /\ MaxEdits \in Nat

(* A published result, and what an event says of one operation. *)
Stored ==
  [action : ({"fetch"} \X Url) \cup ({"convert"} \X Version), output : Version, at : Nat]
Line ==
  [run : Run, case : Nat, id : Id, at : Nat,
   candidate : Stored \cup {None}, validated : BOOLEAN]
ASSUME NoneAssumption == None \notin Stored \cup Version

VARIABLES
  clock, source, edits,  \* [Url -> Version] and how often it was changed
  results,               \* published: [action, output, at]
  validations,           \* put_validation: [of : a result, at]
  log, tail,             \* terminated lines; what follows the last newline
  stage, case,           \* [Run -> ...]: where a run is, in which operation
  now, body, cand, way, status,   \* its evaluation_time, the fetched bytes,
                         \* the candidate, "shadow" or "conditional", 304/200
  recorded,              \* history: events whose record() returned
  prepared               \* history: [Run -> an evaluation had ended before it]

store == <<results, validations>>
world == <<clock, source, edits>>
file == <<log, tail>>
locals == <<now, body, cand, way, status>>
evaluationVars == <<world, store, file, stage, case, locals, recorded, prepared>>

Stage == {"off", "next", "lookup", "ask", "execute", "save", "record", "publish",
          "ended", "dead"}

EvaluationTypeOK ==
  /\ clock \in Nat /\ source \in [Url -> Version] /\ edits \in Nat
  /\ results \subseteq Stored /\ validations \subseteq [of : Stored, at : Nat]
  /\ log \in Seq(Line \cup {Glued}) /\ tail \in Line \cup {NoTail, Torn}
  /\ stage \in [Run -> Stage] /\ case \in [Run -> Nat]
  /\ now \in [Run -> Nat] /\ body \in [Run -> Version \cup {None}]
  /\ cand \in [Run -> Stored \cup {None}]
  /\ way \in [Run -> {"shadow", "conditional"}] /\ status \in [Run -> {200, 304}]
  /\ recorded \subseteq Line /\ prepared \in [Run -> BOOLEAN]

Operations(r) == IF ModeOf[r] = "evaluate" THEN 2 ELSE 1

(* expected_evaluations of the reports *)
Expected(r) == Repetitions * Len(Urls) * Operations(r)

UrlAt(r, i) == Urls[(((i - 1) \div Operations(r)) % Len(Urls)) + 1]
UrlOf(r) == UrlAt(r, case[r])
Fetches(r) == ModeOf[r] = "revalidate" \/ case[r] % 2 = 1

(* The conversion's action holds the digest of the fetched bytes. *)
Action(r) == IF Fetches(r) THEN <<"fetch", UrlOf(r)>> ELSE <<"convert", body[r]>>

EvaluationInit ==
  /\ clock = 0 /\ source \in [Url -> Version] /\ edits = 0
  /\ results = {} /\ validations = {}
  /\ log = <<>> /\ tail = NoTail
  /\ stage = [r \in Run |-> "off"] /\ case = [r \in Run |-> 0]
  /\ now = [r \in Run |-> 0] /\ body = [r \in Run |-> None]
  /\ cand = [r \in Run |-> None] /\ way = [r \in Run |-> "shadow"]
  /\ status = [r \in Run |-> 200]
  /\ recorded = {} /\ prepared = [r \in Run |-> FALSE]

Proceed(r, step) == stage' = [stage EXCEPT ![r] = step]

(* What a process had in memory goes with it. *)
Exit(r, step) ==
  /\ Proceed(r, step) /\ case' = [case EXCEPT ![r] = 0]
  /\ now' = [now EXCEPT ![r] = 0] /\ body' = [body EXCEPT ![r] = None]
  /\ cand' = [cand EXCEPT ![r] = None] /\ way' = [way EXCEPT ![r] = "shadow"]
  /\ status' = [status EXCEPT ![r] = 200]
  /\ prepared' = [prepared EXCEPT ![r] = FALSE]

-----------------------------------------------------------------------------
(* The runners. *)

Begin(r) ==
  /\ stage[r] = "off" /\ Proceed(r, "next")
  /\ prepared' = [prepared EXCEPT ![r] =
       \E q \in Run : ModeOf[q] = "evaluate" /\ stage[q] = "ended"]
  /\ UNCHANGED <<world, store, file, case, locals, recorded>>

(* The head of the loops: the clock is read once for a URL. *)
NextCase(r) ==
  /\ stage[r] = "next" /\ case[r] < Expected(r)
  /\ case' = [case EXCEPT ![r] = @ + 1]
  /\ now' = [now EXCEPT ![r] = IF case[r] % Operations(r) = 0 THEN clock ELSE @]
  /\ way' = [way EXCEPT ![r] = IF ModeOf[r] = "evaluate" THEN "shadow" ELSE "conditional"]
  /\ cand' = [cand EXCEPT ![r] = None] /\ status' = [status EXCEPT ![r] = 200]
  /\ Proceed(r, "lookup")
  /\ UNCHANGED <<world, store, file, body, recorded, prepared>>

-----------------------------------------------------------------------------
(* read_jsonl.  A last line without its newline may be what an interrupted  *)
(* write left; anywhere else a line that does not parse is an error.        *)

\* Mutant: lines that do not parse are skipped wherever they are.
ReadableSkipping == TRUE

Readable == \A i \in 1 .. Len(log) : log[i] # Glued

Lines == {log[i] : i \in 1 .. Len(log)} \ {Glued}
Events == IF tail \in {NoTail, Torn} THEN Lines ELSE Lines \cup {tail}

\* Mutant: the events of the whole log are counted.
OfIdAny(i) == Events

OfId(i) == {e \in Events : e.id = i}

(* summarize: of its counts and sums, the one the reports are complete by *)
Evaluations(i) == Cardinality(OfId(i))

(* The check evaluation_complete of the report for the runs of an id. *)
Complete(r) == Readable /\ Evaluations(IdOf[r]) = Expected(r)

(* promotion_report, revalidation_report: the run returns what it reads or  *)
(* fails on a malformed line.                                               *)
Report(r) ==
  /\ stage[r] = "next" /\ case[r] = Expected(r)
  /\ \/ Readable /\ Exit(r, "ended")
     \/ ~Readable /\ Exit(r, "dead")
  /\ UNCHANGED <<world, store, file, recorded>>

-----------------------------------------------------------------------------
(* run_shadow and run_conditional_http_shadow. *)

FreshAt(c, t) ==
  \/ c.at + Freshness >= t
  \/ \E v \in validations : v.of = c /\ v.at + Freshness >= t

Newest(S) == {c \in S : \A d \in S : d.at <= c.at}
Held(r) == {c \in results : c.action = Action(r)}

\* Mutant: a candidate that has expired is not one to revalidate.
RevalidatableFresh(r) == {c \in Held(r) : FreshAt(c, now[r])}

(* candidate_for_revalidation: freshness does not matter *)
Revalidatable(r) == Held(r)

Reusable(r) == {c \in Held(r) : FreshAt(c, now[r])}

Select(r, S) ==
  \/ S = {} /\ cand' = [cand EXCEPT ![r] = None]
  \/ \E c \in Newest(S) : cand' = [cand EXCEPT ![r] = c]

(* A conditional run without a candidate, or with one that has no validator *)
(* to send, is a shadow run, which looks up again.                          *)
Lookup(r) ==
  /\ stage[r] = "lookup"
  /\ \/ /\ way[r] = "shadow" /\ Select(r, Reusable(r))
        /\ Proceed(r, "execute") /\ UNCHANGED way
     \/ /\ way[r] = "conditional" /\ Select(r, Revalidatable(r))
        /\ IF cand'[r] = None \/ cand'[r].output \in Plain
           THEN way' = [way EXCEPT ![r] = "shadow"] /\ UNCHANGED stage
           ELSE Proceed(r, "ask") /\ UNCHANGED way
  /\ UNCHANGED <<world, store, file, case, now, body, status, recorded, prepared>>

(* conditional_get: 304 when the validator still holds, or the new bytes *)
ConditionalGet(r) ==
  /\ stage[r] = "ask"
  /\ \/ /\ source[UrlOf(r)] = cand[r].output
        /\ status' = [status EXCEPT ![r] = 304] /\ UNCHANGED body
        /\ Proceed(r, "execute")
     \/ /\ source[UrlOf(r)] # cand[r].output
        /\ status' = [status EXCEPT ![r] = 200]
        /\ body' = [body EXCEPT ![r] = source[UrlOf(r)]] /\ Proceed(r, "save")
  /\ UNCHANGED <<world, store, file, case, now, cand, way, recorded, prepared>>

(* The operation runs in any case; a conversion is a function of its input. *)
Execute(r) ==
  /\ stage[r] = "execute"
  /\ body' = [body EXCEPT ![r] = IF Fetches(r) THEN source[UrlOf(r)] ELSE @]
  /\ Proceed(r, IF way[r] = "shadow" THEN "record" ELSE "save")
  /\ UNCHANGED <<world, store, file, case, now, cand, way, status, recorded, prepared>>

Published(r) == [action |-> Action(r), output |-> body[r], at |-> now[r]]
Verified(r) == way[r] = "conditional" /\ status[r] = 304 /\ body[r] = cand[r].output

(* What an event says of the operation, and (run, case) which one it was. *)
Event(r) ==
  [run |-> r, case |-> case[r], id |-> IdOf[r], at |-> now[r],
   candidate |-> cand[r], validated |-> Verified(r)]

\* Mutant: no validation is written for a candidate that is fresh anyway.
SaveIfStale(r) ==
  /\ stage[r] = "save" /\ Proceed(r, "record")
  /\ \/ /\ Verified(r) /\ UNCHANGED results
        /\ validations' = IF FreshAt(cand[r], now[r]) THEN validations
                          ELSE validations \cup {[of |-> cand[r], at |-> now[r]]}
     \/ /\ ~Verified(r) /\ UNCHANGED validations
        /\ results' = results \cup {Published(r)}
  /\ UNCHANGED <<world, file, case, locals, recorded, prepared>>

(* The conditional run stores before it records. *)
Save(r) ==
  /\ stage[r] = "save" /\ Proceed(r, "record")
  /\ \/ /\ Verified(r) /\ UNCHANGED results
        /\ validations' = validations \cup {[of |-> cand[r], at |-> now[r]]}
     \/ /\ ~Verified(r) /\ UNCHANGED validations
        /\ results' = results \cup {Published(r)}
  /\ UNCHANGED <<world, file, case, locals, recorded, prepared>>

(* JsonlMetrics.record: one appended line, joined to what an interrupted    *)
(* write left behind.  The shadow run publishes after it.                   *)
Record(r) ==
  /\ stage[r] = "record"
  /\ log' = Append(log, IF tail = NoTail THEN Event(r) ELSE Glued)
  /\ tail' = NoTail /\ recorded' = recorded \cup {Event(r)}
  /\ Proceed(r, IF way[r] = "shadow" THEN "publish" ELSE "next")
  /\ UNCHANGED <<world, store, case, locals, prepared>>

Publish(r) ==
  /\ stage[r] = "publish" /\ results' = results \cup {Published(r)}
  /\ Proceed(r, "next")
  /\ UNCHANGED <<world, validations, file, case, locals, recorded, prepared>>

-----------------------------------------------------------------------------
(* Interruptions, and the world. *)

(* An exception or a kill between two steps. *)
Interrupt(r) ==
  /\ stage[r] \notin {"off", "ended", "dead"} /\ Exit(r, "dead")
  /\ UNCHANGED <<world, store, file, recorded>>

(* A write that is cut short: part of the line, or all but the newline. *)
InterruptWrite(r) ==
  /\ stage[r] = "record" /\ Exit(r, "dead")
  /\ \/ tail' = Torn
     \/ tail = NoTail /\ tail' = Event(r)
  /\ UNCHANGED <<world, store, log, recorded>>

SourceChanges(u) ==
  /\ edits < MaxEdits /\ edits' = edits + 1
  /\ \E v \in Version \ {source[u]} : source' = [source EXCEPT ![u] = v]
  /\ UNCHANGED <<clock, store, file, stage, case, locals, recorded, prepared>>

Tick ==
  /\ clock < MaxTime /\ clock' = clock + 1
  /\ UNCHANGED <<source, edits, store, file, stage, case, locals, recorded, prepared>>

Step(r) ==
  \/ NextCase(r) \/ Lookup(r) \/ ConditionalGet(r) \/ Execute(r) \/ Save(r)
  \/ Record(r) \/ Publish(r) \/ Report(r)

EvaluationNext ==
  \/ \E r \in Run : Begin(r) \/ Step(r) \/ Interrupt(r) \/ InterruptWrite(r)
  \/ \E u \in Url : SourceChanges(u)
  \/ Tick

EvaluationSpec == EvaluationInit /\ [][EvaluationNext]_evaluationVars

-----------------------------------------------------------------------------
(* However runs and interruptions interleave, the reader either refuses the *)
(* log or returns every event whose record() returned: an interrupted line  *)
(* hides nothing but itself (read_jsonl's treatment of malformed lines).    *)
NothingLost == Readable => recorded \subseteq Events

(* A log line that says validation_recorded has its validation record in    *)
(* the store, even when the run died right after it and even in a line that *)
(* was never terminated (run_conditional_http_shadow stores first).         *)
ValidationsBacked ==
  \A e \in Events : e.validated => [of |-> e.candidate, at |-> e.at] \in validations

(* evaluation_complete of an id that only one run has used: each operation  *)
(* of the workload is in the log, whatever other runs share it.             *)
CompleteMeansCovered ==
  \A r \in Run :
    (Complete(r) /\ \A q \in Run \ {r} : IdOf[q] = IdOf[r] => stage[q] = "off") =>
      \A i \in 1 .. Expected(r) : \E e \in Events : e.run = r /\ e.case = i

(* A revalidation that begins after an evaluation returned its report finds *)
(* a candidate for each URL, however much time has passed and whatever the  *)
(* sources serve by then.                                                   *)
RevalidationFindsCandidates ==
  \A r \in Run :
    (/\ prepared[r] /\ ModeOf[r] = "revalidate"
     /\ stage[r] = "lookup" /\ way[r] = "shadow") => cand[r] # None
=============================================================================
