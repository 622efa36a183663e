-------------------------- MODULE ExactSubstitution --------------------------
(***************************************************************************)
(* execute_deterministic_with_policy (runtime.py): whether a deterministic *)
(* operation runs or a stored result stands in for it.  A call reads the   *)
(* kill switch, the policy file, the stores, the receipts and, once for    *)
(* every receipt, the key registry, each at its own moment; operators edit *)
(* the two files and set the switch, publishers write results and          *)
(* receipts, and other calls publish what they executed, at any moment in  *)
(* between.                                                                *)
(*                                                                         *)
(* Abstractions.  reuse is one step here: the steps of a lookup, lineage   *)
(* and invalidations are ResultStore's.  A file is what it parses to.  A   *)
(* signature is a flag saying that it verifies under the receipt's key.    *)
(* Decision reasons are left out, the branch each one stands for is kept.  *)
(***************************************************************************)
EXTENDS Naturals, FiniteSets, Sequences

CONSTANTS
    Callers,        \* threads inside execute_deterministic_with_policy
    Stores,         \* the tiers, in the order in which reuse searches them
    Actions,        \* action digests of one approved operation
    PartitionOf,    \* the authorization partition an action commits to
    Tokens,         \* authorization partitions
    NoToken,        \* no partition
    Producers,      \* producers of results and receipts
    OwnProducer,    \* the producer argument of the calls
    Keys,           \* receipt key identifiers
    NoKey,          \* the key of a receipt without a signature
    Documents,      \* what the policy file can hold for the operation
    Registries,     \* what the key registry file can hold
    PublishTo,      \* publish_to: a tier, or NoTier
    NoTier,
    NoPolicy,       \* resolve gave no policy
    Nothing,        \* no candidate, or no arguments yet
    Freshness,      \* freshness_seconds
    Strangers,      \* receipts that other processes may write
    MaxTime,        \* bound on the clock
    MaxEdits,       \* bound on the operators' edits
    MaxWrites       \* bound on the other processes' publications

Tiers == {Stores[i] : i \in DOMAIN Stores}

Modes == {"disabled", "shadow", "conditional-substitute",
          "exact-substitute", "stale-while-revalidate"}

Document == [wellformed : BOOLEAN, enabled : BOOLEAN, mode : Modes,
             producers : SUBSET Producers, tiers : SUBSET Tiers, ttl : Nat,
             receipts : {"optional", "required"}, keys : SUBSET Keys,
             partition : {"public", "required"}, stale : Nat]

Registry == [wellformed : BOOLEAN,
             status : [Keys -> {"active", "revoked", "unknown"}],
             producers : [Keys -> SUBSET Producers]]

Result == [action : Actions, producer : Producers, at : Nat, until : Nat]

Receipt == [result : Result, producer : Producers, key : Keys \cup {NoKey},
            genuine : BOOLEAN]

Arguments == [action : Actions, token : Tokens \cup {NoToken},
              registry : BOOLEAN, at : Nat]

Candidate == [result : Result, tier : Tiers]

Snapshot == [kill : BOOLEAN, doc : Documents, registry : Registries]

ASSUME ConstantsAssumption ==
    /\ Stores \in Seq(Tiers)
    /\ PartitionOf \in [Actions -> Tokens \cup {NoToken}]
    /\ NoToken \notin Tokens
    /\ NoKey \notin Keys
    /\ OwnProducer \in Producers
    /\ Documents \subseteq Document
    /\ Registries \subseteq Registry
    /\ PublishTo \in Tiers \cup {NoTier}
    /\ NoTier \notin Tiers
    /\ NoPolicy \notin Documents
    /\ Freshness \in Nat \ {0}
    /\ MaxTime \in Nat
    /\ MaxEdits \in Nat
    /\ MaxWrites \in Nat

ASSUME StrangersAssumption == Strangers \subseteq Receipt

VARIABLES
    now,        \* the clock
    kill,       \* ONCEMESH_DISABLE_SUBSTITUTION is set
    doc,        \* the policy file
    registry,   \* the key registry file
    stored,     \* tier -> results indexed by their action
    receipts,   \* tier -> receipts
    unsigned,   \* signed publications between put_result and put_receipt
    edits,      \* number of edits so far
    writes,     \* number of other processes' publications so far
    pc,         \* caller -> where it is
    input,      \* caller -> its arguments and its evaluation_time
    policy,     \* caller -> the policy it resolved, or NoPolicy
    found,      \* caller -> what reuse returned: a result and its tier
    left,       \* caller -> receipts not yet looked at
    seen        \* history: caller -> the switch and files since it began

shared  == <<kill, doc, registry, stored, receipts, unsigned, edits, writes>>
local   == <<pc, input, policy, found, left>>
vars    == <<now, shared, local, seen>>

Resting == {"idle", "substituted", "executed", "raised"}

PCs == Resting \cup {"switch", "policy", "lookup", "shadowLookup", "receipts",
                     "check", "substitute", "execute", "publish", "record",
                     "shadowExecute", "shadowRecord", "shadowPublish"}

(* What a call can read of the operators' controls at one moment. *)
Controls == [kill |-> kill, doc |-> doc, registry |-> registry]

-----------------------------------------------------------------------------
(* The policy document and the key registry. *)

(* The restrictions of validate_policy_document between fields.  A document *)
(* that breaks one, cannot be read or is not JSON resolves to policy_error. *)
ValidDocument(d) ==
    /\ d.wellformed
    /\ d.receipts = "required" => d.keys # {} /\ d.mode = "exact-substitute"
    /\ d.partition = "required" => d.mode = "exact-substitute"
    /\ (d.mode = "stale-while-revalidate") <=> (d.stale > 0)

(* FilePolicyRegistry.resolve gives a policy. *)
Resolves(d) == ValidDocument(d) /\ d.enabled /\ d.mode # "disabled"

(* Mutant: the caller's token is not compared with the action's. *)
AuthorizedByAction(d, in) ==
    IF d.partition = "public"
    THEN PartitionOf[in.action] = NoToken /\ in.token = NoToken
    ELSE PartitionOf[in.action] # NoToken

(* _authorization_failure is None. *)
Authorized(d, in) ==
    IF d.partition = "public"
    THEN PartitionOf[in.action] = NoToken /\ in.token = NoToken
    ELSE PartitionOf[in.action] # NoToken /\ in.token = PartitionOf[in.action]

(* Where a call goes with the document that it read. *)
AfterPolicy(d, in) ==
    IF ~Resolves(d) \/ ~Authorized(d, in) THEN "execute"
    ELSE IF d.mode = "shadow" THEN "shadowLookup"
    ELSE IF d.mode = "exact-substitute" THEN "lookup" ELSE "execute"

(* The registry file parses: an entry has at least one producer. *)
ValidRegistry(r) ==
    r.wellformed /\ \A k \in Keys : r.status[k] # "unknown" => r.producers[k] # {}

(* FileReceiptKeyRegistry.resolve gives the key. *)
KeyActive(r, k, p) ==
    /\ ValidRegistry(r)
    /\ r.status[k] = "active"
    /\ p \in r.producers[k]

(* verify_receipt_for_manifest, with the key that the receipt names. *)
Verifies(rc, r) == rc.genuine /\ rc.result = r /\ rc.producer = r.producer

-----------------------------------------------------------------------------
(* What reuse may return: the newest admissible result of the first tier   *)
(* that can be read and has one.                                           *)

Admissible(t, in, d) ==
    {r \in stored[t] : /\ r.action = in.action
                       /\ r.producer \in d.producers
                       /\ in.at <= r.until}

Hits(in, d, readable) ==
    {h \in [result : UNION {stored[t] : t \in Tiers}, tier : readable] :
        /\ h.result \in Admissible(h.tier, in, d)
        /\ \A r \in Admissible(h.tier, in, d) : r.at <= h.result.at
        /\ \E i \in DOMAIN Stores :
              /\ Stores[i] = h.tier
              /\ \A j \in 1 .. i - 1 :
                    Stores[j] \in readable => Admissible(Stores[j], in, d) = {}}

(* What a call that executed publishes. *)
Produced(c) ==
    LET d   == policy[c]
        ttl == IF d # NoPolicy /\ d.ttl < Freshness THEN d.ttl ELSE Freshness
    IN  [action |-> input[c].action, producer |-> OwnProducer,
         at |-> input[c].at, until |-> input[c].at + ttl]

-----------------------------------------------------------------------------
Init ==
    /\ now = 0
    /\ kill = FALSE
    /\ doc \in Documents
    /\ registry \in Registries
    /\ stored = [t \in Tiers |-> {}]
    /\ receipts = [t \in Tiers |-> {}]
    /\ unsigned = {}
    /\ edits = 0
    /\ writes = 0
    /\ pc = [c \in Callers |-> "idle"]
    /\ input = [c \in Callers |-> Nothing]
    /\ policy = [c \in Callers |-> NoPolicy]
    /\ found = [c \in Callers |-> Nothing]
    /\ left = [c \in Callers |-> {}]
    /\ seen = [c \in Callers |-> {}]

Goto(c, l) == pc' = [pc EXCEPT ![c] = l]

(* Mutant: a caller that once resolved a policy keeps it. *)
BeginCached(c) ==
    /\ pc[c] \in Resting
    /\ \E a \in Actions, k \in Tokens \cup {NoToken}, g \in BOOLEAN :
          LET in == [action |-> a, token |-> k, registry |-> g, at |-> now] IN
          /\ input' = [input EXCEPT ![c] = in]
          /\ Goto(c, IF policy[c] = NoPolicy THEN "switch"
                     ELSE AfterPolicy(policy[c], in))
    /\ found' = [found EXCEPT ![c] = Nothing]
    /\ left' = [left EXCEPT ![c] = {}]
    /\ UNCHANGED <<now, shared, policy>>

(* The call starts: its arguments, and evaluation_time from the clock. *)
Begin(c) ==
    /\ pc[c] \in Resting
    /\ \E a \in Actions, k \in Tokens \cup {NoToken}, g \in BOOLEAN :
          input' = [input EXCEPT ![c] =
                      [action |-> a, token |-> k, registry |-> g, at |-> now]]
    /\ Goto(c, "switch")
    /\ policy' = [policy EXCEPT ![c] = NoPolicy]
    /\ found' = [found EXCEPT ![c] = Nothing]
    /\ left' = [left EXCEPT ![c] = {}]
    /\ UNCHANGED <<now, shared>>

(* resolve looks at the environment first ... *)
ReadSwitch(c) ==
    /\ pc[c] = "switch"
    /\ Goto(c, IF kill THEN "execute" ELSE "policy")
    /\ UNCHANGED <<now, shared, input, policy, found, left>>

(* ... and then at the file; the policy is kept for the rest of the call. *)
ReadPolicy(c) ==
    /\ pc[c] = "policy"
    /\ policy' = [policy EXCEPT ![c] = IF Resolves(doc) THEN doc ELSE NoPolicy]
    /\ Goto(c, AfterPolicy(doc, input[c]))
    /\ UNCHANGED <<now, shared, input, found, left>>

(* reuse, with any of the stores unreadable; the tier and whether receipts *)
(* are required are looked at next, on the caller's own copies.            *)
AfterHit(h, d) ==
    IF h.tier \notin d.tiers THEN "execute"
    ELSE IF d.receipts = "required" THEN "receipts" ELSE "substitute"

LookUp(c) ==
    /\ pc[c] \in {"lookup", "shadowLookup"}
    /\ \E readable \in SUBSET Tiers :
          LET hits == Hits(input[c], policy[c], readable) IN
          \/ /\ hits = {}
             /\ Goto(c, IF pc[c] = "lookup" THEN "execute" ELSE "shadowExecute")
             /\ UNCHANGED found
          \/ \E h \in hits :
                /\ found' = [found EXCEPT ![c] = h]
                /\ Goto(c, IF pc[c] = "lookup" THEN AfterHit(h, policy[c])
                                               ELSE "shadowExecute")
    /\ UNCHANGED <<now, shared, input, policy, left>>

(* An artifact cannot be read: StoreReadError leaves the call. *)
LookUpRaises(c) ==
    /\ pc[c] \in {"lookup", "shadowLookup"}
    /\ \E t \in Tiers : Admissible(t, input[c], policy[c]) # {}
    /\ Goto(c, "raised")
    /\ UNCHANGED <<now, shared, input, policy, found, left>>

(* _required_receipt_failure reads the receipts of the candidate in the    *)
(* tier it came from: none, unreadable or no registry mean execution.      *)
Attached(h) == {rc \in receipts[h.tier] : rc.result = h.result}

ReadReceipts(c) ==
    /\ pc[c] = "receipts"
    /\ \/ Goto(c, "execute") /\ UNCHANGED left
       \/ /\ input[c].registry
          /\ Attached(found[c]) # {}
          /\ left' = [left EXCEPT ![c] = Attached(found[c])]
          /\ Goto(c, "check")
    /\ UNCHANGED <<now, shared, input, policy, found>>

(* Mutant: the status of the key in the registry is not looked at. *)
AcceptsRevoked(rc, d, reg, r) ==
    /\ rc.key \in d.keys
    /\ ValidRegistry(reg) /\ r.producer \in reg.producers[rc.key]
    /\ Verifies(rc, r)

(* One turn of its loop: the registry file is read for this receipt.  The  *)
(* receipts come in the order of their digests, that is in any order.      *)
Accepts(rc, d, reg, r) ==
    /\ rc.key \in d.keys
    /\ KeyActive(reg, rc.key, r.producer)
    /\ Verifies(rc, r)

(* A receipt with a trusted key and an unreadable registry ends the loop. *)
Aborts(rc, d, reg) == rc.key \in d.keys /\ ~ValidRegistry(reg)

(* Mutant: the receipt just looked at stays in the list. *)
CheckReceiptAgain(c) ==
    /\ pc[c] = "check"
    /\ \E rc \in left[c] :
          Goto(c, IF Accepts(rc, policy[c], registry, found[c].result)
                  THEN "substitute"
                  ELSE IF Aborts(rc, policy[c], registry)
                  THEN "execute" ELSE "check")
    /\ UNCHANGED <<now, shared, input, policy, found, left>>

CheckReceipt(c) ==
    /\ pc[c] = "check"
    /\ \E rc \in left[c] :
          /\ left' = [left EXCEPT ![c] = @ \ {rc}]
          /\ Goto(c, IF Accepts(rc, policy[c], registry, found[c].result)
                     THEN "substitute"
                     ELSE IF Aborts(rc, policy[c], registry) \/ left[c] = {rc}
                     THEN "execute" ELSE "check")
    /\ UNCHANGED <<now, shared, input, policy, found>>

(* The event is recorded and the candidate's artifacts are returned. *)
Substitute(c) ==
    /\ pc[c] = "substitute"
    /\ Goto(c, "substituted") \/ Goto(c, "raised")
    /\ UNCHANGED <<now, shared, input, policy, found, left>>

(* execute(): the operation itself, which may raise. *)
Execute(c) ==
    /\ pc[c] \in {"execute", "shadowExecute"}
    /\ \/ Goto(c, IF pc[c] = "execute" THEN "publish" ELSE "shadowRecord")
       \/ Goto(c, "raised")
    /\ UNCHANGED <<now, shared, input, policy, found, left>>

(* publish_result, unless publish_to is None; the write may fail. *)
Publish(c) ==
    /\ pc[c] \in {"publish", "shadowPublish"}
    /\ \/ /\ stored' = IF PublishTo = NoTier THEN stored
                       ELSE [stored EXCEPT ![PublishTo] = @ \cup {Produced(c)}]
          /\ Goto(c, IF pc[c] = "publish" THEN "record" ELSE "executed")
       \/ PublishTo # NoTier /\ Goto(c, "raised") /\ UNCHANGED stored
    /\ UNCHANGED <<now, kill, doc, registry, receipts, unsigned, edits, writes,
                   input, policy, found, left>>

(* metrics.record: execute_and_record calls it last, run_shadow before it  *)
(* publishes.                                                              *)
Record(c) ==
    /\ pc[c] \in {"record", "shadowRecord"}
    /\ \/ Goto(c, IF pc[c] = "record" THEN "executed" ELSE "shadowPublish")
       \/ Goto(c, "raised")
    /\ UNCHANGED <<now, shared, input, policy, found, left>>

-----------------------------------------------------------------------------
(* publish_signed_result by another process: the result, then its receipt. *)
PublishSigned(t) ==
    /\ \E a \in Actions, p \in Producers, k \in Keys :
          LET r == [action |-> a, producer |-> p, at |-> now,
                    until |-> now + Freshness]
          IN  /\ r \notin stored[t]
              /\ stored' = [stored EXCEPT ![t] = @ \cup {r}]
              /\ unsigned' = unsigned \cup
                   {[tier |-> t,
                     receipt |-> [result |-> r, producer |-> p, key |-> k,
                                  genuine |-> TRUE]]}
    /\ writes < MaxWrites /\ writes' = writes + 1
    /\ UNCHANGED <<now, kill, doc, registry, receipts, edits, local>>

PutReceipt(u) ==
    /\ receipts' = [receipts EXCEPT ![u.tier] = @ \cup {u.receipt}]
    /\ unsigned' = unsigned \ {u}
    /\ UNCHANGED <<now, kill, doc, registry, stored, edits, writes, local>>

(* The publisher dies before its receipt is written. *)
Abandon(u) ==
    /\ unsigned' = unsigned \ {u}
    /\ UNCHANGED <<now, kill, doc, registry, stored, receipts, edits, writes, local>>

(* Another process writes a receipt that need not verify. *)
PutStranger(t) ==
    /\ \E rc \in Strangers :
          /\ rc \notin receipts[t]
          /\ receipts' = [receipts EXCEPT ![t] = @ \cup {rc}]
    /\ writes < MaxWrites /\ writes' = writes + 1
    /\ UNCHANGED <<now, kill, doc, registry, stored, unsigned, edits, local>>

(* Operators change the environment variable and the two files. *)
Edit ==
    /\ edits < MaxEdits /\ edits' = edits + 1
    /\ \/ kill' = ~kill /\ UNCHANGED <<doc, registry>>
       \/ doc' \in Documents \ {doc} /\ UNCHANGED <<kill, registry>>
       \/ registry' \in Registries \ {registry} /\ UNCHANGED <<kill, doc>>
    /\ UNCHANGED <<now, stored, receipts, unsigned, writes, local>>

Tick ==
    /\ now < MaxTime
    /\ now' = now + 1
    /\ UNCHANGED <<shared, local>>

Step(c) ==
    \/ ReadSwitch(c) \/ ReadPolicy(c) \/ LookUp(c) \/ LookUpRaises(c)
    \/ ReadReceipts(c) \/ CheckReceipt(c) \/ Substitute(c)
    \/ Execute(c) \/ Publish(c) \/ Record(c)

Move ==
    \/ \E c \in Callers : Begin(c) \/ Step(c)
    \/ \E t \in Tiers : PublishSigned(t) \/ PutStranger(t)
    \/ \E u \in unsigned : PutReceipt(u) \/ Abandon(u)
    \/ Edit
    \/ Tick

(* The history follows every step: it starts anew with a call and keeps    *)
(* what a substitution could have seen until the call returned.            *)
Observe ==
    seen' = [c \in Callers |->
               IF pc'[c] = "substituted" THEN seen[c]
               ELSE IF pc'[c] \in Resting THEN {}
               ELSE IF pc[c] \in Resting THEN {Controls'}
               ELSE seen[c] \cup {Controls'}]

Next == Move /\ Observe

Spec == Init /\ [][Next]_vars

(* A thread that was started is scheduled, and the operation returns. *)
Fairness == \A c \in Callers : WF_vars(Step(c) /\ Observe)

LiveSpec == Spec /\ Fairness

-----------------------------------------------------------------------------
(* Every variable keeps its type. *)
TypeOK ==
    /\ now \in Nat /\ edits \in Nat /\ writes \in Nat
    /\ kill \in BOOLEAN
    /\ doc \in Documents
    /\ registry \in Registries
    /\ stored \in [Tiers -> SUBSET Result]
    /\ receipts \in [Tiers -> SUBSET Receipt]
    /\ unsigned \in SUBSET [tier : Tiers, receipt : Receipt]
    /\ pc \in [Callers -> PCs]
    /\ input \in [Callers -> {Nothing} \cup Arguments]
    /\ policy \in [Callers -> {NoPolicy} \cup Documents]
    /\ found \in [Callers -> {Nothing} \cup Candidate]
    /\ left \in [Callers -> SUBSET Receipt]
    /\ seen \in [Callers -> SUBSET Snapshot]

Substituted(c) == pc[c] = "substituted"

(* A result stands in for an execution only if, at some moment of this     *)
(* very call, the kill switch was off and, at some moment, the policy file *)
(* in force allowed it: exact-substitute for this producer and this tier,  *)
(* with partitions forbidden if the caller presents none and asked for if  *)
(* it presents one; and the result was fresh when the call began.          *)
(* A switch set, or a policy withdrawn, before a call and left so is never *)
(* missed, whatever other calls read or publish (policy spec, 3, 4, 6.1).  *)
PolicyHonoured ==
    \A c \in Callers : Substituted(c) =>
        /\ \E s \in seen[c] : ~s.kill
        /\ \E s \in seen[c] :
              /\ Resolves(s.doc) /\ s.doc.mode = "exact-substitute"
              /\ (s.doc.partition = "required") <=> (input[c].token # NoToken)
              /\ found[c].tier \in s.doc.tiers
              /\ found[c].result \in Admissible(found[c].tier, input[c], s.doc)

(* Where the policy in force requires receipts, the tier holds a genuine   *)
(* receipt for this result and its producer under a key which the policy   *)
(* trusts and which was active for that producer at some moment of this    *)
(* call: a key revoked before the call is never relied on, nor a registry  *)
(* that could not be read (policy spec, 6.1, item 6).                      *)
ReceiptHonoured ==
    \A c \in Callers : Substituted(c) =>
        \E s \in seen[c] :
            /\ Resolves(s.doc) /\ s.doc.mode = "exact-substitute"
            /\ s.doc.receipts = "required" =>
                  \E rc \in receipts[found[c].tier] :
                      /\ rc.genuine
                      /\ rc.result = found[c].result
                      /\ rc.producer = found[c].result.producer
                      /\ rc.key \in s.doc.keys
                      /\ \E q \in seen[c] :
                            KeyActive(q.registry, rc.key, rc.producer)

(* A result made under an authorization partition reaches only a caller    *)
(* that presents this partition, and one without only a caller without,    *)
(* while policies that ask for partitions come and go.                     *)
PartitionsApart ==
    \A c \in Callers : Substituted(c) =>
        input[c].token = PartitionOf[found[c].result.action]

(* Every call ends: it returns or raises, whatever receipts it finds. *)
CallsEnd == \A c \in Callers : pc[c] = "switch" ~> pc[c] \in Resting
=============================================================================
