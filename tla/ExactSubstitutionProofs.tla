----------------------- MODULE ExactSubstitutionProofs -----------------------
(***************************************************************************)
(* What a substitution rests on, for any number of callers, tiers, keys,   *)
(* policy documents and registries, and any interleaving with edits and    *)
(* publications.  The argument: what a call has read stays true of its     *)
(* history (seen grows until the call returns) and of the stores (which    *)
(* only grow), so each step of the call adds one fact and keeps the        *)
(* others, and no step of anybody else takes one away (Stable).            *)
(***************************************************************************)
EXTENDS ExactSubstitution, TLAPS

PastLookup == {"receipts", "check", "substitute", "substituted"}

(* A call under way has its arguments, and past a hit its candidate. *)
TypeInv ==
    /\ TypeOK
    /\ \A c \in Callers : pc[c] \notin Resting => input[c] \in Arguments
    /\ \A c \in Callers : pc[c] \in PastLookup => found[c] \in Candidate

-----------------------------------------------------------------------------
(* What a call publishes is a result. *)
LEMMA ProducedType ==
    ASSUME TypeOK, NEW c \in Callers, input[c] \in Arguments
    PROVE  Produced(c) \in Result
<1>1. policy[c] # NoPolicy => policy[c].ttl \in Nat
  BY ConstantsAssumption DEF TypeOK, Document
<1>2. CASE policy[c] # NoPolicy /\ policy[c].ttl < Freshness
  BY <1>1, <1>2, ConstantsAssumption DEF Produced, Result, Arguments
<1>3. CASE ~(policy[c] # NoPolicy /\ policy[c].ttl < Freshness)
  BY <1>3, ConstantsAssumption DEF Produced, Result, Arguments
<1> QED BY <1>2, <1>3

(* What reuse returns is a candidate, admissible in its own tier. *)
LEMMA HitsType ==
    ASSUME TypeOK, NEW in, NEW d, NEW readable \in SUBSET Tiers,
           NEW h \in Hits(in, d, readable)
    PROVE  /\ h \in Candidate
           /\ h.result \in Admissible(h.tier, in, d)
<1>1. /\ h \in [result : UNION {stored[t] : t \in Tiers}, tier : readable]
      /\ h.result \in Admissible(h.tier, in, d)
  BY DEF Hits
<1>2. h.tier \in Tiers /\ h = [result |-> h.result, tier |-> h.tier]
  BY <1>1
<1>3. h.result \in Result
  BY <1>1, <1>2 DEF Admissible, TypeOK
<1> QED BY <1>1, <1>2, <1>3 DEF Candidate

(* The history keeps its type whatever the step. *)
LEMMA SeenType ==
    ASSUME TypeOK, Observe, kill' \in BOOLEAN, doc' \in Documents,
           registry' \in Registries
    PROVE  seen' \in [Callers -> SUBSET Snapshot]
<1>1. Controls' \in Snapshot
  BY DEF Controls, Snapshot
<1> QED BY <1>1 DEF Observe, TypeOK

LEMMA TypeInit == Init => TypeInv
<1> SUFFICES ASSUME Init PROVE TypeInv
  OBVIOUS
<1>1. TypeOK
  BY ConstantsAssumption DEF Init, TypeOK, PCs, Resting
<1> QED BY <1>1 DEF Init, TypeInv, Resting, PastLookup

(* The steps of a caller keep the types. *)
LEMMA TypeBegin ==
    ASSUME TypeInv, NEW c \in Callers, Begin(c), Observe
    PROVE  TypeInv'
<1> USE DEF TypeInv
<1>1. PICK a \in Actions, k \in Tokens \cup {NoToken}, g \in BOOLEAN :
         input' = [input EXCEPT ![c] =
                     [action |-> a, token |-> k, registry |-> g, at |-> now]]
  BY DEF Begin
<1>2. [action |-> a, token |-> k, registry |-> g, at |-> now] \in Arguments
  BY DEF Arguments, TypeOK
<1>3. input' \in [Callers -> {Nothing} \cup Arguments]
  BY <1>1, <1>2 DEF TypeOK
<1>4. \A d \in Callers : pc'[d] \notin Resting => input'[d] \in Arguments
  BY <1>1, <1>2 DEF Begin, Goto, TypeOK
<1>5. seen' \in [Callers -> SUBSET Snapshot]
  BY SeenType DEF Begin, shared, TypeOK
<1>6. TypeOK'
  BY <1>3, <1>5 DEF Begin, Goto, shared, TypeOK, PCs
<1>7. \A d \in Callers : pc'[d] \in PastLookup => found'[d] \in Candidate
  BY DEF Begin, Goto, TypeOK, PastLookup
<1> QED BY <1>4, <1>6, <1>7

LEMMA TypeStep ==
    ASSUME TypeInv, NEW c \in Callers, Step(c), Observe
    PROVE  TypeInv'
<1> USE DEF TypeInv
<1>1. pc[c] \notin Resting /\ input' = input
  BY DEF Step, ReadSwitch, ReadPolicy, LookUp, LookUpRaises, ReadReceipts,
         CheckReceipt, Substitute, Execute, Publish, Record, Resting
<1>2. input[c] \in Arguments
  BY <1>1
<1>3. /\ kill' = kill /\ doc' = doc /\ registry' = registry /\ now' = now
      /\ receipts' = receipts /\ unsigned' = unsigned
      /\ edits' = edits /\ writes' = writes
  BY DEF Step, ReadSwitch, ReadPolicy, LookUp, LookUpRaises, ReadReceipts,
         CheckReceipt, Substitute, Execute, Publish, Record, shared
<1>4. \E l \in PCs : pc' = [pc EXCEPT ![c] = l]
  <2>1. CASE ReadSwitch(c) BY <2>1 DEF ReadSwitch, Goto, PCs
  <2>2. CASE ReadPolicy(c) BY <2>2 DEF ReadPolicy, AfterPolicy, Goto, PCs
  <2>3. CASE LookUp(c) BY <2>3 DEF LookUp, AfterHit, Goto, PCs
  <2>4. CASE LookUpRaises(c) BY <2>4 DEF LookUpRaises, Goto, PCs, Resting
  <2>5. CASE ReadReceipts(c) BY <2>5 DEF ReadReceipts, Goto, PCs
  <2>6. CASE CheckReceipt(c) BY <2>6 DEF CheckReceipt, Goto, PCs
  <2>7. CASE Substitute(c) BY <2>7 DEF Substitute, Goto, PCs, Resting
  <2>8. CASE Execute(c) BY <2>8 DEF Execute, Goto, PCs, Resting
  <2>9. CASE Publish(c) BY <2>9 DEF Publish, Goto, PCs, Resting
  <2>10. CASE Record(c) BY <2>10 DEF Record, Goto, PCs, Resting
  <2> QED BY <2>1, <2>2, <2>3, <2>4, <2>5, <2>6, <2>7, <2>8, <2>9, <2>10
          DEF Step
<1>5. pc' \in [Callers -> PCs]
  BY <1>4 DEF TypeOK
<1>6. \A d \in Callers : pc'[d] \notin Resting => input'[d] \in Arguments
  BY <1>1, <1>2, <1>4 DEF TypeOK
<1>7. seen' \in [Callers -> SUBSET Snapshot]
  BY <1>3, SeenType DEF TypeOK
<1>8. stored' \in [Tiers -> SUBSET Result]
  <2>1. CASE Publish(c)
    <3>1. Produced(c) \in Result
      BY <1>2, ProducedType
    <3>2. PublishTo # NoTier => PublishTo \in Tiers
      BY ConstantsAssumption
    <3> QED BY <2>1, <3>1, <3>2 DEF Publish, TypeOK
  <2>2. CASE ~Publish(c)
    BY <2>2 DEF Step, ReadSwitch, ReadPolicy, LookUp, LookUpRaises,
       ReadReceipts, CheckReceipt, Substitute, Execute, Record, shared, TypeOK
  <2> QED BY <2>1, <2>2
<1>9. policy' \in [Callers -> {NoPolicy} \cup Documents]
  BY DEF Step, ReadSwitch, ReadPolicy, LookUp, LookUpRaises, ReadReceipts,
         CheckReceipt, Substitute, Execute, Publish, Record, TypeOK
<1>10. found' \in [Callers -> {Nothing} \cup Candidate]
  <2>1. CASE LookUp(c)
    BY <2>1, HitsType DEF LookUp, TypeOK
  <2>2. CASE ~LookUp(c)
    BY <2>2 DEF Step, ReadSwitch, ReadPolicy, LookUpRaises, ReadReceipts,
         CheckReceipt, Substitute, Execute, Publish, Record, TypeOK
  <2> QED BY <2>1, <2>2
<1>11. left' \in [Callers -> SUBSET Receipt]
  <2>1. CASE ReadReceipts(c)
    <3>1. PICK T \in SUBSET Receipt : T = left'[c] /\ left' = [left EXCEPT ![c] = T]
      <4>1. CASE UNCHANGED left
        BY <4>1 DEF TypeOK
      <4>2. CASE left' = [left EXCEPT ![c] = Attached(found[c])]
        <5>1. found[c] \in Candidate
          BY <2>1 DEF ReadReceipts, PastLookup
        <5>2. Attached(found[c]) \subseteq Receipt
          BY <5>1 DEF Attached, Candidate, TypeOK
        <5> QED BY <4>2, <5>2 DEF TypeOK
      <4> QED BY <2>1, <4>1, <4>2 DEF ReadReceipts
    <3> QED BY <3>1 DEF TypeOK
  <2>2. CASE ~ReadReceipts(c)
    BY <2>2 DEF Step, ReadSwitch, ReadPolicy, LookUp, LookUpRaises,
         CheckReceipt, Substitute, Execute, Publish, Record, TypeOK
  <2> QED BY <2>1, <2>2
<1>12. TypeOK'
  BY <1>1, <1>3, <1>5, <1>7, <1>8, <1>9, <1>10, <1>11 DEF TypeOK
<1>13. \A d \in Callers : pc'[d] \in PastLookup => found'[d] \in Candidate
  <2> SUFFICES ASSUME NEW d \in Callers, pc'[d] \in PastLookup
               PROVE  found'[d] \in Candidate
    OBVIOUS
  <2>1. CASE LookUp(c)
    <3>1. CASE d = c
      BY <2>1, <3>1, HitsType
         DEF LookUp, Goto, TypeOK, PastLookup
    <3>2. CASE d # c
      BY <2>1, <3>2 DEF LookUp, Goto, TypeOK
    <3> QED BY <3>1, <3>2
  <2>2. CASE ~LookUp(c)
    BY <2>2 DEF Step, ReadSwitch, ReadPolicy, AfterPolicy, LookUpRaises,
         ReadReceipts, CheckReceipt, Substitute, Execute, Publish, Record,
         Goto, TypeOK, PastLookup
  <2> QED BY <2>1, <2>2
<1> QED BY <1>6, <1>12, <1>13

(* So do the steps of the other processes. *)
LEMMA TypeOthers ==
    ASSUME TypeInv, Observe,
           \/ \E t \in Tiers : PublishSigned(t) \/ PutStranger(t)
           \/ \E u \in unsigned : PutReceipt(u) \/ Abandon(u)
           \/ Edit
           \/ Tick
    PROVE  TypeInv'
<1> USE DEF TypeInv
<1>1. UNCHANGED local
  BY DEF PublishSigned, PutStranger, PutReceipt, Abandon, Edit, Tick
<1>2. /\ kill' \in BOOLEAN /\ doc' \in Documents /\ registry' \in Registries
      /\ now' \in Nat /\ edits' \in Nat /\ writes' \in Nat
  <2>1. kill' = kill \/ kill' = ~kill
    BY Zenon DEF PublishSigned, PutStranger, PutReceipt, Abandon, Edit, Tick,
                 shared
  <2>2. kill' \in BOOLEAN
    BY <2>1, Zenon DEF TypeOK
  <2>3. /\ doc' \in Documents /\ registry' \in Registries
        /\ now' \in Nat /\ edits' \in Nat /\ writes' \in Nat
    BY DEF PublishSigned, PutStranger, PutReceipt, Abandon, Edit, Tick, shared,
           TypeOK
  <2> QED BY <2>2, <2>3
<1>3. seen' \in [Callers -> SUBSET Snapshot]
  BY <1>2, SeenType
<1>4. /\ stored' \in [Tiers -> SUBSET Result]
      /\ receipts' \in [Tiers -> SUBSET Receipt]
      /\ unsigned' \in SUBSET [tier : Tiers, receipt : Receipt]
  <2>1. ASSUME NEW t \in Tiers, PublishSigned(t) PROVE <1>4
    <3>1. PICK a \in Actions, p \in Producers, k \in Keys :
            LET r == [action |-> a, producer |-> p, at |-> now,
                      until |-> now + Freshness]
            IN  /\ stored' = [stored EXCEPT ![t] = @ \cup {r}]
                /\ unsigned' = unsigned \cup
                     {[tier |-> t,
                       receipt |-> [result |-> r, producer |-> p, key |-> k,
                                    genuine |-> TRUE]]}
      BY <2>1 DEF PublishSigned
    <3> DEFINE r == [action |-> a, producer |-> p, at |-> now,
                     until |-> now + Freshness]
               rc == [result |-> r, producer |-> p, key |-> k, genuine |-> TRUE]
    <3>2. r \in Result
      BY ConstantsAssumption DEF Result, TypeOK
    <3>3. rc \in Receipt
      BY <3>2 DEF Receipt
    <3>4. [tier |-> t, receipt |-> rc] \in [tier : Tiers, receipt : Receipt]
      BY <3>3
    <3>5. stored' \in [Tiers -> SUBSET Result]
      BY <3>1, <3>2 DEF TypeOK
    <3>6. unsigned' \in SUBSET [tier : Tiers, receipt : Receipt]
      BY <3>1, <3>4 DEF TypeOK
    <3> QED BY <2>1, <3>5, <3>6 DEF PublishSigned, TypeOK
  <2>2. ASSUME NEW t \in Tiers, PutStranger(t) PROVE <1>4
    BY <2>2, StrangersAssumption DEF PutStranger, TypeOK
  <2>3. ASSUME NEW u \in unsigned, PutReceipt(u) PROVE <1>4
    <3>1. u.tier \in Tiers /\ u.receipt \in Receipt
      BY DEF TypeOK
    <3> QED BY <2>3, <3>1 DEF PutReceipt, TypeOK
  <2>4. ASSUME NEW u \in unsigned, Abandon(u) PROVE <1>4
    BY <2>4 DEF Abandon, TypeOK
  <2>5. CASE Edit \/ Tick
    BY <2>5 DEF Edit, Tick, shared, TypeOK
  <2> QED BY <2>1, <2>2, <2>3, <2>4, <2>5
<1>5. TypeOK'
  BY <1>1, <1>2, <1>3, <1>4 DEF local, TypeOK
<1> QED BY <1>1, <1>5 DEF local

LEMMA TypeNext == TypeInv /\ [Next]_vars => TypeInv'
<1> SUFFICES ASSUME TypeInv, [Next]_vars PROVE TypeInv'
  OBVIOUS
<1>1. CASE UNCHANGED vars
  BY <1>1 DEF TypeInv, TypeOK, vars, shared, local
<1>2. CASE Next
  BY <1>2, TypeBegin, TypeStep, TypeOthers DEF Next, Move
<1> QED BY <1>1, <1>2

(* Every variable keeps its type: execute_deterministic_with_policy never  *)
(* goes on without the arguments, policy and candidate its steps read.     *)
THEOREM TypeCorrect == Spec => []TypeOK
<1>1. TypeInv => TypeOK
  BY DEF TypeInv
<1> QED BY <1>1, TypeInit, TypeNext, PTL DEF Spec

-----------------------------------------------------------------------------
(* What a call on its way to a substitution has established so far. *)

PastPolicy == PastLookup \cup {"lookup"}
PastSwitch == PastPolicy \cup {"policy"}

(* The switch was off at some moment of the call. *)
SwitchSeen(c) == pc[c] \in PastSwitch => \E s \in seen[c] : ~s.kill

(* Its policy was in force at some moment of the call, and admits it. *)
PolicySeen(c) ==
    pc[c] \in PastPolicy =>
        /\ policy[c] \in Documents
        /\ Resolves(policy[c])
        /\ policy[c].mode = "exact-substitute"
        /\ Authorized(policy[c], input[c])
        /\ \E s \in seen[c] : s.doc = policy[c]

(* Its candidate is admissible under this policy, from an allowed tier. *)
CandidateFound(c) ==
    pc[c] \in PastLookup =>
        /\ found[c] \in Candidate
        /\ found[c].tier \in policy[c].tiers
        /\ found[c].result \in Admissible(found[c].tier, input[c], policy[c])

(* What is left to look at are receipts of this candidate. *)
ReceiptsRead(c) == pc[c] = "check" => left[c] \subseteq Attached(found[c])

(* A receipt was accepted, under a key active at some moment of the call. *)
ReceiptAccepted(c) ==
    pc[c] \in {"substitute", "substituted"} /\ policy[c].receipts = "required" =>
        \E rc \in Attached(found[c]) :
            /\ rc.key \in policy[c].keys
            /\ Verifies(rc, found[c].result)
            /\ \E q \in seen[c] :
                  KeyActive(q.registry, rc.key, found[c].result.producer)

CallInv(c) ==
    /\ SwitchSeen(c)
    /\ PolicySeen(c)
    /\ CandidateFound(c)
    /\ ReceiptsRead(c)
    /\ ReceiptAccepted(c)

Same(c) ==
    /\ pc'[c] = pc[c] /\ input'[c] = input[c] /\ policy'[c] = policy[c]
    /\ found'[c] = found[c] /\ left'[c] = left[c]

(* Results and receipts are never taken away. *)
Growing ==
    \A t \in Tiers : stored[t] \subseteq stored'[t] /\ receipts[t] \subseteq receipts'[t]

LEMMA Grows ==
    ASSUME TypeInv, Next
    PROVE  Growing
<1> USE DEF TypeInv
<1>1. ASSUME NEW c \in Callers, Begin(c) \/ Step(c) PROVE Growing
  <2>1. CASE Publish(c)
    BY <2>1 DEF Publish, Growing, TypeOK
  <2>2. CASE ~Publish(c)
    BY <1>1, <2>2 DEF Begin, Step, ReadSwitch, ReadPolicy, LookUp, LookUpRaises,
       ReadReceipts, CheckReceipt, Substitute, Execute, Record, shared, Growing
  <2> QED BY <2>1, <2>2
<1>2. ASSUME NEW t \in Tiers, PublishSigned(t) \/ PutStranger(t) PROVE Growing
  BY <1>2 DEF PublishSigned, PutStranger, Growing, TypeOK
<1>3. ASSUME NEW u \in unsigned, PutReceipt(u) \/ Abandon(u) PROVE Growing
  BY <1>3 DEF PutReceipt, Abandon, Growing, TypeOK
<1>4. CASE Edit \/ Tick
  BY <1>4 DEF Edit, Tick, shared, Growing
<1> QED BY <1>1, <1>2, <1>3, <1>4 DEF Next, Move

(* The history of a call that goes on, or returns a substitution, grows    *)
(* and holds what can be read now.                                         *)
LEMMA SeenGrows ==
    ASSUME TypeInv, Observe, NEW c \in Callers, pc'[c] \in PastSwitch
    PROVE  /\ pc[c] \notin Resting \/ (pc[c] = "substituted" /\ pc'[c] = "substituted")
                => seen[c] \subseteq seen'[c]
           /\ pc'[c] # "substituted" => Controls' \in seen'[c]
BY DEF Observe, PastSwitch, PastPolicy, PastLookup, Resting

(* No step of another process disturbs what a call has established. *)
LEMMA Stable ==
    ASSUME TypeInv, Growing, Observe, NEW c \in Callers, CallInv(c), Same(c)
    PROVE  CallInv(c)'
<1>1. pc'[c] \in PastSwitch => seen[c] \subseteq seen'[c]
  <2> SUFFICES ASSUME pc'[c] \in PastSwitch PROVE seen[c] \subseteq seen'[c]
    OBVIOUS
  <2>1. pc[c] \notin Resting \/ (pc[c] = "substituted" /\ pc'[c] = "substituted")
    BY DEF Same, PastSwitch, PastPolicy, PastLookup, Resting
  <2> QED BY <2>1, SeenGrows
<1>2. SwitchSeen(c)'
  BY <1>1 DEF CallInv, SwitchSeen, Same
<1>3. PolicySeen(c)'
  BY <1>1 DEF CallInv, PolicySeen, Same, Authorized, PastSwitch
<1>4. CandidateFound(c)'
  <2> SUFFICES ASSUME pc[c] \in PastLookup
               PROVE  found[c].result
                         \in Admissible(found[c].tier, input[c], policy[c])'
    BY DEF CallInv, CandidateFound, Same, Admissible
  <2> QED BY DEF CallInv, CandidateFound, Growing, Candidate, Admissible, Same
<1>5. ReceiptsRead(c)'
  BY DEF CallInv, ReceiptsRead, CandidateFound, PastLookup, Same, Growing,
         Candidate, Attached
<1>6. ReceiptAccepted(c)'
  <2> SUFFICES ASSUME pc[c] \in {"substitute", "substituted"},
                      policy[c].receipts = "required"
               PROVE  \E rc \in Attached(found[c])' :
                        /\ rc.key \in policy[c].keys
                        /\ Verifies(rc, found[c].result)
                        /\ \E q \in seen'[c] :
                             KeyActive(q.registry, rc.key, found[c].result.producer)
    BY DEF ReceiptAccepted, Same, Attached
  <2>1. found[c].tier \in Tiers
    BY DEF CallInv, CandidateFound, PastLookup, Candidate
  <2>2. PICK rc \in Attached(found[c]) :
            /\ rc.key \in policy[c].keys
            /\ Verifies(rc, found[c].result)
            /\ \E q \in seen[c] :
                  KeyActive(q.registry, rc.key, found[c].result.producer)
    BY DEF CallInv, ReceiptAccepted
  <2>3. seen[c] \subseteq seen'[c]
    BY <1>1 DEF Same, PastSwitch, PastPolicy, PastLookup
  <2>4. rc \in Attached(found[c])'
    BY <2>1, <2>2 DEF Attached, Growing, Same
  <2> QED BY <2>2, <2>3, <2>4
<1> QED BY <1>2, <1>3, <1>4, <1>5, <1>6 DEF CallInv

(* Each step of a call adds the fact that its next label asks for. *)
LEMMA OwnStep ==
    ASSUME TypeInv, Growing, Observe, NEW c \in Callers, CallInv(c),
           Begin(c) \/ Step(c)
    PROVE  CallInv(c)'
<1> USE DEF TypeInv
<1>0. pc'[c] \in PastSwitch /\ pc[c] \notin Resting => seen[c] \subseteq seen'[c]
  BY SeenGrows
<1>1. CASE Begin(c)
  <2>1. pc'[c] = "switch"
    BY <1>1 DEF Begin, Goto, TypeOK
  <2> QED BY <2>1 DEF CallInv, SwitchSeen, PolicySeen, CandidateFound,
             ReceiptsRead, ReceiptAccepted, PastSwitch, PastPolicy, PastLookup
<1>2. CASE pc'[c] \notin PastSwitch
  BY <1>2 DEF CallInv, SwitchSeen, PolicySeen, CandidateFound, ReceiptsRead,
     ReceiptAccepted, PastSwitch, PastPolicy, PastLookup
<1>3. CASE ReadSwitch(c) /\ pc'[c] \in PastSwitch
  <2>1. pc'[c] = "policy" /\ ~kill /\ kill' = kill
    BY <1>3 DEF ReadSwitch, Goto, shared, TypeOK, PastSwitch, PastPolicy,
                PastLookup
  <2>2. Controls' \in seen'[c]
    BY <1>3, <2>1, SeenGrows
  <2>3. SwitchSeen(c)'
    BY <2>1, <2>2 DEF SwitchSeen, Controls
  <2> QED BY <2>1, <2>3 DEF CallInv, PolicySeen, CandidateFound, ReceiptsRead,
             ReceiptAccepted, PastPolicy, PastLookup
<1>4. CASE ReadPolicy(c) /\ pc'[c] \in PastSwitch
  <2>1. pc'[c] = "lookup" /\ pc[c] = "policy" /\ doc' = doc
    BY <1>4 DEF ReadPolicy, AfterPolicy, Goto, shared, TypeOK, PastSwitch,
                PastPolicy, PastLookup
  <2>2. /\ Resolves(doc) /\ doc.mode = "exact-substitute"
        /\ Authorized(doc, input[c])
    BY <1>4, <2>1 DEF ReadPolicy, AfterPolicy, Goto, TypeOK
  <2>3. policy'[c] = doc /\ input'[c] = input[c]
    BY <1>4, <2>2 DEF ReadPolicy, TypeOK
  <2>4. Controls' \in seen'[c] /\ seen[c] \subseteq seen'[c]
    BY <1>0, <1>4, <2>1, SeenGrows DEF Resting
  <2>5. SwitchSeen(c)'
    BY <2>1, <2>4 DEF CallInv, SwitchSeen, PastSwitch
  <2>6. PolicySeen(c)'
    BY <2>1, <2>2, <2>3, <2>4 DEF PolicySeen, Controls, Authorized, TypeOK
  <2> QED BY <2>1, <2>5, <2>6 DEF CallInv, CandidateFound, ReceiptsRead,
             ReceiptAccepted, PastLookup
<1>5. CASE LookUp(c) /\ pc'[c] \in PastSwitch
  <2>1. pc[c] = "lookup"
    BY <1>5 DEF LookUp, Goto, TypeOK, PastSwitch, PastPolicy, PastLookup
  <2>a. PICK readable \in SUBSET Tiers :
          \E h \in Hits(input[c], policy[c], readable) :
              /\ found' = [found EXCEPT ![c] = h]
              /\ Goto(c, AfterHit(h, policy[c]))
    BY <1>5, <2>1 DEF LookUp, Goto, TypeOK, PastSwitch, PastPolicy, PastLookup
  <2>2. PICK h \in Hits(input[c], policy[c], readable) :
          /\ found' = [found EXCEPT ![c] = h]
          /\ Goto(c, AfterHit(h, policy[c]))
    BY <2>a
  <2>3. h \in Candidate /\ h.result \in Admissible(h.tier, input[c], policy[c])
    BY HitsType
  <2>4. /\ h.tier \in policy[c].tiers
        /\ \/ pc'[c] = "receipts"
           \/ pc'[c] = "substitute" /\ policy[c].receipts # "required"
    BY <1>5, <2>2 DEF AfterHit, Goto, TypeOK, PastSwitch, PastPolicy, PastLookup
  <2>5. /\ found'[c] = h /\ policy'[c] = policy[c] /\ input'[c] = input[c]
        /\ stored' = stored
    BY <1>5, <2>2 DEF LookUp, shared, TypeOK
  <2>6. seen[c] \subseteq seen'[c]
    BY <1>0, <1>5, <2>1 DEF Resting
  <2>7. SwitchSeen(c)'
    BY <2>1, <2>6 DEF CallInv, SwitchSeen, PastSwitch, PastPolicy
  <2>8. PolicySeen(c)'
    BY <2>1, <2>5, <2>6 DEF CallInv, PolicySeen, PastPolicy, Authorized
  <2>9. CandidateFound(c)'
    BY <2>3, <2>4, <2>5 DEF CandidateFound, Admissible
  <2> QED BY <2>4, <2>5, <2>7, <2>8, <2>9 DEF CallInv, ReceiptsRead,
             ReceiptAccepted
<1>6. ASSUME pc[c] \in PastLookup, pc'[c] \in PastLookup, pc[c] \notin Resting,
             policy'[c] = policy[c], input'[c] = input[c], found'[c] = found[c]
      PROVE  SwitchSeen(c)' /\ PolicySeen(c)' /\ CandidateFound(c)'
  <2>1. seen[c] \subseteq seen'[c]
    BY <1>0, <1>6 DEF PastSwitch, PastPolicy
  <2>2. SwitchSeen(c)'
    BY <1>6, <2>1 DEF CallInv, SwitchSeen, PastSwitch, PastPolicy
  <2>3. PolicySeen(c)'
    BY <1>6, <2>1 DEF CallInv, PolicySeen, PastPolicy, Authorized
  <2>4. CandidateFound(c)'
    BY <1>6 DEF CallInv, CandidateFound, Growing, Candidate, Admissible
  <2> QED BY <2>2, <2>3, <2>4
<1>7. CASE ReadReceipts(c) /\ pc'[c] \in PastSwitch
  <2>1. /\ pc[c] = "receipts" /\ pc'[c] = "check"
        /\ left'[c] = Attached(found[c]) /\ receipts' = receipts
        /\ policy'[c] = policy[c] /\ input'[c] = input[c] /\ found'[c] = found[c]
    BY <1>7 DEF ReadReceipts, Goto, shared, TypeOK, PastSwitch, PastPolicy,
                PastLookup
  <2>2. SwitchSeen(c)' /\ PolicySeen(c)' /\ CandidateFound(c)'
    BY <1>6, <2>1 DEF PastLookup, Resting
  <2>3. ReceiptsRead(c)'
    BY <2>1 DEF ReceiptsRead, Attached
  <2> QED BY <2>1, <2>2, <2>3 DEF CallInv, ReceiptAccepted
<1>8. CASE CheckReceipt(c) /\ pc'[c] \in PastSwitch
  <2>1. PICK rc \in left[c] :
          /\ left' = [left EXCEPT ![c] = @ \ {rc}]
          /\ Goto(c, IF Accepts(rc, policy[c], registry, found[c].result)
                     THEN "substitute"
                     ELSE IF Aborts(rc, policy[c], registry) \/ left[c] = {rc}
                     THEN "execute" ELSE "check")
    BY <1>8 DEF CheckReceipt
  <2>2. /\ pc[c] = "check" /\ receipts' = receipts /\ registry' = registry
        /\ policy'[c] = policy[c] /\ input'[c] = input[c] /\ found'[c] = found[c]
    BY <1>8 DEF CheckReceipt, shared
  <2>3. \/ pc'[c] = "check"
        \/ pc'[c] = "substitute" /\ Accepts(rc, policy[c], registry, found[c].result)
    BY <1>8, <2>1 DEF Goto, TypeOK, PastSwitch, PastPolicy, PastLookup
  <2>4. SwitchSeen(c)' /\ PolicySeen(c)' /\ CandidateFound(c)'
    BY <1>6, <2>2, <2>3 DEF PastLookup, Resting
  <2>5. ReceiptsRead(c)'
    BY <2>1, <2>2 DEF CallInv, ReceiptsRead, Attached, TypeOK
  <2>6. ReceiptAccepted(c)'
    <3> SUFFICES ASSUME pc'[c] = "substitute"
                 PROVE  \E r \in Attached(found[c]) :
                          /\ r.key \in policy[c].keys
                          /\ Verifies(r, found[c].result)
                          /\ \E q \in seen'[c] :
                               KeyActive(q.registry, r.key, found[c].result.producer)
      BY <2>2, <2>3 DEF ReceiptAccepted, Attached
    <3>1. rc \in Attached(found[c])
      BY <2>1, <2>2 DEF CallInv, ReceiptsRead
    <3>2. /\ rc.key \in policy[c].keys /\ Verifies(rc, found[c].result)
          /\ KeyActive(registry, rc.key, found[c].result.producer)
      BY <2>3 DEF Accepts
    <3>3. Controls' \in seen'[c]
      BY <1>8, SeenGrows
    <3>4. Controls'.registry = registry
      BY <2>2 DEF Controls
    <3> QED BY <3>1, <3>2, <3>3, <3>4
  <2> QED BY <2>4, <2>5, <2>6 DEF CallInv
<1>9. CASE Substitute(c) /\ pc'[c] \in PastSwitch
  <2>1. /\ pc[c] = "substitute" /\ pc'[c] = "substituted" /\ receipts' = receipts
        /\ policy'[c] = policy[c] /\ input'[c] = input[c] /\ found'[c] = found[c]
    BY <1>9 DEF Substitute, Goto, shared, TypeOK, PastSwitch, PastPolicy,
                PastLookup
  <2>2. SwitchSeen(c)' /\ PolicySeen(c)' /\ CandidateFound(c)'
    BY <1>6, <2>1 DEF PastLookup, Resting
  <2>3. seen[c] \subseteq seen'[c]
    BY <1>0, <1>9, <2>1 DEF Resting
  <2>4. ReceiptAccepted(c)'
    BY <2>1, <2>3 DEF CallInv, ReceiptAccepted, Attached
  <2> QED BY <2>1, <2>2, <2>4 DEF CallInv, ReceiptsRead
<1>10. CASE LookUpRaises(c) \/ Execute(c) \/ Publish(c) \/ Record(c)
  <2>1. pc'[c] \notin PastSwitch
    BY <1>10 DEF LookUpRaises, Execute, Publish, Record, Goto, TypeOK,
                 PastSwitch, PastPolicy, PastLookup
  <2> QED BY <1>2, <2>1
<1> QED BY <1>1, <1>2, <1>3, <1>4, <1>5, <1>7, <1>8, <1>9, <1>10 DEF Step

(* A step of one caller is no step of another. *)
LEMMA OthersSame ==
    ASSUME TypeInv, NEW c \in Callers, NEW d \in Callers, d # c,
           Begin(c) \/ Step(c)
    PROVE  Same(d)
BY DEF TypeInv, TypeOK, Same, Begin, Step, ReadSwitch, ReadPolicy, LookUp,
       LookUpRaises, ReadReceipts, CheckReceipt, Substitute, Execute, Publish,
       Record, Goto

LEMMA CallNext ==
    TypeInv /\ (\A c \in Callers : CallInv(c)) /\ [Next]_vars
        => \A c \in Callers : CallInv(c)'
<1> SUFFICES ASSUME TypeInv, \A c \in Callers : CallInv(c), [Next]_vars,
                    NEW c \in Callers
             PROVE  CallInv(c)'
  OBVIOUS
<1>1. CASE UNCHANGED vars
  <2>1. /\ pc' = pc /\ input' = input /\ policy' = policy /\ found' = found
        /\ left' = left /\ seen' = seen /\ stored' = stored
        /\ receipts' = receipts
    BY <1>1 DEF vars, shared, local
  <2>2. CallInv(c)
    OBVIOUS
  <2> QED BY <2>1, <2>2
          DEF CallInv, SwitchSeen, PolicySeen, CandidateFound,
          ReceiptsRead, ReceiptAccepted, Admissible, Attached, Authorized
<1>2. CASE Next
  <2>1. Growing /\ Observe
    BY <1>2, Grows DEF Next
  <2>2. ASSUME NEW d \in Callers, Begin(d) \/ Step(d) PROVE CallInv(c)'
    <3>1. CASE d = c BY <2>1, <2>2, <3>1, OwnStep
    <3>2. CASE d # c BY <2>1, <2>2, <3>2, OthersSame, Stable
    <3> QED BY <3>1, <3>2
  <2>3. CASE UNCHANGED local
    <3>1. Same(c)
      BY <2>3 DEF local, Same
    <3> QED BY <2>1, <3>1, Stable
  <2>4. \/ \E d \in Callers : Begin(d) \/ Step(d)
        \/ UNCHANGED local
    BY <1>2 DEF Next, Move, PublishSigned, PutStranger, PutReceipt, Abandon,
                Edit, Tick
  <2> QED BY <2>2, <2>3, <2>4
<1> QED BY <1>1, <1>2

LEMMA CallsInvariant == Spec => [](TypeInv /\ \A c \in Callers : CallInv(c))
<1>1. Init => \A c \in Callers : CallInv(c)
  BY DEF Init, CallInv, SwitchSeen, PolicySeen, CandidateFound, ReceiptsRead,
         ReceiptAccepted, PastSwitch, PastPolicy, PastLookup
<1>2. TypeInv /\ (\A c \in Callers : CallInv(c)) /\ [Next]_vars
        => (\A c \in Callers : CallInv(c))'
  BY CallNext
<1> QED BY <1>1, <1>2, TypeInit, TypeNext, PTL DEF Spec

(* A stored result stands in for an execution only if the kill switch was  *)
(* off and the policy allowed it at moments of that very call, for the     *)
(* caller with or without a partition, the result's producer, its tier and *)
(* its freshness when the call began.                                      *)
THEOREM SubstitutionsHonourPolicy == Spec => []PolicyHonoured
<1>1. TypeInv /\ (\A c \in Callers : CallInv(c)) => PolicyHonoured
  <2> SUFFICES ASSUME TypeInv, NEW c \in Callers, CallInv(c), Substituted(c)
      PROVE /\ \E s \in seen[c] : ~s.kill
            /\ \E s \in seen[c] :
                  /\ Resolves(s.doc) /\ s.doc.mode = "exact-substitute"
                  /\ (s.doc.partition = "required") <=> (input[c].token # NoToken)
                  /\ found[c].tier \in s.doc.tiers
                  /\ found[c].result \in
                       Admissible(found[c].tier, input[c], s.doc)
    BY DEF PolicyHonoured
  <2>1. \E s \in seen[c] : ~s.kill
    BY DEF Substituted, CallInv, SwitchSeen, PastSwitch, PastPolicy, PastLookup
  <2>2. /\ policy[c] \in Documents /\ Resolves(policy[c])
        /\ policy[c].mode = "exact-substitute"
        /\ Authorized(policy[c], input[c])
    BY DEF Substituted, CallInv, PolicySeen, PastPolicy, PastLookup
  <2>3. PICK s \in seen[c] : s.doc = policy[c]
    BY DEF Substituted, CallInv, PolicySeen, PastPolicy, PastLookup
  <2>4. policy[c].partition \in {"public", "required"}
    BY <2>2, ConstantsAssumption DEF Document
  <2>5. (s.doc.partition = "required") <=> (input[c].token # NoToken)
    BY <2>2, <2>3, <2>4 DEF Authorized
  <2>6. /\ found[c].tier \in s.doc.tiers
        /\ found[c].result \in Admissible(found[c].tier, input[c], s.doc)
    BY <2>3 DEF Substituted, CallInv, CandidateFound, PastLookup
  <2> QED BY <2>1, <2>2, <2>3, <2>5, <2>6
<1> QED BY <1>1, CallsInvariant, PTL

(* Under a policy that requires receipts it rests on a genuine receipt for *)
(* this result, under a trusted key active at a moment of that call.       *)
THEOREM SubstitutionsHonourReceipts == Spec => []ReceiptHonoured
<1>1. TypeInv /\ (\A c \in Callers : CallInv(c)) => ReceiptHonoured
  <2> SUFFICES ASSUME TypeInv, NEW c \in Callers, CallInv(c), Substituted(c)
      PROVE \E s \in seen[c] :
            /\ Resolves(s.doc) /\ s.doc.mode = "exact-substitute"
            /\ s.doc.receipts = "required" =>
                  \E rc \in receipts[found[c].tier] :
                      /\ rc.genuine
                      /\ rc.result = found[c].result
                      /\ rc.producer = found[c].result.producer
                      /\ rc.key \in s.doc.keys
                      /\ \E q \in seen[c] :
                            KeyActive(q.registry, rc.key, rc.producer)
    BY DEF ReceiptHonoured
  <2>1. PICK s \in seen[c] : s.doc = policy[c]
    BY DEF Substituted, CallInv, PolicySeen, PastPolicy, PastLookup
  <2>2. Resolves(s.doc) /\ s.doc.mode = "exact-substitute"
    BY <2>1 DEF Substituted, CallInv, PolicySeen, PastPolicy, PastLookup
  <2>3. s.doc.receipts = "required" =>
            \E rc \in Attached(found[c]) :
                /\ rc.key \in s.doc.keys
                /\ Verifies(rc, found[c].result)
                /\ \E q \in seen[c] :
                      KeyActive(q.registry, rc.key, found[c].result.producer)
    BY <2>1 DEF Substituted, CallInv, ReceiptAccepted
  <2> QED BY <2>2, <2>3 DEF Attached, Verifies
<1> QED BY <1>1, CallsInvariant, PTL

(* A result made under an authorization partition reaches only callers     *)
(* that present it, and one without only callers without.                  *)
THEOREM PartitionsStayApart == Spec => []PartitionsApart
<1>1. TypeInv /\ (\A c \in Callers : CallInv(c)) => PartitionsApart
  BY DEF PartitionsApart, Substituted, CallInv, PolicySeen, CandidateFound,
         PastPolicy, PastLookup, Authorized, Admissible
<1> QED BY <1>1, CallsInvariant, PTL
=============================================================================
