--------------------------- MODULE MetaProjectProofs ---------------------------
(***************************************************************************)
(* Proofs about MetaProject, for every set of objects, attributes and      *)
(* values and every depth of transactions: calls of the metamodel layer    *)
(* take only steps that CoreProject allows, and end what they begin; no    *)
(* assertion fails, every object belongs to the root, and each call is one *)
(* step of Metamodel for its client.                                       *)
(***************************************************************************)
EXTENDS MetaProject, CoreSafeProofs

--------------------------------------------------------------------------------
(* What the steps of CoreProject do to the stack of transactions.          *)

(* The transactions up to level n are open and may write as before.        *)
SameUpTo(n) ==
  \A i \in 1 .. n : transactionList'[i].readOnly = transactionList[i].readOnly

SameLevels == Depth' = Depth /\ SameUpTo(Depth)

LEMMA OpenLevels ==
  ASSUME TypeOK, NEW ro \in BOOLEAN, Begin(ro)
  PROVE  /\ Depth \in Nat
         /\ Depth' = Depth + 1
         /\ SameUpTo(Depth)
         /\ transactionList'[Depth + 1].readOnly = ro
         /\ Len(transactionList) < MaxDepth
<1>1. transactionList' = Append(transactionList, NewTransaction(ro))
  BY DEF Begin
<1>2. NewTransaction(ro) \in Transaction /\ transactionList \in Seq(Transaction)
  BY NewIsTransaction DEF TypeOK
<1>3. NewTransaction(ro).readOnly = ro
  BY DEF NewTransaction
<1> QED
  BY <1>1, <1>2, <1>3 DEF Depth, SameUpTo, Begin

LEMMA EndsLevels ==
  ASSUME TypeOK, Ends, Alive'
  PROVE  /\ Depth \in Nat \ {0}
         /\ Depth' = Depth - 1
         /\ SameUpTo(Depth - 1)
<1>1. CASE CommitNested
  <2>1. /\ Depth \in Nat /\ Depth > 1
        /\ Depth' = Depth - 1
        /\ transactionList'[Depth - 1] =
             Merged(transactionList[Depth - 1], transactionList[Depth])
        /\ \A i \in 1 .. Depth - 2 : transactionList'[i] = transactionList[i]
    BY <1>1, CommitNestedMerges DEF Depth
  <2>2. Depth - 1 \in DOMAIN transactionList /\ Depth \in DOMAIN transactionList
    BY <2>1 DEF Depth, TypeOK
  <2>3. transactionList'[Depth - 1].readOnly = transactionList[Depth - 1].readOnly
    BY <2>1, <2>2, ElementIsTransaction, MergedIsTransaction
  <2> QED
    BY <2>1, <2>3 DEF SameUpTo
<1>2. CASE CommitFinal
  <2>1. Len(transactionList) = 1 /\ transactionList' = << >>
    BY <1>2 DEF CommitFinal
  <2> QED
    BY <2>1 DEF Depth, SameUpTo
<1>3. CASE CommitDies
  BY <1>3 DEF CommitDies, Dies, Alive
<1> QED
  BY <1>1, <1>2, <1>3 DEF Ends

LEMMA AbortedLevels ==
  ASSUME TypeOK, AbortTransaction \/ AbortDies, Alive'
  PROVE  /\ Depth \in Nat \ {0}
         /\ Depth' = Depth - 1
         /\ SameUpTo(Depth - 1)
<1>1. CASE AbortTransaction
  BY <1>1, AbortShortens DEF Depth, SameUpTo
<1>2. CASE AbortDies
  BY <1>2 DEF AbortDies, Dies, Alive
<1> QED
  BY <1>1, <1>2

LEMMA StutterLevels ==
  ASSUME TypeOK, UNCHANGED transactionList
  PROVE  SameLevels
BY DEF SameLevels, SameUpTo, Depth

(* An edit adds to the lists of the innermost transaction.                 *)
LEMMA EditLevels ==
  ASSUME TypeOK, InTransaction, NEW t \in Transaction, t.readOnly = Current.readOnly,
         transactionList' = WithCurrent(t)
  PROVE  SameLevels
<1>1. /\ Depth \in Nat \ {0}
      /\ Current = transactionList[Depth]
  BY CurrentIsTransaction
<1>2. /\ Len(WithCurrent(t)) = Depth
      /\ WithCurrent(t)[Depth] = t
      /\ \A i \in 1 .. Depth - 1 : WithCurrent(t)[i] = transactionList[i]
  BY WithCurrentReplaces
<1> QED
  BY <1>1, <1>2 DEF SameLevels, SameUpTo, Depth

LEMMA CreateLevels ==
  ASSUME TypeOK, NEW u \in Uuid, Create(u)
  PROVE  SameLevels
<1>1. InTransaction /\ transactionList' = WithCurrent([Current EXCEPT !.created = @ \cup {u}])
  BY DEF Create, InWriteTransaction
<1>2. Current \in Transaction
  BY <1>1, CurrentIsTransaction
<1>3. /\ [Current EXCEPT !.created = @ \cup {u}] \in Transaction
      /\ [Current EXCEPT !.created = @ \cup {u}].readOnly = Current.readOnly
  BY <1>2 DEF Transaction
<1> QED
  BY <1>1, <1>3, EditLevels

LEMMA SetLevels ==
  ASSUME TInv, SetAttributeValue, Alive'
  PROVE  SameLevels
<1>1. PICK u \in Held, a \in Attr, new \in Contents : Pushed(u, a, new)
  BY SetElim DEF Dies, Alive
<1>2. InTransaction
  BY SetElim DEF InWriteTransaction
<1>3. Current \in Transaction /\ u \in Uuid
  BY <1>2, CurrentIsTransaction DEF TInv, TypeOK, Held
<1> DEFINE t == [Current EXCEPT !.changes[<<u, a>>] = @ + 1]
<1>4. t \in Transaction /\ t.readOnly = Current.readOnly
  <2>1. <<u, a>> \in Cell /\ Current.changes[<<u, a>>] + 1 \in Nat
    BY <1>3, ChangesAreCounts DEF Cell
  <2>2. t.readOnly = Current.readOnly
    BY <1>3 DEF Transaction
  <2>3. t \in Transaction
    BY <1>3, <2>1 DEF Transaction
  <2> QED
    BY <2>2, <2>3
<1>5. transactionList' = WithCurrent(t)
  BY <1>1 DEF Pushed
<1> QED
  BY <1>2, <1>4, <1>5, EditLevels DEF TInv

LEMMA ReleasedLevels ==
  ASSUME TypeOK, NEW u \in Uuid, GiveUp(u)
  PROVE  SameLevels
<1>1. transactionList' =
        [i \in DOMAIN transactionList |-> WithoutEntries(transactionList[i], u)]
  BY DEF GiveUp
<1>2. Depth \in Nat /\ DOMAIN transactionList = 1 .. Depth
  BY ListsOfSameLength
<1>3. Depth' = Depth
  BY <1>1, <1>2 DEF Depth
<1>4. ASSUME NEW i \in 1 .. Depth
      PROVE  transactionList'[i].readOnly = transactionList[i].readOnly
  <2>1. transactionList[i] \in Transaction
    BY <1>2, ElementIsTransaction
  <2> QED
    BY <1>1, <1>2, <2>1, WithoutIsTransaction
<1> QED
  BY <1>3, <1>4 DEF SameLevels, SameUpTo

--------------------------------------------------------------------------------
(* One core call of a call.                                                *)

(* How many transactions a core call adds to those that are open.          *)
Effect(step) ==
  IF step.do = "begin" THEN 1 ELSE IF step.do = "commit" THEN -1 ELSE 0

(* What must hold for a core call to be one that a client may make.        *)
Allowed(step) ==
  /\ step.do = "create" => step.object \notin usedUuids
  /\ step.do = "release" => step.object \in Held /\ Depth = 0
  /\ step.do = "close" => Depth = 0 /\ Held = {}

(* What CallStep does with the core call that is next.                     *)
Does(step) ==
  \/ step.do = "gather" /\ UNCHANGED vars
  \/ Performs(step)

(* What a core call fetches is there, and a list may be read.              *)
IsThere(u) == u \in DOMAIN store \cup Held \cup {Null}

Leads(step) ==
  /\ step.do = "fetch" => IsThere(step.object)
  /\ step.do = "follow" => IsThere(Last(objectHash[step.object][step.attr]))
  /\ step.do = "collect" => InWriteTransaction

(* A step of a client of CoreProject, or an assertion that fails.          *)
CoreStep == [Next \/ Dies("assert")]_vars

LEMMA StepFields ==
  ASSUME NEW step \in Step
  PROVE  /\ step.do = "begin" => step.readOnly \in BOOLEAN
         /\ step.do \in {"create", "fetch", "release", "set", "get",
                        "follow", "collect", "gather"}
              => step.object \in Uuid
         /\ step.do \in {"set", "get"} => step.attr \in Attr
         /\ step.do \in {"follow", "collect", "gather"} => step.attr \in PointerAttr
         /\ step.do = "set" => step.value \in Contents
         /\ Effect(step) \in {-1, 0, 1}
BY DEF Step, Effect

LEMMA FetchStep ==
  ASSUME TypeOK, NEW u, FetchOrKeep(u), Alive
  PROVE  /\ CoreStep
         /\ [Next]_vars \/ Dies("assert")
         /\ IsThere(u) => [Next]_vars
         /\ Alive' => SameLevels
         /\ UNCHANGED usedUuids
<1>1. CASE UNCHANGED vars
  BY <1>1, StutterLevels DEF CoreStep, vars, IsThere
<1>2. CASE ~UNCHANGED vars
  <2>1. Fetch(u) /\ u \notin Held
    BY <1>2 DEF FetchOrKeep
  <2>2. CASE u \in DOMAIN store
    <3>1. u \in Uuid
      BY <2>2 DEF TypeOK
    <3>2. Object
      BY <2>1, <2>2, <3>1 DEF Object
    <3> QED
      BY <2>1, <2>2, <3>2, StutterLevels DEF Fetch, CoreStep, Next
  <2>3. CASE u \notin DOMAIN store
    <3>1. ~IsThere(u)
      BY <1>2, <2>1, <2>3 DEF FetchOrKeep, IsThere
    <3> QED
      BY <2>1, <2>3, <3>1, StutterLevels DEF Fetch, Dies, CoreStep
  <2> QED
    BY <2>2, <2>3
<1> QED
  BY <1>1, <1>2

LEMMA GetStep ==
  ASSUME TypeOK, NEW u \in Uuid, NEW a \in Attr, GetOrKeep(u, a)
  PROVE  /\ [Next]_vars
         /\ SameLevels
         /\ UNCHANGED usedUuids
<1>1. \/ UNCHANGED vars
      \/ GetAttributeValue /\ UNCHANGED <<usedUuids, transactionList>>
  BY DEF GetOrKeep, GetAttributeValue, Get, Dies
<1> QED
  BY <1>1, StutterLevels DEF vars, Next

LEMMA GetCollectionStep ==
  ASSUME TypeOK, NEW u \in Uuid, NEW a \in PointerAttr, GetCollectionOrKeep(u, a)
  PROVE  /\ CoreStep
         /\ [Next]_vars \/ Dies("assert")
         /\ InWriteTransaction => [Next]_vars
         /\ SameLevels
         /\ UNCHANGED usedUuids
<1>1. \/ UNCHANGED vars
      \/ GetCollectionValue /\ UNCHANGED <<usedUuids, transactionList>>
      \/ ~InWriteTransaction /\ Dies("assert") /\ UNCHANGED <<usedUuids, transactionList>>
  BY DEF GetCollectionOrKeep, GetCollectionValue, GetCollection, Dies
<1> QED
  BY <1>1, StutterLevels DEF vars, Next, CoreStep

LEMMA SetStep ==
  ASSUME TInv, NEW u \in Uuid, NEW a \in Attr, NEW new \in Contents, SetOrKeep(u, a, new)
  PROVE  /\ [Next]_vars
         /\ Alive' => SameLevels
         /\ UNCHANGED usedUuids
<1>1. CASE Set(u, a, new)
  <2>1. SetAttributeValue
    BY <1>1 DEF SetAttributeValue
  <2>2. UNCHANGED usedUuids
    BY <1>1 DEF Set, Pushed, Dies
  <2> QED
    BY <2>1, <2>2, SetLevels DEF Next
<1>2. CASE GetOrKeep(u, a)
  BY <1>2, GetStep DEF TInv
<1> QED
  BY <1>1, <1>2 DEF SetOrKeep

(* A core call is a step that CoreProject knows, and adds or takes away    *)
(* the transaction it should.                                              *)
LEMMA StepEffect ==
  ASSUME TInv, Alive, NEW step \in Step, Allowed(step), Does(step)
  PROVE  /\ CoreStep
         /\ [Next]_vars \/ Dies("assert")
         /\ Leads(step) => [Next]_vars
         /\ Alive' => /\ Depth' = Depth + Effect(step)
                      /\ SameUpTo(IF step.do = "commit" THEN Depth - 1 ELSE Depth)
         /\ step.do # "create" => UNCHANGED usedUuids
         /\ step.do = "release" => Held' = Held \ {step.object}
         /\ step.do = "close" => ~Alive'
<1> USE StepFields DEF TInv
<1>n. [Next]_vars => CoreStep
  BY DEF CoreStep
<1>d. Depth \in Nat
  BY ListsOfSameLength
<1>1. CASE step.do = "begin"
  <2>1. Begin(step.readOnly) /\ step.readOnly \in BOOLEAN
    BY <1>1 DEF Does, Performs
  <2>2. [Next]_vars /\ UNCHANGED usedUuids
    BY <2>1 DEF Next, BeginTransaction, Begin
  <2> QED
    BY <1>n, <1>1, <2>1, <2>2, OpenLevels DEF Effect
<1>2. CASE step.do = "commit"
  <2>1. Ends
    BY <1>2 DEF Does, Performs
  <2>2. [Next]_vars /\ UNCHANGED usedUuids
    BY <2>1 DEF Next, Ends, CommitNested, CommitFinal, CommitDies, Dies
  <2> QED
    BY <1>n, <1>2, <2>1, <2>2, EndsLevels DEF Effect
<1>3. CASE step.do = "create"
  <2>1. Create(step.object) /\ step.object \in Uuid \ usedUuids
    BY <1>3 DEF Does, Performs, Allowed
  <2>2. [Next]_vars
    BY <2>1 DEF Next, CreateObject
  <2> QED
    BY <1>n, <1>3, <1>d, <2>1, <2>2, CreateLevels DEF Effect, SameLevels
<1>4. CASE step.do = "set"
  <2>1. SetOrKeep(step.object, step.attr, step.value)
    BY <1>4 DEF Does, Performs
  <2>2. step.object \in Uuid /\ step.attr \in Attr /\ step.value \in Contents
    BY <1>4
  <2> QED
    BY <1>n, <1>4, <1>d, <2>1, <2>2, SetStep DEF Effect, SameLevels
<1>5. CASE step.do = "get"
  <2>1. GetOrKeep(step.object, step.attr)
    BY <1>5 DEF Does, Performs
  <2> QED
    BY <1>n, <1>5, <1>d, <2>1, GetStep DEF Effect, SameLevels
<1>6. CASE step.do = "fetch"
  <2>1. FetchOrKeep(step.object)
    BY <1>6 DEF Does, Performs
  <2> QED
    BY <1>n, <1>6, <1>d, <2>1, FetchStep DEF Effect, Leads, SameLevels
<1>7. CASE step.do = "follow"
  <2>1. FetchOrKeep(Last(objectHash[step.object][step.attr]))
    BY <1>7 DEF Does, Performs
  <2> QED
    BY <1>n, <1>7, <1>d, <2>1, FetchStep DEF Effect, Leads, SameLevels
<1>8. CASE step.do = "collect"
  <2>1. GetCollectionOrKeep(step.object, step.attr)
    BY <1>8 DEF Does, Performs
  <2> QED
    BY <1>8, <1>d, <2>1, GetCollectionStep DEF Effect, SameLevels, Leads
<1>9. CASE step.do = "gather"
  <2>1. UNCHANGED vars
    BY <1>9 DEF Does, Performs
  <2> QED
    BY <1>n, <1>9, <1>d, <2>1, StutterLevels DEF Effect, SameLevels, vars
<1>10. CASE step.do = "release"
  <2>1. GiveUp(step.object) /\ step.object \in Held /\ step.object \in Uuid
    BY <1>10 DEF Does, Performs, Allowed
  <2>2. transactionList = << >>
    BY <1>10 DEF Allowed, Depth, TypeOK
  <2>3. Release
    BY <2>1, <2>2 DEF Release, MayGiveUp
  <2>4. Held' = Held \ {step.object} /\ UNCHANGED usedUuids
    BY <2>1 DEF GiveUp, Held, Restrict
  <2> QED
    BY <1>n, <1>10, <1>d, <2>1, <2>3, <2>4, ReleasedLevels DEF Effect, SameLevels, Next
<1>11. CASE step.do = "close"
  <2>1. Destroy
    BY <1>11 DEF Does, Performs
  <2>2. ~InTransaction /\ Held = {}
    BY <1>11 DEF Allowed, Depth, TypeOK, InTransaction
  <2>3. Close
    BY <2>1, <2>2 DEF Close
  <2>4. ~Alive' /\ UNCHANGED usedUuids
    BY <2>1 DEF Destroy, Dies, Alive
  <2> QED
    BY <1>n, <1>11, <2>3, <2>4 DEF Next
<1> QED
  BY <1>1, <1>2, <1>3, <1>4, <1>5, <1>6, <1>7, <1>8, <1>9, <1>10, <1>11 DEF Step

--------------------------------------------------------------------------------
(* What is left of a call.                                                 *)

(* The transactions of the client are all open and may write.              *)
ClientMayWrite ==
  /\ opened <= Depth
  /\ \A i \in 1 .. opened : ~transactionList[i].readOnly

(* How many transactions the call has open before each of its steps: none  *)
(* or one, one where it writes, and none at the end.                       *)
OpensAndEnds(steps, d) ==
  /\ d \in [1 .. Len(steps) + 1 -> 0 .. 1]
  /\ d[1] = Depth - opened
  /\ d[Len(steps) + 1] = 0
  /\ \A i \in 1 .. Len(steps) :
       /\ d[i + 1] = d[i] + Effect(steps[i])
       /\ steps[i].do \in {"create", "set"} => d[i] = 1

(* A step that is not the first but needs something is the second, and the *)
(* first brings it about or leaves it alone.                               *)
Prepared(steps) ==
  \A i \in 2 .. Len(steps) :
    /\ steps[i].do = "create" =>
         i = 2 /\ steps[1].do # "create" /\ steps[i].object \notin usedUuids
    /\ steps[i].do # "release"
    /\ steps[i].do = "close" =>
         i = 2 /\ steps[1].do = "release" /\ Held = {steps[1].object} /\ Depth = 0

Plan(steps) ==
  /\ ClientMayWrite
  /\ \E d \in [1 .. Len(steps) + 1 -> 0 .. 1] : OpensAndEnds(steps, d)
  /\ steps # << >> => Allowed(steps[1])
  /\ Prepared(steps)

MetaInv ==
  /\ TInv
  /\ call \in Seq(Step)
  /\ opened \in 0 .. MaxDepth - 1
  /\ Alive => Plan(call)

LEMMA CoreStepTInv == TInv /\ CoreStep => TInv'
BY NextTInv, DiesTInv DEF CoreStep

LEMMA TailOfSteps ==
  ASSUME NEW S, NEW s \in Seq(S), s # << >>
  PROVE  /\ s[1] \in S /\ Head(s) = s[1]
         /\ Len(s) \in Nat \ {0}
         /\ Tail(s) \in Seq(S)
         /\ Len(Tail(s)) = Len(s) - 1
         /\ \A i \in 1 .. Len(s) - 1 : Tail(s)[i] = s[i + 1]
OBVIOUS

(* The first step of a plan leaves a plan.                                 *)
LEMMA PlanGoesOn ==
  ASSUME MetaInv, Alive, NEW steps \in Seq(Step), steps # << >>, Plan(steps),
         Does(Head(steps)), call' = Tail(steps), UNCHANGED opened
  PROVE  CoreStep /\ MetaInv'
<1> DEFINE step == steps[1]
<1>1. /\ step \in Step /\ Head(steps) = step
      /\ Len(steps) \in Nat \ {0}
      /\ Tail(steps) \in Seq(Step)
      /\ Len(call') = Len(steps) - 1
      /\ \A i \in 1 .. Len(steps) - 1 : call'[i] = steps[i + 1]
  BY TailOfSteps
<1>2. TInv /\ Allowed(step) /\ ClientMayWrite /\ Prepared(steps)
  BY DEF MetaInv, Plan
<1>3. PICK d \in [1 .. Len(steps) + 1 -> 0 .. 1] : OpensAndEnds(steps, d)
  BY DEF Plan
<1>4. /\ CoreStep
      /\ Alive' => /\ Depth' = Depth + Effect(step)
                   /\ SameUpTo(IF step.do = "commit" THEN Depth - 1 ELSE Depth)
      /\ step.do # "create" => UNCHANGED usedUuids
      /\ step.do = "release" => Held' = Held \ {step.object}
      /\ step.do = "close" => ~Alive'
  BY <1>1, <1>2, StepEffect
<1>5. TInv' /\ call' \in Seq(Step) /\ opened' \in 0 .. MaxDepth - 1
  BY <1>1, <1>2, <1>4, CoreStepTInv DEF MetaInv
<1>6. SUFFICES ASSUME Alive' PROVE Plan(call)'
  BY <1>4, <1>5 DEF MetaInv
<1>7. /\ Depth \in Nat /\ opened \in Nat
      /\ Effect(step) \in {-1, 0, 1}
      /\ opened <= Depth /\ Depth' = Depth + Effect(step)
      /\ d[1] = Depth - opened
      /\ d[2] = d[1] + Effect(step) /\ d[2] \in Nat
  <2>1. Depth \in Nat /\ opened \in Nat
    BY <1>2, ListsOfSameLength, ConstantsAssumption DEF TInv, MetaInv
  <2>2. 1 \in 1 .. Len(steps) /\ 2 \in 1 .. Len(steps) + 1
    BY <1>1
  <2>3. Effect(step) \in {-1, 0, 1}
    BY DEF Effect
  <2>4. opened <= Depth /\ Depth' = Depth + Effect(step)
    BY <1>2, <1>4, <1>6 DEF ClientMayWrite
  <2>5. d[1] = Depth - opened /\ d[1 + 1] = d[1] + Effect(step)
    BY <1>3, <2>2 DEF OpensAndEnds
  <2>6. d[2] \in Nat
    BY <1>3, <2>2
  <2> QED
    BY <2>1, <2>3, <2>4, <2>5, <2>6
<1>8. ClientMayWrite'
  <2>1. opened <= Depth'
    BY <1>7
  <2>2. ASSUME NEW i \in 1 .. opened
        PROVE  transactionList'[i].readOnly = transactionList[i].readOnly
    BY <1>4, <1>6, <1>7, <2>1 DEF SameUpTo, Effect
  <2> QED
    BY <1>2, <2>1, <2>2 DEF ClientMayWrite
<1>9. (\E e \in [1 .. Len(call) + 1 -> 0 .. 1] : OpensAndEnds(call, e))'
  <2> DEFINE e == [i \in 1 .. Len(call') + 1 |-> d[i + 1]]
  <2>1. e \in [1 .. Len(call') + 1 -> 0 .. 1]
    BY <1>1
  <2>2. e[1] = Depth' - opened'
    BY <1>1, <1>7
  <2>3. e[Len(call') + 1] = 0
    BY <1>1, <1>3 DEF OpensAndEnds
  <2>4. ASSUME NEW i \in 1 .. Len(call')
        PROVE  /\ e[i + 1] = e[i] + Effect(call'[i])
               /\ call'[i].do \in {"create", "set"} => e[i] = 1
    BY <1>1, <1>3 DEF OpensAndEnds
  <2> QED
    BY <2>1, <2>2, <2>3, <2>4 DEF OpensAndEnds, Effect
<1>10. (call # << >> => Allowed(call[1]))'
  <2>1. SUFFICES ASSUME call' # << >> PROVE Allowed(call[1])'
    OBVIOUS
  <2>2. 2 \in 2 .. Len(steps) /\ call'[1] = steps[2]
    BY <1>1, <2>1
  <2>3. /\ steps[2].do = "create" => step.do # "create" /\ steps[2].object \notin usedUuids
        /\ steps[2].do # "release"
        /\ steps[2].do = "close" =>
             step.do = "release" /\ Held = {step.object} /\ Depth = 0
    BY <1>2, <2>2 DEF Prepared
  <2>4. step.do = "release" => Effect(step) = 0
    BY DEF Effect
  <2> QED
    BY <1>4, <1>7, <2>2, <2>3, <2>4 DEF Allowed
<1>11. Prepared(call)'
  <2>1. ASSUME NEW i \in 2 .. Len(call')
        PROVE  /\ call'[i].do # "create"
               /\ call'[i].do # "release"
               /\ call'[i].do # "close"
    <3>1. /\ i + 1 \in 2 .. Len(steps) /\ i + 1 # 2
          /\ call'[i] = steps[i + 1]
      BY <1>1
    <3> QED
      BY <1>2, <3>1 DEF Prepared
  <2> QED
    BY <2>1 DEF Prepared
<1> QED
  BY <1>8, <1>9, <1>10, <1>11 DEF Plan

(* Fetching an object of a list: the call is where it was.                 *)
LEMMA GatheringGoesOn ==
  ASSUME MetaInv, Alive, call # << >>, Head(call).do = "gather", NEW u, FetchOrKeep(u),
         UNCHANGED <<call, opened>>
  PROVE  CoreStep /\ MetaInv'
<1>1. TInv /\ TypeOK
  BY DEF MetaInv, TInv
<1>2. CoreStep /\ (Alive' => SameLevels)
  BY <1>1, FetchStep
<1>3. TInv' /\ call' \in Seq(Step) /\ opened' \in 0 .. MaxDepth - 1
  BY <1>1, <1>2, CoreStepTInv DEF MetaInv
<1>4. SUFFICES ASSUME Alive' PROVE Plan(call)'
  BY <1>2, <1>3 DEF MetaInv
<1>5. Depth' = Depth /\ SameUpTo(Depth) /\ Depth \in Nat /\ opened \in Nat
  BY <1>1, <1>2, <1>4, ListsOfSameLength, ConstantsAssumption DEF SameLevels, MetaInv
<1>6. Plan(call)
  BY DEF MetaInv
<1>7. call[1].do = "gather"
  BY TailOfSteps DEF MetaInv
<1>8. ClientMayWrite'
  BY <1>5, <1>6 DEF ClientMayWrite, SameUpTo, Plan
<1>9. (\E e \in [1 .. Len(call) + 1 -> 0 .. 1] : OpensAndEnds(call, e))'
  <2>1. PICK d \in [1 .. Len(call) + 1 -> 0 .. 1] : OpensAndEnds(call, d)
    BY <1>6 DEF Plan
  <2> QED
    BY <1>5, <2>1 DEF OpensAndEnds, Effect
<1>10. Allowed(call[1])' /\ Prepared(call)'
  <2>1. UNCHANGED usedUuids
    BY <1>1, FetchStep
  <2> QED
    BY <1>5, <1>6, <1>7, <2>1 DEF Plan, Prepared, Allowed
<1> QED
  BY <1>8, <1>9, <1>10 DEF Plan

--------------------------------------------------------------------------------
(* The calls.                                                              *)

LEMMA StepsOfCalls ==
  /\ \A ro \in BOOLEAN : Opens(ro) \in Step /\ Opens(ro).do = "begin"
  /\ Commits \in Step /\ Commits.do = "commit"
  /\ Closes \in Step /\ Closes.do = "close"
  /\ \A u \in Uuid :
       /\ Creates(u) \in Step /\ Creates(u).do = "create" /\ Creates(u).object = u
       /\ Fetches(u) \in Step /\ Fetches(u).do = "fetch"
       /\ GivesUp(u) \in Step /\ GivesUp(u).do = "release" /\ GivesUp(u).object = u
  /\ \A u \in Uuid, a \in Attr, new \in Contents :
       Sets(u, a, new) \in Step /\ Sets(u, a, new).do = "set"
  /\ \A u \in Uuid, a \in Attr : Gets(u, a) \in Step /\ Gets(u, a).do = "get"
  /\ \A u \in Uuid, a \in PointerAttr :
       /\ Follows(u, a) \in Step /\ Follows(u, a).do = "follow"
       /\ Collects(u, a) \in Step /\ Collects(u, a).do = "collect"
       /\ Gathers(u, a) \in Step /\ Gathers(u, a).do = "gather"
BY DEF Step, Opens, Commits, Closes, Creates, Fetches, GivesUp, Sets, Gets, Follows,
       Collects, Gathers

LEMMA ReadyIsLevel ==
  ASSUME MetaInv, Ready
  PROVE  /\ Depth \in Nat /\ Depth = opened
         /\ ClientMayWrite
<1>1. call = << >> /\ Plan(call) /\ TypeOK
  BY DEF MetaInv, Ready, TInv
<1>2. PICK d \in [1 .. Len(call) + 1 -> 0 .. 1] : OpensAndEnds(call, d)
  BY <1>1 DEF Plan
<1>3. d[1] = Depth - opened /\ d[1] = 0
  BY <1>1, <1>2 DEF OpensAndEnds
<1> QED
  BY <1>1, <1>3, ListsOfSameLength, ConstantsAssumption DEF Plan, MetaInv

LEMMA CallBegins ==
  ASSUME MetaInv, Ready, NEW steps \in Seq(Step), steps # << >>, Calls(steps),
         Allowed(steps[1]), Prepared(steps),
         NEW d \in [1 .. Len(steps) + 1 -> 0 .. 1], d[1] = 0, d[Len(steps) + 1] = 0,
         \A i \in 1 .. Len(steps) :
           /\ d[i + 1] = d[i] + Effect(steps[i])
           /\ steps[i].do \in {"create", "set"} => d[i] = 1
  PROVE  CoreStep /\ MetaInv'
<1>1. Plan(steps)
  BY ReadyIsLevel DEF Plan, OpensAndEnds
<1>2. /\ Does(Head(steps)) /\ call' = Tail(steps) /\ UNCHANGED opened
      /\ Alive
  BY DEF Calls, Does, Ready
<1> QED
  BY <1>1, <1>2, PlanGoesOn

(* A call between begin and commit.                                        *)
LEMMA BracketedCall ==
  ASSUME MetaInv, Ready, NEW steps \in Seq(Step), Len(steps) > 1, Calls(steps),
         steps[1].do = "begin", steps[Len(steps)].do = "commit",
         \A i \in 2 .. Len(steps) - 1 :
           /\ steps[i].do \notin {"begin", "commit", "release", "close"}
           /\ steps[i].do = "create" => i = 2 /\ steps[i].object \notin usedUuids
  PROVE  CoreStep /\ MetaInv'
<1> DEFINE n == Len(steps)
           d == [i \in 1 .. n + 1 |-> IF i = 1 \/ i = n + 1 THEN 0 ELSE 1]
<1>1. n \in Nat /\ steps # << >>
  OBVIOUS
<1>2. d \in [1 .. n + 1 -> 0 .. 1] /\ d[1] = 0 /\ d[n + 1] = 0
  BY <1>1
<1>3. ASSUME NEW i \in 1 .. n
      PROVE  /\ d[i + 1] = d[i] + Effect(steps[i])
             /\ steps[i].do \in {"create", "set"} => d[i] = 1
  <2>1. CASE i = 1
    BY <1>1, <2>1 DEF Effect
  <2>2. CASE i = n
    BY <1>1, <2>2 DEF Effect
  <2>3. CASE i \in 2 .. n - 1
    BY <1>1, <2>3 DEF Effect
  <2> QED
    BY <1>1, <2>1, <2>2, <2>3
<1>4. Allowed(steps[1])
  BY DEF Allowed
<1>5. Prepared(steps)
  <2>1. ASSUME NEW i \in 2 .. n
        PROVE  i = n \/ i \in 2 .. n - 1
    BY <1>1
  <2> QED
    BY <2>1 DEF Prepared
<1> HIDE DEF d
<1> QED
  BY <1>1, <1>2, <1>3, <1>4, <1>5, CallBegins

LEMMA ShortSequences ==
  ASSUME NEW S, NEW w \in S, NEW x \in S, NEW y \in S, NEW z \in S
  PROVE  /\ <<w, x>> \in Seq(S) /\ Len(<<w, x>>) = 2
         /\ <<w, x, y>> \in Seq(S) /\ Len(<<w, x, y>>) = 3
         /\ <<w, x, y, z>> \in Seq(S) /\ Len(<<w, x, y, z>>) = 4
OBVIOUS

(* The same for calls that are given step by step.                         *)
LEMMA CallOfOne ==
  ASSUME MetaInv, NEW begin \in Step, NEW x \in Step, NEW commit \in Step,
         begin.do = "begin", commit.do = "commit",
         x.do \in {"set", "get", "fetch"},
         Calls(<<begin, x, commit>>)
  PROVE  CoreStep /\ MetaInv'
<1> DEFINE steps == <<begin, x, commit>>
<1>1. steps \in Seq(Step) /\ Len(steps) = 3
  BY ShortSequences
<1>2. steps[1].do = "begin" /\ steps[2].do = x.do /\ steps[3].do = "commit"
  OBVIOUS
<1>3. Calls(steps) /\ Ready
  BY DEF Calls
<1> HIDE DEF steps
<1>4. ASSUME NEW i \in 2 .. Len(steps) - 1
      PROVE  steps[i].do \notin {"begin", "commit", "release", "close", "create"}
  <2>1. i = 2
    BY <1>1
  <2> QED
    BY <1>2, <2>1
<1>5. Len(steps) > 1 /\ steps[Len(steps)].do = "commit"
  BY <1>1, <1>2
<1> QED
  BY <1>1, <1>2, <1>3, <1>4, <1>5, BracketedCall

LEMMA CallOfTwo ==
  ASSUME MetaInv, NEW begin \in Step, NEW x \in Step, NEW y \in Step, NEW commit \in Step,
         begin.do = "begin", commit.do = "commit",
         x.do \in {"create", "get"}, x.do = "create" => x.object \notin usedUuids,
         y.do \in {"set", "follow"},
         Calls(<<begin, x, y, commit>>)
  PROVE  CoreStep /\ MetaInv'
<1> DEFINE steps == <<begin, x, y, commit>>
<1>1. steps \in Seq(Step) /\ Len(steps) = 4
  BY ShortSequences
<1>2. /\ steps[1].do = "begin" /\ steps[2] = x
      /\ steps[3] = y /\ steps[4].do = "commit"
  OBVIOUS
<1>3. Calls(steps) /\ Ready
  BY DEF Calls
<1> HIDE DEF steps
<1>4. ASSUME NEW i \in 2 .. Len(steps) - 1
      PROVE  /\ steps[i].do \notin {"begin", "commit", "release", "close"}
             /\ steps[i].do = "create" => i = 2 /\ steps[i].object \notin usedUuids
  <2>1. i = 2 \/ i = 3
    BY <1>1
  <2> QED
    BY <1>2, <2>1
<1>5. Len(steps) > 1 /\ steps[Len(steps)].do = "commit"
  BY <1>1, <1>2
<1> QED
  BY <1>1, <1>2, <1>3, <1>4, <1>5, BracketedCall

LEMMA SetValueKeeps ==
  ASSUME MetaInv, SetValue
  PROVE  CoreStep /\ MetaInv'
<1>1. PICK u \in Held, a \in ValueAttr, new \in Value : Calls(Setter(u, a, new))
  BY DEF SetValue
<1>2. u \in Uuid /\ a \in Attr /\ new \in Contents
  BY DEF MetaInv, TInv, TypeOK, Held, Attr, Contents
<1>3. Calls(<<Opens(FALSE), Sets(u, a, new), Commits>>)
  BY <1>1 DEF Setter
<1>4. /\ Opens(FALSE) \in Step /\ Opens(FALSE).do = "begin"
      /\ Sets(u, a, new) \in Step /\ Sets(u, a, new).do = "set"
      /\ Commits \in Step /\ Commits.do = "commit"
  BY <1>2, StepsOfCalls
<1> QED
  BY <1>3, <1>4, CallOfOne

LEMMA GetValueKeeps ==
  ASSUME MetaInv, GetValue
  PROVE  CoreStep /\ MetaInv'
<1>1. PICK u \in Held, a \in ValueAttr : Calls(<<Opens(FALSE), Gets(u, a), Commits>>)
  BY DEF GetValue
<1>2. u \in Uuid /\ a \in Attr
  BY DEF MetaInv, TInv, TypeOK, Held, Attr
<1> QED
  BY <1>1, <1>2, StepsOfCalls, CallOfOne

LEMMA GetOfProjectKeeps ==
  ASSUME MetaInv, GetOfProject
  PROVE  CoreStep /\ MetaInv'
<1>1. PICK a \in ValueAttr : Calls(<<Opens(TRUE), Gets(Root, a), Commits>>)
  BY DEF GetOfProject
<1>2. Root \in Uuid /\ a \in Attr
  BY ConstantsAssumption DEF Attr
<1> QED
  BY <1>1, <1>2, StepsOfCalls, CallOfOne

LEMMA FindObjectKeeps ==
  ASSUME MetaInv, FindObject
  PROVE  CoreStep /\ MetaInv'
<1>1. PICK u \in Uuid \ Held : Calls(<<Opens(TRUE), Fetches(u), Commits>>)
  BY DEF FindObject
<1> QED
  BY <1>1, StepsOfCalls, CallOfOne

LEMMA CreateChildKeeps ==
  ASSUME MetaInv, CreateChild
  PROVE  CoreStep /\ MetaInv'
<1>1. PICK a \in PointerAttr, parent \in Held :
        usedUuids # Uuid /\ Calls(Creator(NextUuid, a, parent))
  BY DEF CreateChild
<1>2. NextUuid \in Uuid \ usedUuids
  <2>1. Uuid \ usedUuids # {}
    BY <1>1 DEF MetaInv, TInv, TypeOK
  <2> QED
    BY <2>1 DEF NextUuid
<1>3. a \in Attr /\ parent \in Contents
  BY DEF MetaInv, TInv, TypeOK, Held, Attr, Contents
<1> DEFINE u == NextUuid
<1> HIDE DEF u
<1>4. Calls(<<Opens(FALSE), Creates(u), Sets(u, a, parent), Commits>>)
  BY <1>1 DEF Creator, u
<1>5. u \in Uuid \ usedUuids
  BY <1>2 DEF u
<1>6. /\ Creates(u) \in Step /\ Creates(u).do = "create" /\ Creates(u).object \notin usedUuids
      /\ Sets(u, a, parent) \in Step /\ Sets(u, a, parent).do = "set"
  BY <1>3, <1>5, StepsOfCalls
<1> QED
  BY <1>4, <1>6, StepsOfCalls, CallOfTwo

LEMMA ObjectFromAttributeKeeps ==
  ASSUME MetaInv, ObjectFromAttribute
  PROVE  CoreStep /\ MetaInv'
<1>1. PICK u \in Held, a \in PointerAttr :
        Calls(<<Opens(FALSE), Gets(u, a), Follows(u, a), Commits>>)
  BY DEF ObjectFromAttribute
<1>2. u \in Uuid /\ a \in Attr
  BY DEF MetaInv, TInv, TypeOK, Held, Attr
<1> QED
  BY <1>1, <1>2, StepsOfCalls, CallOfTwo

LEMMA GetConstraintsKeeps ==
  ASSUME MetaInv, GetConstraints
  PROVE  CoreStep /\ MetaInv'
<1>1. PICK u \in Held, a \in PointerAttr : Calls(<<Collects(u, a), Gathers(u, a)>>)
  BY DEF GetConstraints
<1>2. u \in Uuid
  BY DEF MetaInv, TInv, TypeOK, Held
<1> DEFINE steps == <<Collects(u, a), Gathers(u, a)>>
           d == [i \in 1 .. 3 |-> 0]
<1>3. steps \in Seq(Step) /\ Len(steps) = 2 /\ steps # << >>
  BY <1>2, StepsOfCalls, ShortSequences
<1>4. steps[1].do = "collect" /\ steps[2].do = "gather"
  BY <1>2, StepsOfCalls
<1>5. Calls(steps) /\ Ready
  BY <1>1 DEF Calls
<1> HIDE DEF steps
<1>6. Allowed(steps[1]) /\ Prepared(steps)
  BY <1>3, <1>4 DEF Allowed, Prepared
<1>7. \A i \in 1 .. Len(steps) :
        Effect(steps[i]) = 0 /\ steps[i].do \notin {"create", "set"}
  BY <1>3, <1>4 DEF Effect
<1>8. /\ d \in [1 .. Len(steps) + 1 -> 0 .. 1] /\ d[1] = 0 /\ d[Len(steps) + 1] = 0
      /\ \A i \in 1 .. Len(steps) :
           /\ d[i + 1] = d[i] + Effect(steps[i])
           /\ steps[i].do \in {"create", "set"} => d[i] = 1
  BY <1>3, <1>7
<1> HIDE DEF d
<1> QED
  BY <1>3, <1>5, <1>6, <1>8, CallBegins

LEMMA MetaCloseKeeps ==
  ASSUME MetaInv, MetaClose
  PROVE  CoreStep /\ MetaInv'
<1>1. opened = 0 /\ Held = {Root} /\ Calls(Destructor)
  BY DEF MetaClose
<1>2. Root \in Uuid
  BY ConstantsAssumption
<1> DEFINE steps == <<GivesUp(Root), Closes>>
           d == [i \in 1 .. 3 |-> 0]
<1>3. steps \in Seq(Step) /\ Len(steps) = 2 /\ steps # << >>
  BY <1>2, StepsOfCalls, ShortSequences
<1>4. steps[1].do = "release" /\ steps[1].object = Root /\ steps[2].do = "close"
  BY <1>2, StepsOfCalls
<1>5. Calls(steps) /\ Ready
  BY <1>1 DEF Calls, Destructor
<1>6. Depth = 0
  BY <1>1, <1>5, ReadyIsLevel
<1> HIDE DEF steps
<1>7. Allowed(steps[1]) /\ Prepared(steps)
  BY <1>1, <1>3, <1>4, <1>6 DEF Allowed, Prepared
<1>8. \A i \in 1 .. Len(steps) :
        Effect(steps[i]) = 0 /\ steps[i].do \notin {"create", "set"}
  BY <1>3, <1>4 DEF Effect
<1>9. /\ d \in [1 .. Len(steps) + 1 -> 0 .. 1] /\ d[1] = 0 /\ d[Len(steps) + 1] = 0
      /\ \A i \in 1 .. Len(steps) :
           /\ d[i + 1] = d[i] + Effect(steps[i])
           /\ steps[i].do \in {"create", "set"} => d[i] = 1
  BY <1>3, <1>8
<1> HIDE DEF d
<1> QED
  BY <1>3, <1>5, <1>7, <1>9, CallBegins

LEMMA CallStepKeeps ==
  ASSUME MetaInv, CallStep
  PROVE  CoreStep /\ MetaInv'
<1>1. Alive /\ call # << >> /\ call \in Seq(Step) /\ Plan(call) /\ UNCHANGED opened
  BY DEF CallStep, MetaInv
<1>2. CASE \E u \in Missing(Head(call)) : FetchOrKeep(u) /\ call' = call
  <2>1. PICK u \in Missing(Head(call)) : FetchOrKeep(u) /\ call' = call
    BY <1>2
  <2>2. Head(call).do = "gather"
    BY <2>1 DEF Missing
  <2> QED
    BY <1>1, <2>1, <2>2, GatheringGoesOn
<1>3. CASE /\ IF Head(call).do = "gather" THEN UNCHANGED vars ELSE Performs(Head(call))
           /\ call' = Tail(call)
  <2>1. Does(Head(call))
    BY <1>3 DEF Does
  <2> QED
    BY <1>1, <1>3, <2>1, PlanGoesOn
<1> QED
  BY <1>2, <1>3 DEF CallStep

--------------------------------------------------------------------------------
(* Between calls.                                                          *)

LEMMA IdleAfter ==
  ASSUME call' = << >>, Depth' \in Nat, Depth' = opened',
         \A i \in 1 .. opened' : ~transactionList'[i].readOnly
  PROVE  Plan(call)'
<1> DEFINE d == [i \in 1 .. 1 |-> 0]
<1>1. Len(call') = 0 /\ 1 .. Len(call') = {} /\ 2 .. Len(call') = {}
  OBVIOUS
<1>2. (\E e \in [1 .. Len(call) + 1 -> 0 .. 1] : OpensAndEnds(call, e))'
  <2>1. d \in [1 .. Len(call') + 1 -> 0 .. 1]
    BY <1>1
  <2>2. Depth' - opened' = 0
    <3>1. \A k, n \in Nat : k = n => k - n = 0
      OBVIOUS
    <3> QED
      BY <3>1
  <2>3. d[1] = Depth' - opened' /\ d[Len(call') + 1] = 0
    <3>1. d[1] = 0 /\ Len(call') + 1 = 1
      BY <1>1
    <3> QED
      BY <2>2, <3>1
  <2> HIDE DEF d
  <2> QED
    BY <1>1, <2>1, <2>3 DEF OpensAndEnds, Effect
<1>3. ClientMayWrite' /\ Prepared(call)'
  BY <1>1 DEF ClientMayWrite, Prepared
<1> QED
  BY <1>2, <1>3 DEF Plan

LEMMA MetaBeginKeeps ==
  ASSUME MetaInv, MetaBegin
  PROVE  CoreStep /\ MetaInv'
<1>1. /\ Ready /\ Begin(FALSE) /\ opened < MaxDepth - 1
      /\ opened' = opened + 1 /\ UNCHANGED call
  BY DEF MetaBegin
<1>2. TInv /\ TypeOK /\ opened \in 0 .. MaxDepth - 1 /\ MaxDepth \in Nat
  BY ConstantsAssumption DEF MetaInv, TInv
<1>3. CoreStep
  BY <1>1 DEF CoreStep, Next, BeginTransaction
<1>4. Depth \in Nat /\ Depth = opened /\ ClientMayWrite
  BY <1>1, ReadyIsLevel
<1>5. /\ Depth' = Depth + 1 /\ SameUpTo(Depth)
      /\ transactionList'[Depth + 1].readOnly = FALSE
  BY <1>1, <1>2, OpenLevels
<1>6. ASSUME NEW i \in 1 .. opened'
      PROVE  ~transactionList'[i].readOnly
  <2>1. i = Depth + 1 \/ i \in 1 .. opened
    BY <1>1, <1>2, <1>4
  <2> QED
    BY <1>4, <1>5, <2>1 DEF SameUpTo, ClientMayWrite
<1>7. Plan(call)'
  BY <1>1, <1>4, <1>5, <1>6, IdleAfter DEF Ready
<1> QED
  BY <1>1, <1>2, <1>3, <1>7, CoreStepTInv DEF MetaInv

(* The innermost transaction of the client ends.                           *)
LEMMA EndKeeps ==
  ASSUME MetaInv, Ready, opened > 0, CoreStep, UNCHANGED call, opened' = opened - 1,
         Alive' => Depth' = Depth - 1 /\ SameUpTo(Depth - 1)
  PROVE  MetaInv'
<1>1. TInv /\ opened \in 0 .. MaxDepth - 1 /\ MaxDepth \in Nat
  BY ConstantsAssumption DEF MetaInv
<1>2. Depth \in Nat /\ Depth = opened /\ ClientMayWrite
  BY ReadyIsLevel
<1>3. ASSUME Alive' PROVE Plan(call)'
  <2>1. \A i \in 1 .. opened' : ~transactionList'[i].readOnly
    BY <1>1, <1>2, <1>3 DEF SameUpTo, ClientMayWrite
  <2> QED
    BY <1>1, <1>2, <1>3, <2>1, IdleAfter DEF Ready
<1> QED
  BY <1>1, <1>3, CoreStepTInv DEF MetaInv

LEMMA MetaCommitKeeps ==
  ASSUME MetaInv, MetaCommit
  PROVE  CoreStep /\ MetaInv'
<1>1. TypeOK /\ Ends
  BY DEF MetaInv, TInv, MetaCommit
<1>2. CoreStep
  BY <1>1 DEF CoreStep, Next, Ends
<1> QED
  BY <1>1, <1>2, EndsLevels, EndKeeps DEF MetaCommit

LEMMA MetaAbortKeeps ==
  ASSUME MetaInv, MetaAbort
  PROVE  CoreStep /\ MetaInv'
<1>1. TypeOK /\ (AbortTransaction \/ AbortDies)
  BY DEF MetaInv, TInv, MetaAbort
<1>2. CoreStep
  BY <1>1 DEF CoreStep, Next
<1> QED
  BY <1>1, <1>2, AbortedLevels, EndKeeps DEF MetaAbort

LEMMA DeleteKeeps ==
  ASSUME MetaInv, Delete
  PROVE  CoreStep /\ MetaInv'
<1>1. PICK u \in Held : MayGiveUp(u) /\ GiveUp(u)
  BY DEF Delete
<1>2. /\ TInv /\ TypeOK /\ u \in Uuid
      /\ Ready /\ UNCHANGED <<call, opened>>
  BY DEF Delete, MetaInv, TInv, TypeOK, Held
<1>3. CoreStep
  BY <1>1 DEF CoreStep, Next, Release
<1>4. Depth \in Nat /\ Depth = opened /\ ClientMayWrite
  BY <1>2, ReadyIsLevel
<1>5. Depth' = Depth /\ SameUpTo(Depth)
  BY <1>1, <1>2, ReleasedLevels DEF SameLevels
<1>6. Plan(call)'
  BY <1>2, <1>4, <1>5, IdleAfter DEF Ready, SameUpTo, ClientMayWrite
<1> QED
  BY <1>2, <1>3, <1>6, CoreStepTInv DEF MetaInv

LEMMA MetaNextKeeps ==
  ASSUME MetaInv, MetaNext
  PROVE  CoreStep /\ MetaInv'
BY CallStepKeeps, MetaBeginKeeps, MetaCommitKeeps, MetaAbortKeeps, SetValueKeeps,
   GetValueKeeps, GetOfProjectKeeps, FindObjectKeeps, CreateChildKeeps,
   ObjectFromAttributeKeeps, GetConstraintsKeeps, DeleteKeeps, MetaCloseKeeps
DEF MetaNext

LEMMA MetaStutter ==
  ASSUME MetaInv, UNCHANGED metaVars
  PROVE  CoreStep /\ MetaInv'
<1>1. CoreStep /\ TInv'
  BY StutterTInv DEF MetaInv, metaVars, CoreStep
<1>2. Plan(call)' <=> Plan(call)
  BY DEF metaVars, vars, Plan, ClientMayWrite, OpensAndEnds, Allowed, Prepared, Held, Depth
<1> QED
  BY <1>1, <1>2 DEF MetaInv, metaVars, vars, Alive

--------------------------------------------------------------------------------
(* Opening a project.                                                      *)

LEMMA AttributesInOrder ==
  /\ SetToSeq(ValueAttr) \in Seq(ValueAttr)
  /\ Len(SetToSeq(ValueAttr)) \in Nat
  /\ DOMAIN SetToSeq(ValueAttr) = 1 .. Len(SetToSeq(ValueAttr))
<1>1. /\ Cardinality(ValueAttr) \in Nat
      /\ ExistsBijection(1 .. Cardinality(ValueAttr), ValueAttr)
  BY TableAssumption, FS_CardinalityType
<1>2. \E f \in [1 .. Cardinality(ValueAttr) -> ValueAttr] : IsInjective(f)
  BY <1>1 DEF ExistsBijection, Bijection, Injection
<1>3. SetToSeq(ValueAttr) \in [1 .. Cardinality(ValueAttr) -> ValueAttr]
  BY <1>2 DEF SetToSeq
<1>4. SetToSeq(ValueAttr) \in Seq(ValueAttr)
  BY <1>1, <1>3
<1> QED
  BY <1>4

LEMMA OneElement ==
  ASSUME NEW S, NEW x \in S
  PROVE  <<x>> \in Seq(S) /\ Len(<<x>>) = 1 /\ <<x>>[1] = x
OBVIOUS

LEMMA Joined ==
  ASSUME NEW S, NEW s \in Seq(S), NEW t \in Seq(S)
  PROVE  /\ s \o t \in Seq(S)
         /\ Len(s \o t) = Len(s) + Len(t)
         /\ \A i \in 1 .. Len(s) : (s \o t)[i] = s[i]
         /\ \A i \in Len(s) + 1 .. Len(s) + Len(t) : (s \o t)[i] = t[i - Len(s)]
OBVIOUS

LEMMA ConstructorSteps ==
  /\ Constructor \in Seq(Step) /\ Len(Constructor) = 3
  /\ Constructor[1].do = "begin" /\ Constructor[1].readOnly = TRUE
  /\ Constructor[2].do = "fetch" /\ Constructor[2].object = Root
  /\ Constructor[3].do = "commit"
<1>1. /\ Opens(TRUE) \in Step /\ Fetches(Root) \in Step /\ Commits \in Step
      /\ Opens(TRUE).do = "begin" /\ Opens(TRUE).readOnly = TRUE
      /\ Fetches(Root).do = "fetch" /\ Fetches(Root).object = Root /\ Commits.do = "commit"
  <2>1. Root \in Uuid /\ TRUE \in BOOLEAN
    BY ConstantsAssumption
  <2>2. Opens(TRUE).readOnly = TRUE /\ Fetches(Root).object = Root
    BY DEF Opens, Fetches
  <2> QED
    BY <2>1, <2>2, StepsOfCalls
<1> QED
  BY <1>1, ShortSequences DEF Constructor

(* What Create sets.                                                       *)
SetsRoot(step) == step.do = "set" /\ step.object = Root /\ step.attr \in ValueAttr

LEMMA SettersInOrder ==
  ASSUME NEW o \in [ValueAttr -> Value]
  PROVE  LET attrs == SetToSeq(ValueAttr)
             sets == [i \in DOMAIN attrs |-> Sets(Root, attrs[i], o[attrs[i]])]
         IN  /\ sets \in Seq(Step) /\ Len(sets) = Len(attrs)
             /\ \A i \in 1 .. Len(attrs) : SetsRoot(sets[i])
<1> DEFINE attrs == SetToSeq(ValueAttr)
           sets == [i \in DOMAIN attrs |-> Sets(Root, attrs[i], o[attrs[i]])]
<1>1. attrs \in Seq(ValueAttr) /\ Len(attrs) \in Nat /\ DOMAIN attrs = 1 .. Len(attrs)
  BY AttributesInOrder
<1> HIDE DEF attrs
<1>2. ASSUME NEW i \in 1 .. Len(attrs)
      PROVE  sets[i] \in Step /\ SetsRoot(sets[i])
  <2>1. attrs[i] \in ValueAttr /\ o[attrs[i]] \in Value /\ Root \in Uuid
    BY <1>1, ConstantsAssumption
  <2>2. attrs[i] \in Attr /\ o[attrs[i]] \in Contents
    BY <2>1 DEF Attr, Contents
  <2>3. sets[i] = Sets(Root, attrs[i], o[attrs[i]])
    BY <1>1
  <2>4. SetsRoot(sets[i])
    BY <2>1, <2>3 DEF SetsRoot, Sets
  <2> QED
    BY <2>1, <2>2, <2>3, <2>4, StepsOfCalls
<1>3. sets \in [1 .. Len(attrs) -> Step]
  BY <1>1, <1>2
<1> HIDE DEF sets
<1>4. sets \in Seq(Step) /\ Len(sets) = Len(attrs)
  BY <1>1, <1>3
<1> QED
  BY <1>2, <1>4 DEF sets, attrs

LEMMA CreationSteps ==
  ASSUME NEW o \in [ValueAttr -> Value]
  PROVE  /\ Creation(o) \in Seq(Step) /\ Len(Creation(o)) \in Nat \ {0, 1}
         /\ Creation(o)[1].do = "begin"
         /\ Creation(o)[Len(Creation(o))].do = "commit"
         /\ \A i \in 2 .. Len(Creation(o)) - 1 : SetsRoot(Creation(o)[i])
<1> DEFINE attrs == SetToSeq(ValueAttr)
           sets == [i \in DOMAIN attrs |-> Sets(Root, attrs[i], o[attrs[i]])]
           n == Len(attrs)
<1>1. /\ sets \in Seq(Step) /\ Len(sets) = n
      /\ \A i \in 1 .. n : SetsRoot(sets[i])
  BY SettersInOrder
<1>2. n \in Nat
  BY AttributesInOrder
<1>3. Creation(o) = (<<Opens(FALSE)>> \o sets) \o <<Commits>>
  BY DEF Creation
<1> HIDE DEF sets, attrs
<1>4. /\ Opens(FALSE) \in Step /\ Opens(FALSE).do = "begin"
      /\ Commits \in Step /\ Commits.do = "commit"
  BY StepsOfCalls
<1> DEFINE begun == <<Opens(FALSE)>> \o sets
<1>5. /\ begun \in Seq(Step) /\ Len(begun) = n + 1
      /\ begun[1] = Opens(FALSE)
      /\ \A i \in 2 .. n + 1 : begun[i] = sets[i - 1]
  <2>1. /\ <<Opens(FALSE)>> \in Seq(Step) /\ Len(<<Opens(FALSE)>>) = 1
        /\ <<Opens(FALSE)>>[1] = Opens(FALSE)
    BY <1>4, OneElement
  <2> DEFINE first == <<Opens(FALSE)>>
             opens == Opens(FALSE)
  <2>2. /\ first \in Seq(Step) /\ Len(first) = 1 /\ first[1] = opens
        /\ begun = first \o sets
    BY <2>1
  <2> HIDE DEF first, opens, begun, sets, n
  <2>3. /\ begun \in Seq(Step) /\ Len(begun) = Len(first) + Len(sets)
        /\ \A i \in 1 .. Len(first) : begun[i] = first[i]
        /\ \A i \in Len(first) + 1 .. Len(first) + Len(sets) :
             begun[i] = sets[i - Len(first)]
    BY <1>1, <2>2, Joined
  <2>4. begun[1] = opens
    BY <2>2, <2>3
  <2>5. Len(begun) = n + 1
    BY <1>1, <1>2, <2>2, <2>3
  <2>6. \A i \in 2 .. n + 1 : begun[i] = sets[i - 1]
    BY <1>1, <1>2, <2>2, <2>3
  <2> QED
    BY <2>3, <2>4, <2>5, <2>6 DEF opens
<1> HIDE DEF begun
<1>6. Creation(o) = begun \o <<Commits>>
  BY <1>3 DEF begun
<1>7. /\ Creation(o) \in Seq(Step) /\ Len(Creation(o)) = n + 2
      /\ \A i \in 1 .. n + 1 : Creation(o)[i] = begun[i]
      /\ Creation(o)[n + 2] = Commits
  <2>1. <<Commits>> \in Seq(Step) /\ Len(<<Commits>>) = 1 /\ <<Commits>>[1] = Commits
    BY <1>4
  <2> QED
    BY <1>2, <1>5, <1>6, <2>1, Joined
<1>8. ASSUME NEW i \in 2 .. n + 1
      PROVE  SetsRoot(Creation(o)[i])
  <2>1. i - 1 \in 1 .. n /\ i \in 1 .. n + 1
    BY <1>2
  <2> QED
    BY <1>1, <1>5, <1>7, <2>1
<1>9. /\ Creation(o)[1].do = "begin" /\ Creation(o)[n + 2].do = "commit"
      /\ n + 2 \in Nat \ {0, 1} /\ (n + 2) - 1 = n + 1
  <2>1. n + 2 \in Nat \ {0, 1} /\ (n + 2) - 1 = n + 1 /\ 1 \in 1 .. n + 1
    BY <1>2
  <2>2. Creation(o)[1] = Opens(FALSE)
    BY <1>5, <1>7, <2>1
  <2> QED
    BY <1>4, <1>7, <2>1, <2>2
<1> QED
  BY <1>7, <1>8, <1>9

(* The call in progress when the constructor has begun is a plan.          *)
LEMMA FirstPlan ==
  ASSUME TypeOK, opened = 0, transactionList = << >>, call \in Seq(Step),
         NEW d \in [1 .. Len(call) + 1 -> 0 .. 1], d[1] = 0, d[Len(call) + 1] = 0,
         Len(call) > 0, call[1].do = "begin",
         \A i \in 1 .. Len(call) :
           /\ call[i].do \notin {"create", "release", "close"}
           /\ d[i + 1] = d[i] + Effect(call[i])
           /\ call[i].do = "set" => d[i] = 1
  PROVE  Plan(call)
<1>1. Depth = 0
  BY DEF Depth
<1>2. ClientMayWrite /\ OpensAndEnds(call, d)
  BY <1>1 DEF ClientMayWrite, OpensAndEnds
<1>3. Allowed(call[1])
  BY DEF Allowed
<1>4. Prepared(call)
  BY DEF Prepared
<1> QED
  BY <1>2, <1>3, <1>4 DEF Plan

LEMMA InitPlan ==
  ASSUME MetaInit, TypeOK
  PROVE  call \in Seq(Step) /\ Plan(call)
<1>1. opened = 0 /\ transactionList = << >>
  BY DEF MetaInit, Init
<1>2. CASE call = Constructor
  <2> DEFINE d == [i \in 1 .. 4 |-> IF i = 1 \/ i = 4 THEN 0 ELSE 1]
  <2>1. call \in Seq(Step) /\ Len(call) = 3
    BY <1>2, ConstructorSteps
  <2>2. d \in [1 .. Len(call) + 1 -> 0 .. 1] /\ d[1] = 0 /\ d[Len(call) + 1] = 0
    BY <2>1
  <2>3. ASSUME NEW i \in 1 .. Len(call)
        PROVE  /\ call[i].do \notin {"create", "release", "close"}
               /\ d[i + 1] = d[i] + Effect(call[i])
               /\ call[i].do = "set" => d[i] = 1
    <3>1. i = 1 \/ i = 2 \/ i = 3
      BY <2>1
    <3> QED
      BY <1>2, <3>1, ConstructorSteps DEF Effect
  <2>4. call[1].do = "begin"
    BY <1>2, ConstructorSteps
  <2> HIDE DEF d
  <2> QED
    BY <1>1, <2>1, <2>2, <2>3, <2>4, FirstPlan
<1>3. CASE \E o \in [ValueAttr -> Value] : call = Constructor \o Creation(o)
  <2>1. PICK o \in [ValueAttr -> Value] : call = Constructor \o Creation(o)
    BY <1>3
  <2> DEFINE made == Creation(o)
             m == Len(made)
             d == [i \in 1 .. m + 4 |-> IF i = 1 \/ i = 4 \/ i = m + 4 THEN 0 ELSE 1]
  <2>2. /\ made \in Seq(Step) /\ m \in Nat \ {0, 1}
        /\ made[1].do = "begin" /\ made[m].do = "commit"
        /\ \A i \in 2 .. m - 1 : SetsRoot(made[i])
    BY CreationSteps
  <2> HIDE DEF made
  <2>3. /\ call \in Seq(Step) /\ Len(call) = m + 3
        /\ \A i \in 1 .. 3 : call[i] = Constructor[i]
        /\ \A i \in 4 .. m + 3 : call[i] = made[i - 3]
    <3>1. call = Constructor \o made
      BY <2>1 DEF made
    <3>2. /\ call \in Seq(Step) /\ Len(call) = Len(Constructor) + m
          /\ \A i \in 1 .. Len(Constructor) : call[i] = Constructor[i]
          /\ \A i \in Len(Constructor) + 1 .. Len(Constructor) + m :
               call[i] = made[i - Len(Constructor)]
      <4>1. Constructor \in Seq(Step)
        BY ConstructorSteps
      <4>2. /\ Constructor \o made \in Seq(Step)
            /\ Len(Constructor \o made) = Len(Constructor) + m
            /\ \A i \in 1 .. Len(Constructor) : (Constructor \o made)[i] = Constructor[i]
            /\ \A i \in Len(Constructor) + 1 .. Len(Constructor) + m :
                 (Constructor \o made)[i] = made[i - Len(Constructor)]
        BY <2>2, <4>1, Joined
      <4> QED
        BY <3>1, <4>2
    <3> QED
      BY <2>2, <3>2, ConstructorSteps
  <2>4. d \in [1 .. Len(call) + 1 -> 0 .. 1] /\ d[1] = 0 /\ d[Len(call) + 1] = 0
    BY <2>2, <2>3
  <2>5. ASSUME NEW i \in 1 .. Len(call)
        PROVE  /\ call[i].do \notin {"create", "release", "close"}
               /\ d[i + 1] = d[i] + Effect(call[i])
               /\ call[i].do = "set" => d[i] = 1
    <3>1. CASE i \in 1 .. 3
      <4>1. i = 1 \/ i = 2 \/ i = 3
        BY <3>1
      <4>2. call[i] = Constructor[i]
        BY <2>3, <3>1
      <4> QED
        BY <2>2, <4>1, <4>2, ConstructorSteps DEF Effect
    <3>2. CASE i = 4
      <4>1. call[i].do = "begin"
        BY <2>2, <2>3, <3>2
      <4>2. d[i] = 0 /\ d[i + 1] = 1
        BY <2>2, <3>2
      <4> QED
        BY <4>1, <4>2 DEF Effect
    <3>3. CASE i \in 5 .. m + 2
      <4>1. i - 3 \in 2 .. m - 1 /\ call[i] = made[i - 3]
        BY <2>2, <2>3, <3>3
      <4>2. call[i].do = "set"
        BY <2>2, <4>1 DEF SetsRoot
      <4>3. d[i] = 1 /\ d[i + 1] = 1
        BY <2>2, <3>3
      <4> QED
        BY <4>2, <4>3 DEF Effect
    <3>4. CASE i = m + 3
      <4>1. call[i].do = "commit"
        BY <2>2, <2>3, <3>4
      <4>2. d[i] = 1 /\ d[i + 1] = 0
        BY <2>2, <3>4
      <4> QED
        BY <4>1, <4>2 DEF Effect
    <3> QED
      BY <2>2, <2>3, <3>1, <3>2, <3>3, <3>4
  <2>6. Len(call) > 0 /\ call[1].do = "begin"
    BY <2>2, <2>3, ConstructorSteps
  <2> HIDE DEF d
  <2> QED
    BY <1>1, <2>3, <2>4, <2>5, <2>6, FirstPlan
<1> QED
  BY <1>2, <1>3 DEF MetaInit

LEMMA MetaInitKeeps == MetaInit => MetaInv
<1> SUFFICES ASSUME MetaInit PROVE MetaInv
  OBVIOUS
<1>1. TInv /\ TypeOK
  BY InitTInv DEF MetaInit, TInv
<1>2. opened \in 0 .. MaxDepth - 1
  BY ConstantsAssumption DEF MetaInit
<1> QED
  BY <1>1, <1>2, InitPlan DEF MetaInv

LEMMA MetaCorrect == MetaSpec => []MetaInv
<1>1. MetaInv /\ [MetaNext]_metaVars => MetaInv'
  BY MetaNextKeeps, MetaStutter
<1> QED
  BY <1>1, MetaInitKeeps, PTL DEF MetaSpec

--------------------------------------------------------------------------------
(* What follows for every sequence of calls.                               *)

(* MetaProject.cpp, MetaBase.cpp: every core call that a call of the       *)
(* metamodel layer has still to make is one on objects and attributes that *)
(* exist, and the layer never opens more transactions than it may.         *)
THEOREM MetaTypeCorrect == MetaSpec => []MetaTypeOK
<1>1. MetaInv => MetaTypeOK
  BY DEF MetaInv, TInv, MetaTypeOK
<1> QED
  BY <1>1, MetaCorrect, PTL

(* MetaBase.cpp:30-104, MetaProject.cpp:104-151: whatever calls are made,  *)
(* in whatever transactions, once they have returned the open transactions *)
(* are those of the client and all of them may write.                      *)
THEOREM BalancedCalls == MetaSpec => []Balanced
<1>1. MetaInv => Balanced
  <2> SUFFICES ASSUME MetaInv, Ready
               PROVE  /\ Depth = opened
                      /\ \A i \in DOMAIN transactionList : ~transactionList[i].readOnly
    BY DEF Balanced
  <2>1. Depth = opened /\ ClientMayWrite
    BY ReadyIsLevel
  <2>2. DOMAIN transactionList = 1 .. Depth
    BY ListsOfSameLength DEF MetaInv, TInv
  <2> QED
    BY <2>1, <2>2 DEF ClientMayWrite
<1> QED
  BY <1>1, MetaCorrect, PTL

(* MetaProject.cpp, MetaBase.cpp: the metamodel layer is a client of       *)
(* CoreProject: each of its steps is a core call made in a state where it  *)
(* may be made, nothing, or a failed assertion on an object that cannot be *)
(* read.  What is proved of every core call thus holds under this layer.   *)
THEOREM ClientOfCore == MetaSpec => Init /\ [][Next \/ Dies("assert")]_vars
<1>1. MetaInit => Init
  BY DEF MetaInit
<1>2. MetaInv /\ [MetaNext]_metaVars => [Next \/ Dies("assert")]_vars
  BY MetaNextKeeps, MetaStutter DEF CoreStep
<1> QED
  BY <1>1, <1>2, MetaCorrect, PTL DEF MetaSpec

(* CoreProject.cpp:248, CoreAttribute.h:133,205, under MetaBase.cpp and    *)
(* MetaProject.cpp: in the middle of every call too, storage holds only    *)
(* what the outermost transaction of the client found or created, and what *)
(* objects keep in memory begins with what storage has.                    *)
THEOREM CallsKeepStorage == MetaSpec => [](StorageWaits /\ LoadedIsStored)
<1> DEFINE DInv == TInv /\ StoreInv /\ FirstIsStored
<1>1. Init => DInv
  BY InitTInv, InitStore DEF Init, FirstIsStored, Held
<1>2. DInv /\ [Next \/ Dies("assert")]_vars => DInv'
  <2> SUFFICES ASSUME DInv, [Next \/ Dies("assert")]_vars
               PROVE  DInv'
    OBVIOUS
  <2>1. CASE [Next]_vars
    BY <2>1, NextTInv, NextStore, NextValues
  <2>2. CASE Dies("assert")
    <3>1. StoreInv'
      BY <2>2, SameListStore DEF TInv, Dies, Held
    <3> QED
      BY <2>2, <3>1, DiesTInv, SameValues DEF Dies
  <2> QED
    BY <2>1, <2>2
<1>3. DInv => StorageWaits /\ LoadedIsStored
  BY StoreInvWaits DEF FirstIsStored, LoadedIsStored
<1> HIDE DEF DInv
<1> QED
  BY <1>1, <1>2, <1>3, ClientOfCore, PTL

--------------------------------------------------------------------------------
(* What calls fetch is there.                                              *)

(* Clients of the metamodel layer have no habits; what it does with core   *)
(* objects is in its calls.                                                *)
Plain == Habits = {}

(* A back-pointer list in memory names objects that no abort takes away,   *)
(* or the object it belongs to.                                            *)
ListsNameOld ==
  \A u \in Held, a \in PointerAttr :
    collections[u][a] # << >> => Last(collections[u][a]) \subseteq {u} \cup DOMAIN base

LEMMA BaseGrows ==
  ASSUME SafeClient, AllInv, [Next]_vars
  PROVE  DOMAIN base \subseteq DOMAIN base'
<1>1. /\ DOMAIN base \subseteq DOMAIN store
      /\ \A i \in DOMAIN transactionList : transactionList[i].deleted = {}
      /\ ~InTransaction => base = store
  BY DEF AllInv, SafeInv, ListsAreSafe, TransactionsAreSafe, StoreInv
<1>2. CASE CommitFinal
  <2>a. Len(transactionList) = 1 /\ transactionList \in Seq(Transaction)
    BY <1>2 DEF CommitFinal, AllInv, TInv, TypeOK
  <2>1. Current = transactionList[1] /\ 1 \in DOMAIN transactionList
    BY <2>a DEF Current, Last
  <2>2. Current.deleted = {}
    BY <1>1, <2>1
  <2>3. DOMAIN store' = DOMAIN store \ Current.deleted /\ base' = store'
    BY <1>2 DEF CommitFinal
  <2> QED
    BY <1>1, <2>2, <2>3
<1>3. CASE BeginTransaction
  BY <1>1, <1>3 DEF BeginTransaction, Begin
<1>4. \/ UNCHANGED base \/ CommitFinal \/ BeginTransaction
  BY DEF Next, vars, CommitNested, CommitDies, AbortTransaction, AbortDies, Object, Fetch,
         CreateObject, Create, DeleteObject, Release, GiveUp, GetAttributeValue, Get,
         GetCollectionValue, GetCollection, SetAttributeValue, Set, Pushed,
         SetCollectionValue, Close, Destroy, Dies
<1> QED
  BY <1>2, <1>3, <1>4

LEMMA StoredAreOld ==
  ASSUME AllInv, NEW u \in Uuid, NEW a \in PointerAttr
  PROVE  StoredCollection(u, a) \subseteq DOMAIN base
<1> SUFFICES ASSUME NEW s \in DOMAIN store, store[s][a] = u
             PROVE  s \in DOMAIN base
  BY DEF StoredCollection
<1>1. Blank[a] = Null
  BY DEF Blank, Attr
<1>2. u # Null
  BY ConstantsAssumption
<1> QED
  BY <1>1, <1>2 DEF AllInv, StoreInv, StoreWaits

LEMMA LoadedAreOld ==
  ASSUME AllInv, ListsNameOld, NEW u \in Held, NEW a \in PointerAttr
  PROVE  LoadedCollection(u, a) \subseteq {u} \cup DOMAIN base
<1>1. u \in Uuid
  BY DEF AllInv, TInv, TypeOK, Held
<1> QED
  BY <1>1, StoredAreOld DEF LoadedCollection, ListsNameOld

LEMMA NewListsNameOld ==
  ASSUME AllInv, TypeOK', ListsNameOld,
         NEW u, collections' = With(collections, u, NoCollections),
         DOMAIN base \subseteq DOMAIN base'
  PROVE  ListsNameOld'
<1>1. DOMAIN collections = Held /\ DOMAIN collections' = Held'
  BY DEF AllInv, TInv, TypeOK, Held
<1> SUFFICES ASSUME NEW t \in Held', NEW a \in PointerAttr, collections'[t][a] # << >>
             PROVE  Last(collections'[t][a]) \subseteq {t} \cup DOMAIN base'
  BY DEF ListsNameOld
<1>2. t # u
  BY DEF With, NoCollections
<1>3. t \in Held /\ collections'[t] = collections[t]
  BY <1>1, <1>2 DEF With
<1> QED
  BY <1>3 DEF ListsNameOld

LEMMA SetListsNameOld ==
  ASSUME Plain, AllInv, TypeOK', ListsNameOld, SetAttributeValue
  PROVE  ListsNameOld'
<1>1. PICK u \in Held, a \in Attr, new \in Contents : Pushed(u, a, new)
  BY SafeSet DEF Plain, SafeClient, AllInv, SafeInv
<1>2. Held' = Held /\ UNCHANGED base
  BY <1>1 DEF Pushed, Held, AllInv, TInv, TypeOK
<1>3. CASE a \notin PointerAttr
  BY <1>1, <1>2, <1>3 DEF Pushed, ListsNameOld
<1>4. CASE a \in PointerAttr
  <2> DEFINE old == Last(Loaded(u, a))
  <2>1. collections' = Resolved(a, new, old)
    BY <1>1, <1>4 DEF Pushed
  <2> HIDE DEF old
  <2> SUFFICES ASSUME NEW t \in Held, NEW b \in PointerAttr, collections'[t][b] # << >>
               PROVE  Last(collections'[t][b]) \subseteq {t} \cup DOMAIN base
    BY <1>2 DEF ListsNameOld
  <2>2. collections'[t] =
          [collections[t] EXCEPT
             ![a] = IF t = new THEN <<LoadedCollection(t, a) \cup {new}>>
                    ELSE IF t = old THEN <<LoadedCollection(t, a) \ {old}>> ELSE @]
    BY <2>1 DEF Resolved
  <2>3. DOMAIN collections[t] = PointerAttr
    BY DEF AllInv, TInv, TypeOK, Held
  <2>4. \/ collections'[t][b] = collections[t][b]
        \/ t = new /\ collections'[t][b] = <<LoadedCollection(t, b) \cup {t}>>
        \/ collections'[t][b] = <<LoadedCollection(t, b) \ {old}>>
    BY <2>2, <2>3
  <2>5. LoadedCollection(t, b) \subseteq {t} \cup DOMAIN base
    BY LoadedAreOld
  <2> QED
    BY <2>4, <2>5 DEF ListsNameOld, Last
<1> QED
  BY <1>3, <1>4

LEMMA NextListsNameOld ==
  ASSUME Plain, AllInv, ListsNameOld, [Next]_vars
  PROVE  ListsNameOld'
<1>1. DOMAIN base \subseteq DOMAIN base'
  BY BaseGrows DEF Plain, SafeClient
<1>2. TypeOK'
  BY NextTInv DEF AllInv, TInv
<1>3. DOMAIN collections = Held /\ DOMAIN collections' = Held'
  BY <1>2 DEF AllInv, TInv, TypeOK, Held
<1>4. CASE UNCHANGED collections
  BY <1>1, <1>3, <1>4 DEF ListsNameOld
<1>5. CASE \E u : collections' = With(collections, u, NoCollections)
  BY <1>1, <1>2, <1>5, NewListsNameOld
<1>6. CASE Release
  <2>1. PICK u \in Held : collections' = Restrict(collections, Held \ {u})
    BY <1>6 DEF Release, GiveUp
  <2> QED
    BY <1>1, <1>3, <2>1 DEF Restrict, ListsNameOld
<1>7. CASE GetCollectionValue
  <2>1. PICK u \in Uuid, a \in PointerAttr : GetCollection(u, a)
    BY <1>7 DEF GetCollectionValue
  <2>2. \/ UNCHANGED collections
        \/ collections' = [collections EXCEPT ![u][a] = <<StoredCollection(u, a)>>]
    BY <2>1 DEF GetCollection, Dies
  <2>3. StoredCollection(u, a) \subseteq DOMAIN base
    BY StoredAreOld
  <2>4. \A t \in Held : DOMAIN collections[t] = PointerAttr
    BY DEF AllInv, TInv, TypeOK, Held
  <2>5. Held' = Held
    BY <2>1 DEF GetCollection, Dies, Held
  <2> SUFFICES ASSUME NEW t \in Held, NEW b \in PointerAttr, collections'[t][b] # << >>
               PROVE  Last(collections'[t][b]) \subseteq {t} \cup DOMAIN base'
    BY <2>5 DEF ListsNameOld
  <2>6. \/ collections'[t][b] = collections[t][b]
        \/ collections'[t][b] = <<StoredCollection(u, a)>>
    BY <1>3, <2>2, <2>4
  <2> QED
    BY <1>1, <2>3, <2>6 DEF ListsNameOld, Last
<1>8. CASE SetAttributeValue
  BY <1>2, <1>8, SetListsNameOld
<1>9. \/ UNCHANGED collections
      \/ \E u : collections' = With(collections, u, NoCollections)
      \/ Release \/ GetCollectionValue \/ SetAttributeValue
  BY DEF Next, vars, Plain, BeginTransaction, Begin, CommitNested, CommitFinal, CommitDies,
         AbortTransaction, AbortDies, Object, Fetch, CreateObject, Create, DeleteObject,
         GetAttributeValue, Get, SetCollectionValue, Close, Destroy, Dies
<1> QED
  BY <1>4, <1>5, <1>6, <1>7, <1>8, <1>9

(* What the call in progress has still to fetch by a pointer or from a     *)
(* list is there, or will be when its turn comes.                          *)
FollowsWhatIsLoaded(steps, i) ==
  steps[i].do = "follow" =>
    /\ steps[i].object \in Held \cap DOMAIN store
    /\ \/ i = 1 /\ objectHash[steps[1].object][steps[1].attr] # << >>
       \/ /\ i = 2 /\ InWriteTransaction
          /\ steps[1] = Gets(steps[2].object, steps[2].attr)
       \/ /\ i = 3 /\ steps[1] = Opens(FALSE)
          /\ steps[2] = Gets(steps[3].object, steps[3].attr)

GathersWhatIsLoaded(steps, i) ==
  steps[i].do = "gather" =>
    /\ steps[i].object \in Held
    /\ \/ i = 1 /\ collections[steps[1].object][steps[1].attr] # << >>
       \/ i = 2 /\ steps[1] = Collects(steps[2].object, steps[2].attr)

CollectsWhatMayBeRead(steps, i) ==
  steps[i].do = "collect" => i = 1 /\ InWriteTransaction

Fetchable(steps) ==
  \A i \in 1 .. Len(steps) :
    /\ FollowsWhatIsLoaded(steps, i)
    /\ GathersWhatIsLoaded(steps, i)
    /\ CollectsWhatMayBeRead(steps, i)

MetaSafe ==
  /\ MetaInv
  /\ AllInv
  /\ ListsNameOld
  /\ Root \in DOMAIN base
  /\ Alive => Fetchable(call)

(* A client that guessed a uuid is about to find out.                      *)
Unknown(step) == step.do = "fetch" /\ step.object \notin DOMAIN store \cup {Root}

LEMMA FirstLeads ==
  ASSUME AllInv, Root \in DOMAIN base,
         NEW steps \in Seq(Step), steps # << >>, Fetchable(steps)
  PROVE  Leads(steps[1]) \/ Unknown(steps[1])
<1> DEFINE u == steps[1].object
           a == steps[1].attr
<1>1. 1 \in 1 .. Len(steps) /\ steps[1] \in Step
  BY TailOfSteps
<1>2. FollowsWhatIsLoaded(steps, 1) /\ CollectsWhatMayBeRead(steps, 1)
  BY <1>1 DEF Fetchable
<1>3. \/ Unknown(steps[1])
      \/ /\ steps[1].do = "fetch" => IsThere(u)
         /\ steps[1].do = "collect" => InWriteTransaction
  BY <1>2 DEF Unknown, IsThere, CollectsWhatMayBeRead, AllInv, SafeInv, ListsAreSafe
<1>4. CASE steps[1].do = "follow"
  <2>1. u \in Held /\ u \in DOMAIN store /\ objectHash[u][a] # << >>
    BY <1>2, <1>4 DEF FollowsWhatIsLoaded
  <2>2. a \in PointerAttr /\ a \in Attr
    BY <1>1, <1>4, StepFields DEF Attr
  <2>3. Last(objectHash[u][a]) = Visible[u][a] /\ u \in DOMAIN Visible
        /\ DOMAIN Visible = DOMAIN store
    BY <2>1, <2>2, LastIsVisible DEF Loaded, AllInv
  <2>4. Visible[u][a] \in DOMAIN Visible \cup {Null}
    BY <2>2, <2>3, VisibleResolves DEF AllInv, SafeInv, TInv
  <2> QED
    BY <1>3, <2>3, <2>4 DEF Leads, IsThere
<1> QED
  BY <1>3, <1>4 DEF Leads

(* No step of a call takes an object away.                                 *)
LEMMA StoreGrows ==
  ASSUME AllInv, NEW step \in Step, Does(step)
  PROVE  DOMAIN store \subseteq DOMAIN store'
<1>1. CASE CommitFinal
  <2>1. Len(transactionList) = 1 /\ transactionList \in Seq(Transaction)
    BY <1>1 DEF CommitFinal, AllInv, TInv, TypeOK
  <2>2. Current = transactionList[1] /\ 1 \in DOMAIN transactionList
    BY <2>1 DEF Current, Last
  <2>3. Current.deleted = {}
    BY <2>2 DEF AllInv, SafeInv, ListsAreSafe, TransactionsAreSafe
  <2>4. DOMAIN store' = DOMAIN store \ Current.deleted
    BY <1>1 DEF CommitFinal
  <2> QED
    BY <2>3, <2>4
<1>2. CASE \E u : Create(u)
  BY <1>2 DEF Create, With
<1>3. \/ UNCHANGED store
      \/ CommitFinal
      \/ \E u : Create(u)
  BY DEF Does, Performs, Begin, Ends, CommitNested, CommitDies, SetOrKeep, Set, Pushed,
         GetOrKeep, Get, FetchOrKeep, Fetch, GetCollectionOrKeep, GetCollection, GiveUp,
         Destroy, Dies, vars
<1> QED
  BY <1>1, <1>2, <1>3

LEMMA GetLoads ==
  ASSUME AllInv, InWriteTransaction,
         NEW u \in Held, NEW a \in Attr, Does(Gets(u, a)), Alive'
  PROVE  Held' = Held /\ store' = store /\ objectHash'[u][a] # << >>
<1>1. Gets(u, a).do = "get" /\ Gets(u, a).object = u /\ Gets(u, a).attr = a
  BY DEF Gets
<1>2. GetOrKeep(u, a)
  BY <1>1 DEF Does, Performs
<1>3. CASE objectHash[u][a] # << >>
  BY <1>2, <1>3 DEF GetOrKeep, vars, Held
<1>4. CASE objectHash[u][a] = << >>
  <2>1. Get(u, a)
    BY <1>2, <1>4 DEF GetOrKeep
  <2>2. /\ objectHash' = [objectHash EXCEPT ![u][a] = Loaded(u, a)]
        /\ UNCHANGED store
    BY <2>1 DEF Get, Dies, Alive
  <2>3. Loaded(u, a) = <<store[u][a]>> /\ Loaded(u, a) # << >>
    BY <1>4 DEF Loaded
  <2>4. DOMAIN objectHash[u] = Attr
    BY DEF AllInv, TInv, TypeOK, Held
  <2>5. objectHash'[u][a] = Loaded(u, a)
    BY <2>2, <2>4 DEF Held
  <2> QED
    BY <2>2, <2>3, <2>5 DEF Held
<1> QED
  BY <1>3, <1>4

LEMMA CollectLoads ==
  ASSUME AllInv, NEW u \in Held, NEW a \in PointerAttr, Does(Collects(u, a)), Alive'
  PROVE  Held' = Held /\ collections'[u][a] # << >>
<1>1. Collects(u, a).do = "collect" /\ Collects(u, a).object = u /\ Collects(u, a).attr = a
  BY DEF Collects
<1>2. GetCollectionOrKeep(u, a)
  BY <1>1 DEF Does, Performs
<1>w. InWriteTransaction
  BY <1>2 DEF GetCollectionOrKeep, Dies, Alive
<1>3. CASE collections[u][a] # << >>
  BY <1>2, <1>3, <1>w DEF GetCollectionOrKeep, vars, Held
<1>4. CASE collections[u][a] = << >>
  <2>1. GetCollection(u, a)
    BY <1>2, <1>4, <1>w DEF GetCollectionOrKeep
  <2>2. /\ collections' = [collections EXCEPT ![u][a] = <<StoredCollection(u, a)>>]
        /\ UNCHANGED objectHash
    BY <2>1 DEF GetCollection, Dies, Alive
  <2>3. u \in DOMAIN collections /\ DOMAIN collections[u] = PointerAttr
    BY DEF AllInv, TInv, TypeOK, Held
  <2>4. collections'[u][a] = <<StoredCollection(u, a)>>
    BY <2>2, <2>3
  <2> QED
    BY <2>2, <2>4 DEF Held
<1> QED
  BY <1>3, <1>4

LEMMA BeginWrites ==
  ASSUME TypeOK, Begin(FALSE)
  PROVE  InWriteTransaction'
<1>1. Depth \in Nat /\ Depth' = Depth + 1 /\ transactionList'[Depth'].readOnly = FALSE
  BY OpenLevels
<1>2. Len(transactionList') # 0
  BY <1>1 DEF Depth
<1>3. transactionList' # << >>
  BY <1>2
<1> QED
  BY <1>1, <1>3 DEF InWriteTransaction, InTransaction, Current, Last, Depth

LEMMA FetchableGoesOn ==
  ASSUME AllInv, NEW steps \in Seq(Step), steps # << >>, Fetchable(steps),
         Does(steps[1]), call' = Tail(steps), Alive'
  PROVE  Fetchable(call)'
<1>1. /\ steps[1] \in Step
      /\ Len(steps) \in Nat \ {0} /\ Len(call') = Len(steps) - 1
      /\ \A i \in 1 .. Len(steps) - 1 : call'[i] = steps[i + 1]
  BY TailOfSteps
<1> SUFFICES ASSUME NEW i \in 1 .. Len(steps) - 1
             PROVE  /\ FollowsWhatIsLoaded(call, i)'
                    /\ GathersWhatIsLoaded(call, i)'
                    /\ CollectsWhatMayBeRead(call, i)'
  BY <1>1 DEF Fetchable
<1>2. /\ i + 1 \in 1 .. Len(steps) /\ call'[i] = steps[i + 1]
      /\ steps[i + 1] \in Step
  BY <1>1
<1>3. /\ FollowsWhatIsLoaded(steps, i + 1)
      /\ GathersWhatIsLoaded(steps, i + 1)
      /\ CollectsWhatMayBeRead(steps, i + 1)
  BY <1>2 DEF Fetchable
<1> DEFINE u == steps[i + 1].object
           a == steps[i + 1].attr
<1>4. CollectsWhatMayBeRead(call, i)'
  <2>1. i + 1 # 1
    BY <1>1
  <2> QED
    BY <1>2, <1>3, <2>1 DEF CollectsWhatMayBeRead
<1>5. FollowsWhatIsLoaded(call, i)'
  <2> SUFFICES ASSUME steps[i + 1].do = "follow"
               PROVE  FollowsWhatIsLoaded(call, i)'
    BY <1>2 DEF FollowsWhatIsLoaded
  <2>1. /\ u \in Held /\ u \in DOMAIN store /\ a \in Attr
        /\ \/ i = 1 /\ InWriteTransaction /\ steps[1] = Gets(u, a)
           \/ i = 2 /\ steps[1] = Opens(FALSE) /\ steps[2] = Gets(u, a)
    <3>1. i + 1 # 1 /\ (i + 1 = 2 => i = 1) /\ (i + 1 = 3 => i = 2)
      BY <1>1
    <3>2. a \in Attr
      BY <1>2, StepFields DEF Attr
    <3> QED
      BY <1>3, <3>1, <3>2 DEF FollowsWhatIsLoaded
  <2>2. CASE i = 1 /\ InWriteTransaction /\ steps[1] = Gets(u, a)
    <3>1. Held' = Held /\ store' = store /\ objectHash'[u][a] # << >>
      BY <2>1, <2>2, GetLoads
    <3> QED
      BY <1>2, <2>1, <2>2, <3>1 DEF FollowsWhatIsLoaded
  <2>3. CASE i = 2 /\ steps[1] = Opens(FALSE) /\ steps[2] = Gets(u, a)
    <3>1. Begin(FALSE)
      <4>1. steps[1].do = "begin" /\ steps[1].readOnly = FALSE
        BY <2>3 DEF Opens
      <4> QED
        BY <4>1 DEF Does, Performs
    <3>2. UNCHANGED <<store, objectHash>>
      BY <3>1 DEF Begin
    <3>3. InWriteTransaction'
      BY <3>1, BeginWrites DEF AllInv, TInv
    <3>4. call'[1] = steps[2]
      BY <1>1, <2>3
    <3> QED
      BY <1>2, <2>1, <2>3, <3>2, <3>3, <3>4 DEF FollowsWhatIsLoaded, Held
  <2> QED
    BY <2>1, <2>2, <2>3
<1>6. GathersWhatIsLoaded(call, i)'
  <2> SUFFICES ASSUME steps[i + 1].do = "gather"
               PROVE  GathersWhatIsLoaded(call, i)'
    BY <1>2 DEF GathersWhatIsLoaded
  <2>1. u \in Held /\ a \in PointerAttr /\ i = 1 /\ steps[1] = Collects(u, a)
    <3>1. i + 1 # 1 /\ (i + 1 = 2 => i = 1)
      BY <1>1
    <3>2. a \in PointerAttr
      BY <1>2, StepFields
    <3> QED
      BY <1>3, <3>1, <3>2 DEF GathersWhatIsLoaded
  <2>2. Held' = Held /\ collections'[u][a] # << >>
    BY <2>1, CollectLoads
  <2> QED
    BY <1>2, <2>1, <2>2 DEF GathersWhatIsLoaded
<1> QED
  BY <1>4, <1>5, <1>6

(* Fetching one object of a list.                                          *)
LEMMA GatheringLeads ==
  ASSUME MetaSafe, Alive, call # << >>, NEW u \in Missing(Head(call)), FetchOrKeep(u),
         call' = call
  PROVE  /\ [Next]_vars
         /\ Alive' => Fetchable(call)'
<1>1. call \in Seq(Step) /\ Fetchable(call) /\ AllInv /\ TypeOK
  BY DEF MetaSafe, MetaInv, AllInv, TInv
<1> DEFINE o == call[1].object
           a == call[1].attr
<1>2. /\ Head(call) = call[1] /\ call[1] \in Step /\ 1 \in 1 .. Len(call)
  BY <1>1, TailOfSteps
<1>3. /\ call[1].do = "gather"
      /\ u \in Last(collections[o][a]) /\ u \notin Held
  BY <1>2 DEF Missing
<1>4. a \in PointerAttr
  BY <1>2, <1>3, StepFields
<1>5. o \in Held /\ collections[o][a] # << >>
  BY <1>1, <1>2, <1>3 DEF Fetchable, GathersWhatIsLoaded
<1>6. u \in DOMAIN base /\ DOMAIN base \subseteq DOMAIN store
  BY <1>3, <1>4, <1>5 DEF MetaSafe, ListsNameOld, AllInv, SafeInv, ListsAreSafe
<1>7. [Next]_vars
  BY <1>1, <1>6, FetchStep DEF IsThere
<1>8. ASSUME Alive'
      PROVE  Fetchable(call)'
  <2>1. \/ u \in DOMAIN store /\ Fetch(u)
        \/ UNCHANGED vars
    BY <1>6 DEF FetchOrKeep
  <2>2. /\ UNCHANGED <<store, transactionList>>
        /\ Held \subseteq Held'
        /\ \A t \in Held : objectHash'[t] = objectHash[t] /\ collections'[t] = collections[t]
    <3>1. CASE UNCHANGED vars
      BY <3>1 DEF vars, Held
    <3>2. CASE Fetch(u)
      <4>1. DOMAIN collections = Held
        BY <1>1 DEF TypeOK, Held
      <4>2. /\ objectHash' = With(objectHash, u, NotLoaded)
            /\ collections' = With(collections, u, NoCollections)
            /\ UNCHANGED <<store, transactionList>>
        BY <1>6, <3>2 DEF Fetch
      <4> QED
        BY <1>3, <4>1, <4>2 DEF With, Held
    <3> QED
      BY <2>1, <3>1, <3>2
  <2> SUFFICES ASSUME NEW i \in 1 .. Len(call)
               PROVE  /\ FollowsWhatIsLoaded(call, i)'
                      /\ GathersWhatIsLoaded(call, i)'
                      /\ CollectsWhatMayBeRead(call, i)'
    BY DEF Fetchable
  <2>3. /\ FollowsWhatIsLoaded(call, i)
        /\ GathersWhatIsLoaded(call, i)
        /\ CollectsWhatMayBeRead(call, i)
    BY <1>1 DEF Fetchable
  <2>4. InWriteTransaction' = InWriteTransaction
    BY <2>2 DEF InWriteTransaction, InTransaction, Current
  <2>5. FollowsWhatIsLoaded(call, i)'
    BY <2>2, <2>3, <2>4 DEF FollowsWhatIsLoaded
  <2>6. GathersWhatIsLoaded(call, i)'
    BY <2>2, <2>3 DEF GathersWhatIsLoaded
  <2>7. CollectsWhatMayBeRead(call, i)'
    BY <2>3, <2>4 DEF CollectsWhatMayBeRead
  <2> QED
    BY <2>5, <2>6, <2>7
<1> QED
  BY <1>7, <1>8

LEMMA SafeCall ==
  ASSUME MetaSafe, NEW steps \in Seq(Step), steps # << >>, Calls(steps),
         Allowed(steps[1]), Fetchable(steps), steps[1].do # "fetch"
  PROVE  /\ [Next]_vars
         /\ Alive' => Fetchable(call)'
<1>1. steps[1] \in Step /\ Head(steps) = steps[1]
  BY TailOfSteps
<1>2. /\ TInv /\ Alive /\ AllInv /\ Root \in DOMAIN base
      /\ Does(steps[1]) /\ call' = Tail(steps)
  BY <1>1 DEF MetaSafe, AllInv, Calls, Ready, Does
<1>3. Leads(steps[1])
  BY <1>2, FirstLeads DEF Unknown
<1> QED
  BY <1>1, <1>2, <1>3, StepEffect, FetchableGoesOn

LEMMA SafeCallStep ==
  ASSUME MetaSafe, CallStep
  PROVE  /\ [Next]_vars \/ (Careless /\ Dies("assert"))
         /\ Alive' => Fetchable(call)'
<1>1. /\ Alive /\ call # << >> /\ call \in Seq(Step)
      /\ Allowed(call[1]) /\ Fetchable(call) /\ AllInv /\ TInv /\ Root \in DOMAIN base
  BY DEF CallStep, MetaSafe, MetaInv, Plan
<1>2. CASE \E u \in Missing(Head(call)) : FetchOrKeep(u) /\ call' = call
  BY <1>1, <1>2, GatheringLeads
<1>3. CASE /\ IF Head(call).do = "gather" THEN UNCHANGED vars ELSE Performs(Head(call))
           /\ call' = Tail(call)
  <2>1. call[1] \in Step /\ Head(call) = call[1]
    BY <1>1, TailOfSteps
  <2>2. Does(call[1])
    BY <1>3, <2>1 DEF Does
  <2>3. Leads(call[1]) \/ Unknown(call[1])
    BY <1>1, FirstLeads
  <2>4. Unknown(call[1]) => Careless
    BY <1>1, <2>1 DEF Unknown, Careless
  <2> QED
    BY <1>1, <1>3, <2>1, <2>2, <2>3, <2>4, StepEffect, FetchableGoesOn
<1> QED
  BY <1>2, <1>3 DEF CallStep

(* Calls that fetch nothing.                                               *)
LEMMA NothingToFetch ==
  ASSUME NEW steps,
         \A i \in 1 .. Len(steps) : steps[i].do \notin {"follow", "collect", "gather"}
  PROVE  Fetchable(steps)
BY DEF Fetchable, FollowsWhatIsLoaded, GathersWhatIsLoaded, CollectsWhatMayBeRead

LEMMA UpToFour ==
  ASSUME NEW n \in {2, 3, 4}, NEW i \in 1 .. n
  PROVE  i = 1 \/ i = 2 \/ (i = 3 /\ n # 2) \/ (i = 4 /\ n = 4)
OBVIOUS

LEMMA SafeSetValue ==
  ASSUME MetaSafe, SetValue
  PROVE  /\ [Next]_vars
         /\ Alive' => Fetchable(call)'
<1>1. PICK u \in Held, a \in ValueAttr, new \in Value :
        Calls(<<Opens(FALSE), Sets(u, a, new), Commits>>)
  BY DEF SetValue, Setter
<1> DEFINE steps == <<Opens(FALSE), Sets(u, a, new), Commits>>
<1>2. u \in Uuid /\ a \in Attr /\ new \in Contents
  BY DEF MetaSafe, MetaInv, TInv, TypeOK, Held, Attr, Contents
<1>3. /\ steps \in Seq(Step) /\ Len(steps) = 3 /\ steps # << >>
      /\ steps[1].do = "begin" /\ steps[2].do = "set" /\ steps[3].do = "commit"
  BY <1>2, StepsOfCalls, ShortSequences
<1>4. Calls(steps)
  BY <1>1
<1> HIDE DEF steps
<1>5. Fetchable(steps)
  BY <1>3, NothingToFetch, UpToFour
<1> QED
  BY <1>3, <1>4, <1>5, SafeCall DEF Allowed

LEMMA SafeGetValue ==
  ASSUME MetaSafe, GetValue
  PROVE  /\ [Next]_vars
         /\ Alive' => Fetchable(call)'
<1>1. PICK u \in Held, a \in ValueAttr : Calls(<<Opens(FALSE), Gets(u, a), Commits>>)
  BY DEF GetValue
<1> DEFINE steps == <<Opens(FALSE), Gets(u, a), Commits>>
<1>2. u \in Uuid /\ a \in Attr
  BY DEF MetaSafe, MetaInv, TInv, TypeOK, Held, Attr
<1>3. /\ steps \in Seq(Step) /\ Len(steps) = 3 /\ steps # << >>
      /\ steps[1].do = "begin" /\ steps[2].do = "get" /\ steps[3].do = "commit"
  BY <1>2, StepsOfCalls, ShortSequences
<1>4. Calls(steps)
  BY <1>1
<1> HIDE DEF steps
<1>5. Fetchable(steps)
  BY <1>3, NothingToFetch, UpToFour
<1> QED
  BY <1>3, <1>4, <1>5, SafeCall DEF Allowed

LEMMA SafeGetOfProject ==
  ASSUME MetaSafe, GetOfProject
  PROVE  /\ [Next]_vars
         /\ Alive' => Fetchable(call)'
<1>1. PICK a \in ValueAttr : Calls(<<Opens(TRUE), Gets(Root, a), Commits>>)
  BY DEF GetOfProject
<1> DEFINE steps == <<Opens(TRUE), Gets(Root, a), Commits>>
<1>2. Root \in Uuid /\ a \in Attr
  BY ConstantsAssumption DEF Attr
<1>3. /\ steps \in Seq(Step) /\ Len(steps) = 3 /\ steps # << >>
      /\ steps[1].do = "begin" /\ steps[2].do = "get" /\ steps[3].do = "commit"
  BY <1>2, StepsOfCalls, ShortSequences
<1>4. Calls(steps)
  BY <1>1
<1> HIDE DEF steps
<1>5. Fetchable(steps)
  BY <1>3, NothingToFetch, UpToFour
<1> QED
  BY <1>3, <1>4, <1>5, SafeCall DEF Allowed

LEMMA SafeFindObject ==
  ASSUME MetaSafe, FindObject
  PROVE  /\ [Next]_vars
         /\ Alive' => Fetchable(call)'
<1>1. PICK u \in Uuid : Calls(<<Opens(TRUE), Fetches(u), Commits>>)
  BY DEF FindObject
<1> DEFINE steps == <<Opens(TRUE), Fetches(u), Commits>>
<1>3. /\ steps \in Seq(Step) /\ Len(steps) = 3 /\ steps # << >>
      /\ steps[1].do = "begin" /\ steps[2].do = "fetch" /\ steps[3].do = "commit"
  BY StepsOfCalls, ShortSequences
<1>4. Calls(steps)
  BY <1>1
<1> HIDE DEF steps
<1>5. Fetchable(steps)
  BY <1>3, NothingToFetch, UpToFour
<1> QED
  BY <1>3, <1>4, <1>5, SafeCall DEF Allowed

LEMMA NewIsUnused ==
  ASSUME usedUuids \subseteq Uuid, usedUuids # Uuid
  PROVE  NextUuid \in Uuid \ usedUuids
<1>1. Uuid \ usedUuids # {}
  OBVIOUS
<1> QED
  BY <1>1 DEF NextUuid

LEMMA SafeCreateChild ==
  ASSUME MetaSafe, CreateChild
  PROVE  /\ [Next]_vars
         /\ Alive' => Fetchable(call)'
<1>1. PICK a \in PointerAttr, parent \in Held :
        usedUuids # Uuid /\ Calls(Creator(NextUuid, a, parent))
  BY DEF CreateChild
<1> DEFINE u == NextUuid
           steps == <<Opens(FALSE), Creates(u), Sets(u, a, parent), Commits>>
<1>2. u \in Uuid /\ a \in Attr /\ parent \in Contents
  BY <1>1, NewIsUnused DEF MetaSafe, MetaInv, TInv, TypeOK, Held, Attr, Contents
<1>4. Calls(steps)
  BY <1>1 DEF Creator
<1> HIDE DEF u
<1>3. /\ steps \in Seq(Step) /\ Len(steps) = 4 /\ steps # << >>
      /\ steps[1].do = "begin" /\ steps[2].do = "create"
      /\ steps[3].do = "set" /\ steps[4].do = "commit"
  BY <1>2, StepsOfCalls, ShortSequences
<1> HIDE DEF steps
<1>5. Fetchable(steps)
  BY <1>3, NothingToFetch, UpToFour
<1> QED
  BY <1>3, <1>4, <1>5, SafeCall DEF Allowed

LEMMA SafeObjectFromAttribute ==
  ASSUME Plain, MetaSafe, ObjectFromAttribute
  PROVE  /\ [Next]_vars
         /\ Alive' => Fetchable(call)'
<1>1. PICK u \in Held, a \in PointerAttr :
        /\ MayUse(u)
        /\ Calls(<<Opens(FALSE), Gets(u, a), Follows(u, a), Commits>>)
  BY DEF ObjectFromAttribute
<1> DEFINE steps == <<Opens(FALSE), Gets(u, a), Follows(u, a), Commits>>
<1>2. u \in Uuid /\ a \in Attr
  BY DEF MetaSafe, MetaInv, TInv, TypeOK, Held, Attr
<1>3. /\ steps \in Seq(Step) /\ Len(steps) = 4 /\ steps # << >>
      /\ steps[1] = Opens(FALSE) /\ steps[1].do = "begin"
      /\ steps[2].do = "get" /\ steps[2] = Gets(u, a)
      /\ steps[3].do = "follow" /\ steps[4].do = "commit"
      /\ steps[3].object = u /\ steps[3].attr = a
  <2>1. Follows(u, a).object = u /\ Follows(u, a).attr = a
    BY DEF Follows
  <2> QED
    BY <1>2, <2>1, StepsOfCalls, ShortSequences
<1>4. Calls(steps)
  BY <1>1
<1> HIDE DEF steps
<1>5. u \in Held \cap DOMAIN store
  BY <1>1 DEF MayUse, MetaSafe, AllInv, Plain
<1>6. Fetchable(steps)
  BY <1>3, <1>5, UpToFour
  DEF Fetchable, FollowsWhatIsLoaded, GathersWhatIsLoaded, CollectsWhatMayBeRead
<1> QED
  BY <1>3, <1>4, <1>6, SafeCall DEF Allowed

LEMMA ReadyMayWrite ==
  ASSUME MetaInv, Ready, InTransaction
  PROVE  InWriteTransaction
<1>1. Depth = opened /\ ClientMayWrite
  BY ReadyIsLevel
<1>2. /\ transactionList \in Seq(Transaction) /\ Len(transactionList) \in Nat \ {0}
      /\ Current = transactionList[Depth] /\ Depth = Len(transactionList)
  BY DEF MetaInv, TInv, TypeOK, InTransaction, Current, Last, Depth
<1> QED
  BY <1>1, <1>2 DEF ClientMayWrite, InWriteTransaction

LEMMA SafeGetConstraints ==
  ASSUME MetaSafe, GetConstraints
  PROVE  /\ [Next]_vars \/ (Careless /\ Dies("assert"))
         /\ Alive' => Fetchable(call)'
<1>1. PICK u \in Held, a \in PointerAttr : Calls(<<Collects(u, a), Gathers(u, a)>>)
  BY DEF GetConstraints
<1> DEFINE steps == <<Collects(u, a), Gathers(u, a)>>
<1>2. u \in Uuid
  BY DEF MetaSafe, MetaInv, TInv, TypeOK, Held
<1>3. /\ steps \in Seq(Step) /\ Len(steps) = 2 /\ steps # << >>
      /\ steps[1].do = "collect" /\ steps[2].do = "gather"
      /\ steps[1] = Collects(u, a) /\ steps[2].object = u /\ steps[2].attr = a
  <2>1. Gathers(u, a).object = u /\ Gathers(u, a).attr = a
    BY DEF Gathers
  <2> QED
    BY <1>2, <2>1, StepsOfCalls, ShortSequences
<1>4. Calls(steps)
  BY <1>1
<1> HIDE DEF steps
<1>5. CASE InWriteTransaction
  <2>1. Fetchable(steps)
    BY <1>3, <1>5, UpToFour
    DEF Fetchable, FollowsWhatIsLoaded, GathersWhatIsLoaded, CollectsWhatMayBeRead
  <2> QED
    BY <1>3, <1>4, <2>1, SafeCall DEF Allowed
<1>6. CASE ~InWriteTransaction
  <2>1. ~InTransaction
    BY <1>1, <1>6, ReadyMayWrite DEF MetaSafe, Calls
  <2>2. Head(steps) = Collects(u, a)
    BY <1>3
  <2>3. GetCollectionOrKeep(u, a)
    <3>1. Collects(u, a).do = "collect" /\ Collects(u, a).object = u /\ Collects(u, a).attr = a
      BY DEF Collects
    <3> QED
      BY <1>4, <2>2, <3>1 DEF Calls, Performs
  <2>4. Dies("assert") /\ ~Alive'
    BY <1>6, <2>3 DEF GetCollectionOrKeep, Dies, Alive
  <2> QED
    BY <2>1, <2>4 DEF Careless
<1> QED
  BY <1>5, <1>6

LEMMA SafeMetaClose ==
  ASSUME MetaSafe, MetaClose
  PROVE  /\ [Next]_vars
         /\ Alive' => Fetchable(call)'
<1>1. opened = 0 /\ Held = {Root} /\ Calls(Destructor) /\ MetaInv
  BY DEF MetaClose, MetaSafe
<1> DEFINE steps == <<GivesUp(Root), Closes>>
<1>2. Root \in Uuid
  BY ConstantsAssumption
<1>3. /\ steps \in Seq(Step) /\ Len(steps) = 2 /\ steps # << >>
      /\ steps[1].do = "release" /\ steps[1].object = Root /\ steps[2].do = "close"
  BY <1>2, StepsOfCalls, ShortSequences
<1>4. Calls(steps) /\ Ready
  BY <1>1 DEF Destructor, Calls
<1> HIDE DEF steps
<1>5. Depth = 0
  BY <1>1, <1>4, ReadyIsLevel
<1>6. Fetchable(steps)
  BY <1>3, NothingToFetch, UpToFour
<1> QED
  BY <1>1, <1>3, <1>4, <1>5, <1>6, SafeCall DEF Allowed

LEMMA BetweenCallsIsCore ==
  ASSUME MetaBegin \/ MetaCommit \/ MetaAbort \/ Delete
  PROVE  [Next]_vars
BY DEF MetaBegin, MetaCommit, MetaAbort, Delete, Ends, Next, BeginTransaction, Release

(* Every step of a client of the metamodel layer is one of a client of     *)
(* CoreProject, or the end of a careless one.                              *)
LEMMA MetaStepIsSafe ==
  ASSUME Plain, MetaSafe, MetaNext
  PROVE  /\ [Next]_vars \/ (Careless /\ Dies("assert"))
         /\ Alive' => Fetchable(call)'
<1>1. CASE MetaBegin \/ MetaCommit \/ MetaAbort \/ Delete
  <2>1. call' = << >>
    BY <1>1 DEF MetaBegin, MetaCommit, MetaAbort, Delete, Ready
  <2>2. [Next]_vars
    BY <1>1, BetweenCallsIsCore
  <2>3. Fetchable(call)'
    <3>1. 1 .. Len(call') = {}
      BY <2>1
    <3> QED
      BY <3>1 DEF Fetchable
  <2> QED
    BY <2>2, <2>3
<1> QED
  BY <1>1, SafeCallStep, SafeSetValue, SafeGetValue, SafeGetOfProject, SafeFindObject,
     SafeCreateChild, SafeObjectFromAttribute, SafeGetConstraints, SafeMetaClose
  DEF MetaNext

LEMMA RootStays ==
  ASSUME Plain, MetaSafe, [Next]_vars
  PROVE  AllInv' /\ ListsNameOld' /\ Root \in DOMAIN base'
BY NextAllInv, NextListsNameOld, BaseGrows DEF MetaSafe, Plain, SafeClient

LEMMA MetaSafeKept ==
  ASSUME Plain, MetaSafe, MetaNext
  PROVE  MetaInv' /\ (Alive' => MetaSafe')
<1>1. MetaInv'
  BY MetaNextKeeps DEF MetaSafe
<1>2. ASSUME Alive'
      PROVE  MetaSafe'
  <2>1. /\ [Next]_vars
        /\ Fetchable(call)'
    BY <1>2, MetaStepIsSafe DEF Dies, Alive
  <2> QED
    BY <1>1, <2>1, RootStays DEF MetaSafe
<1> QED
  BY <1>1, <1>2

(* What is called when a project is opened or created.                     *)
Describes(step) ==
  \/ step.do \in {"begin", "commit"}
  \/ step.do = "fetch" /\ step.object = Root
  \/ SetsRoot(step)

LEMMA InitDescribes ==
  ASSUME MetaInit
  PROVE  \A i \in 1 .. Len(call) : Describes(call[i])
<1>1. \A i \in 1 .. 3 : Describes(Constructor[i])
  <2>1. \A i \in 1 .. 3 : i = 1 \/ i = 2 \/ i = 3
    OBVIOUS
  <2> QED
    BY <2>1, ConstructorSteps DEF Describes
<1>2. CASE call = Constructor
  BY <1>1, <1>2, ConstructorSteps
<1>3. CASE \E o \in [ValueAttr -> Value] : call = Constructor \o Creation(o)
  <2>1. PICK o \in [ValueAttr -> Value] : call = Constructor \o Creation(o)
    BY <1>3
  <2> DEFINE made == Creation(o)
             m == Len(made)
  <2>2. /\ made \in Seq(Step) /\ m \in Nat \ {0, 1}
        /\ made[1].do = "begin" /\ made[m].do = "commit"
        /\ \A i \in 2 .. m - 1 : SetsRoot(made[i])
    BY CreationSteps
  <2>3. call = Constructor \o made
    BY <2>1
  <2> HIDE DEF made
  <2>4. ASSUME NEW i \in 1 .. m
        PROVE  Describes(made[i])
    <3>1. i = 1 \/ i = m \/ i \in 2 .. m - 1
      BY <2>2
    <3>2. CASE i = 1 \/ i = m
      <4>1. made[i].do \in {"begin", "commit"}
        BY <2>2, <3>2
      <4> QED
        BY <4>1 DEF Describes
    <3>3. CASE i \in 2 .. m - 1
      BY <2>2, <3>3 DEF Describes
    <3> QED
      BY <3>1, <3>2, <3>3
  <2>5. Constructor \in Seq(Step) /\ Len(Constructor) = 3
    BY ConstructorSteps
  <2>6. /\ Len(call) = 3 + m
        /\ \A i \in 1 .. 3 : call[i] = Constructor[i]
        /\ \A i \in 4 .. 3 + m : call[i] = made[i - 3]
    <3>1. Constructor \in Seq(Step) /\ made \in Seq(Step)
      BY <2>2, <2>5
    <3>2. /\ Len(call) = Len(Constructor) + Len(made)
          /\ \A i \in 1 .. Len(Constructor) : call[i] = Constructor[i]
          /\ \A i \in Len(Constructor) + 1 .. Len(Constructor) + Len(made) :
               call[i] = made[i - Len(Constructor)]
      BY <2>3, <3>1, Joined, SMTT(30)
    <3> QED
      BY <2>5, <3>2, SMTT(30)
  <2>7. ASSUME NEW i \in 1 .. 3 + m
        PROVE  i \in 1 .. 3 \/ (i \in 4 .. 3 + m /\ i - 3 \in 1 .. m)
    BY <2>2
  <2> QED
    BY <1>1, <2>4, <2>6, <2>7
<1> QED
  BY <1>2, <1>3 DEF MetaInit

LEMMA MetaInitSafe == MetaInit => MetaSafe
<1> SUFFICES ASSUME MetaInit PROVE MetaSafe
  OBVIOUS
<1>1. MetaInv /\ AllInv
  BY MetaInitKeeps, InitAllInv DEF MetaInit
<1>2. Held = {} /\ Root \in DOMAIN base
  BY DEF MetaInit, Init, Held
<1>3. Fetchable(call)
  BY <1>2, InitDescribes
  DEF Describes, SetsRoot, Fetchable, FollowsWhatIsLoaded, GathersWhatIsLoaded,
      CollectsWhatMayBeRead
<1> QED
  BY <1>1, <1>2, <1>3 DEF MetaSafe, ListsNameOld

LEMMA MetaSafeStutter ==
  ASSUME Plain, MetaSafe, UNCHANGED metaVars
  PROVE  MetaSafe'
<1>1. [Next]_vars /\ UNCHANGED <<vars, call, opened>>
  BY DEF metaVars
<1>2. MetaInv'
  BY MetaStutter DEF MetaSafe
<1>3. AllInv' /\ ListsNameOld' /\ Root \in DOMAIN base'
  BY <1>1, RootStays
<1>4. (Alive => Fetchable(call))'
  BY <1>1 DEF MetaSafe, vars, Alive, Fetchable, FollowsWhatIsLoaded, GathersWhatIsLoaded,
              CollectsWhatMayBeRead, Held, InWriteTransaction, InTransaction, Current
<1> QED
  BY <1>2, <1>3, <1>4 DEF MetaSafe

(* As long as the process lives, all is well.                              *)
Stands == MetaInv /\ (Alive => MetaSafe)

LEMMA NothingAfterTheEnd == MetaNext => Alive
BY DEF MetaNext, CallStep, MetaBegin, MetaCommit, MetaAbort, SetValue, GetValue, GetOfProject,
       FindObject, CreateChild, ObjectFromAttribute, GetConstraints, Delete, MetaClose,
       Calls, Ready

LEMMA StandsStill ==
  ASSUME Plain, Stands, [MetaNext]_metaVars
  PROVE  Stands'
<1>1. CASE MetaNext
  BY <1>1, NothingAfterTheEnd, MetaSafeKept DEF Stands
<1>2. CASE UNCHANGED metaVars
  <2>1. Alive' = Alive /\ MetaInv'
    BY <1>2, MetaStutter DEF metaVars, vars, Alive, Stands
  <2> QED
    BY <1>2, <2>1, MetaSafeStutter DEF Stands
<1> QED
  BY <1>1, <1>2

LEMMA MetaSafeCorrect ==
  ASSUME Plain
  PROVE  MetaSpec => []Stands
<1>1. MetaInit => Stands
  BY MetaInitSafe DEF Stands, MetaSafe
<1>2. Stands /\ [MetaNext]_metaVars => Stands'
  BY StandsStill
<1> QED
  BY <1>1, <1>2, PTL DEF MetaSpec

(* MetaBase.cpp, MetaProject.cpp: only the two careless calls fail an      *)
(* assertion, and none uses what is gone, whatever calls are made, in any  *)
(* order and in any transactions of the client: what a pointer or a        *)
(* back-pointer list leads to is there when it is fetched, and commits and *)
(* aborts find what they need.                                             *)
THEOREM OnlyCarelessClientsDie ==
  ASSUME Plain
  PROVE  MetaSpec => OnlyCarelessCallsDie
<1>1. ASSUME Stands, MetaNext, Alive, ~Alive'
      PROVE  fault' = "closed" \/ (fault' = "assert" /\ Careless)
  <2>1. CASE [Next]_vars
    <3>1. AllInv'
      BY <1>1, <2>1, RootStays DEF Stands
    <3> QED
      BY <1>1, <3>1 DEF AllInv, SafeInv, Alive
  <2>2. CASE Careless /\ Dies("assert")
    BY <2>2 DEF Dies
  <2> QED
    BY <1>1, <2>1, <2>2, MetaStepIsSafe DEF Stands
<1>2. Stands /\ [MetaNext]_metaVars
        => [Alive /\ ~Alive' => fault' = "closed" \/ (fault' = "assert" /\ Careless)]_metaVars
  BY <1>1
<1> QED
  BY <1>2, MetaSafeCorrect, PTL DEF MetaSpec, OnlyCarelessCallsDie

--------------------------------------------------------------------------------
(* Every object leads to the root.                                         *)

Rooted(s) == Below(s) = DOMAIN s

SamePointers(s, t) ==
  /\ DOMAIN t = DOMAIN s
  /\ \A u \in DOMAIN s, a \in PointerAttr : t[u][a] = s[u][a]

LEMMA RootedSame ==
  ASSUME NEW s, NEW t, Rooted(s), SamePointers(s, t)
  PROVE  Rooted(t)
<1>1. ASSUME NEW S \in SUBSET Uuid
      PROVE  Closed(s, S) <=> Closed(t, S)
  BY DEF SamePointers, Closed
<1>2. Below(t) = Below(s)
  BY <1>1 DEF Below
<1> QED
  BY <1>2 DEF Rooted, SamePointers

LEMMA RootedChild ==
  ASSUME NEW s, NEW t, Rooted(s), DOMAIN s \subseteq Uuid,
         NEW u \in Uuid \ DOMAIN s, NEW a \in PointerAttr, DOMAIN t = DOMAIN s \cup {u},
         \A x \in DOMAIN s, b \in PointerAttr : t[x][b] = s[x][b],
         t[u][a] \in DOMAIN s
  PROVE  Rooted(t)
<1>1. ASSUME NEW S \in SUBSET Uuid, Closed(t, S)
      PROVE  DOMAIN t \subseteq S
  <2>1. Closed(s, S)
    BY <1>1 DEF Closed
  <2>2. DOMAIN s \subseteq S
    BY <2>1 DEF Rooted, Below
  <2> QED
    BY <1>1, <2>2 DEF Closed
<1>2. DOMAIN t \subseteq Uuid
  OBVIOUS
<1>3. Root \in DOMAIN s
  BY ConstantsAssumption DEF Rooted, Below, Closed
<1>4. Closed(t, DOMAIN t)
  BY <1>3 DEF Closed
<1> QED
  BY <1>1, <1>2, <1>4 DEF Rooted, Below

(* A new object is linked to its parent at once, before its transaction    *)
(* ends, and no other pointer is set.                                      *)
LinksWhatIsMade(steps, i) ==
  /\ steps[i].do = "create" =>
       /\ i \in {1, 2} /\ (i = 2 => steps[1].do = "begin")
       /\ i + 2 <= Len(steps) /\ steps[i + 2].do = "commit"
       /\ steps[i + 1].do = "set" /\ steps[i + 1].object = steps[i].object
       /\ steps[i + 1].attr \in PointerAttr /\ steps[i + 1].value \in DOMAIN store
  /\ steps[i].do = "set" /\ steps[i].attr \in PointerAttr =>
       i = 1 \/ steps[i - 1].do = "create"

Linked(steps) == \A i \in 1 .. Len(steps) : LinksWhatIsMade(steps, i)

LinkPending(steps) ==
  steps # << >> /\ steps[1].do = "set" /\ steps[1].attr \in PointerAttr

(* The object that is going to be linked is new, and has its parent.       *)
HalfMade(steps, t) ==
  /\ Len(steps) >= 2 /\ steps[2].do = "commit"
  /\ steps[1].object \in Held
  /\ \E s : /\ Rooted(s) /\ DOMAIN s \subseteq Uuid
            /\ steps[1].object \in Uuid \ DOMAIN s
            /\ steps[1].value \in DOMAIN s
            /\ t = With(s, steps[1].object, Blank)

TreeWith(steps) ==
  /\ Linked(steps)
  /\ \A i \in 0 .. Depth - 1 : Rooted(StoreAt(i))
  /\ IF LinkPending(steps) THEN HalfMade(steps, Visible) ELSE Rooted(Visible)

(* Steps that change nothing a client could read, or no pointers.          *)
KeepsLevels ==
  /\ Depth' = Depth
  /\ \A i \in 0 .. Depth : StoreAt(i)' = StoreAt(i)

KeepsPointers ==
  /\ Depth' = Depth
  /\ \A i \in 0 .. Depth : SamePointers(StoreAt(i), StoreAt(i)')

LEMMA SameLevelsPointers ==
  ASSUME KeepsLevels
  PROVE  KeepsPointers
BY DEF KeepsLevels, KeepsPointers, SamePointers

LEMMA SameStoreLevels ==
  ASSUME UNCHANGED <<store, objectHash, transactionList>>
  PROVE  KeepsLevels
BY DEF KeepsLevels, StoreAt, ObjectsAt, CreatedDeeper, ValueAt, Deeper, DeeperIn, Counts,
       Held, Depth

LEMMA FetchLevels ==
  ASSUME AllInv, NEW u, FetchOrKeep(u), Alive, Alive'
  PROVE  KeepsLevels
<1>1. CASE UNCHANGED vars
  BY <1>1, SameStoreLevels DEF vars
<1>2. CASE Fetch(u) /\ u \notin Held
  <2>1. u \in DOMAIN store
    BY <1>2 DEF Fetch, Dies, Alive
  <2>2. u \in Uuid
    BY <2>1 DEF AllInv, TInv, TypeOK
  <2>3. Object
    BY <1>2, <2>1, <2>2 DEF Object
  <2> QED
    BY <2>3, ObjectStores DEF AllInv, KeepsLevels
<1> QED
  BY <1>1, <1>2 DEF FetchOrKeep

LEMMA GetLevels ==
  ASSUME AllInv, NEW u \in Uuid, NEW a \in Attr, GetOrKeep(u, a)
  PROVE  KeepsLevels
<1>1. CASE UNCHANGED vars
  BY <1>1, SameStoreLevels DEF vars
<1>2. CASE Get(u, a)
  <2>1. GetAttributeValue
    BY <1>2 DEF GetAttributeValue
  <2> QED
    BY <2>1, GetStores DEF AllInv, KeepsLevels
<1> QED
  BY <1>1, <1>2 DEF GetOrKeep

LEMMA CollectLevels ==
  ASSUME NEW u, NEW a, GetCollectionOrKeep(u, a)
  PROVE  KeepsLevels
<1>1. UNCHANGED <<store, objectHash, transactionList>>
  BY DEF GetCollectionOrKeep, GetCollection, Dies, vars
<1> QED
  BY <1>1, SameStoreLevels

(* What a Set that changes something makes of the levels.                  *)
LEMMA SetLevel ==
  ASSUME Plain, AllInv, NEW u \in Uuid, NEW a \in Attr, NEW new \in Contents,
         Set(u, a, new), Alive'
  PROVE  /\ Depth \in Nat \ {0} /\ Depth' = Depth
         /\ \A i \in 0 .. Depth - 1 : StoreAt(i)' = StoreAt(i)
         /\ Visible' = [Visible EXCEPT ![u] = [@ EXCEPT ![a] = new]]
         /\ u \in DOMAIN store
<1>1. /\ InWriteTransaction /\ new \in Content(a) /\ MaySet(u, a, new)
      /\ Pushed(u, a, new)
  BY DEF Set, Dies, Alive
<1>2. u \in Held /\ u \in DOMAIN store
  BY <1>1 DEF MaySet, MayUse, Plain
<1>3. TypeOK'
  <2>1. [Next]_vars
    BY DEF Next, SetAttributeValue
  <2> QED
    BY <2>1, NextTInv DEF AllInv, TInv
<1>4. /\ Depth \in Nat \ {0} /\ Depth' = Depth
      /\ \A i \in 0 .. Depth - 1 : StoreAt(i)' = StoreAt(i)
      /\ \A n \in Nat : n = Depth =>
           StoreAt(n)' = [Visible EXCEPT ![u] = [@ EXCEPT ![a] = new]]
  BY <1>1, <1>2, <1>3, PushedStores DEF AllInv
<1> QED
  BY <1>2, <1>4 DEF Visible

LEMMA SetValuePointers ==
  ASSUME Plain, AllInv, NEW u \in Uuid, NEW a \in Attr \ PointerAttr, NEW new \in Contents,
         SetOrKeep(u, a, new), Alive'
  PROVE  KeepsPointers
<1>1. CASE Set(u, a, new)
  <2>1. /\ Depth \in Nat \ {0} /\ Depth' = Depth
        /\ \A i \in 0 .. Depth - 1 : StoreAt(i)' = StoreAt(i)
        /\ Visible' = [Visible EXCEPT ![u] = [@ EXCEPT ![a] = new]]
    BY <1>1, SetLevel
  <2>2. \A x \in DOMAIN Visible : DOMAIN Visible[x] = Attr
    BY DEF Visible, StoreAt
  <2>3. SamePointers(Visible, Visible')
    BY <2>1, <2>2 DEF SamePointers
  <2>4. ASSUME NEW i \in 0 .. Depth
        PROVE  SamePointers(StoreAt(i), StoreAt(i)')
    <3>1. CASE i = Depth
      <4>1. StoreAt(i) = Visible /\ StoreAt(i)' = Visible'
        BY <2>1, <3>1 DEF Visible
      <4> QED
        BY <2>3, <4>1
    <3>2. CASE i \in 0 .. Depth - 1
      BY <2>1, <3>2 DEF SamePointers
    <3> QED
      BY <2>1, <3>1, <3>2
  <2> QED
    BY <2>1, <2>4 DEF KeepsPointers
<1>2. CASE GetOrKeep(u, a)
  BY <1>2, GetLevels, SameLevelsPointers
<1> QED
  BY <1>1, <1>2 DEF SetOrKeep

LEMMA ReleasePointers ==
  ASSUME Plain, AllInv, Release
  PROVE  KeepsPointers
<1>1. /\ Depth \in Nat /\ Depth' = Depth
      /\ \A i \in 0 .. Depth :
           /\ ObjectsAt(i)' = ObjectsAt(i)
           /\ \A u \in ObjectsAt(i), a \in Attr :
                Condenses(a) => ValueAt(i, u, a)' = ValueAt(i, u, a)
  BY ReleaseStores DEF Plain, SafeClient, AllInv, SafeInv
<1>2. \A a \in PointerAttr : a \in Attr /\ Condenses(a)
  BY ConstantsAssumption DEF Attr, Condenses
<1>3. ASSUME NEW i \in 0 .. Depth
      PROVE  SamePointers(StoreAt(i), StoreAt(i)')
  <2>1. /\ DOMAIN StoreAt(i) = ObjectsAt(i)
        /\ \A u \in ObjectsAt(i), a \in Attr : StoreAt(i)[u][a] = ValueAt(i, u, a)
    BY LevelHas
  <2>2. /\ DOMAIN StoreAt(i)' = ObjectsAt(i)'
        /\ \A u \in ObjectsAt(i)', a \in Attr : StoreAt(i)'[u][a] = ValueAt(i, u, a)'
    BY DEF StoreAt, ObjectsAt
  <2> QED
    BY <1>1, <1>2, <2>1, <2>2 DEF SamePointers
<1> QED
  BY <1>1, <1>3 DEF KeepsPointers

LEMMA ReleaseLevels ==
  ASSUME Plain, Malformed = {}, AllInv, Release
  PROVE  KeepsLevels
<1>1. /\ Depth' = Depth
      /\ \A i \in 0 .. Depth :
           /\ ObjectsAt(i)' = ObjectsAt(i)
           /\ \A u \in ObjectsAt(i), a \in Attr : ValueAt(i, u, a)' = ValueAt(i, u, a)
  BY ReleaseStores DEF Plain, SafeClient, AllInv, SafeInv, Condenses
<1> QED
  BY <1>1, SameLevel DEF KeepsLevels

(* A core call that neither begins, ends, creates nor sets.                *)
LEMMA OthersKeepLevels ==
  ASSUME Plain, AllInv, Alive, Alive', NEW step \in Step, Does(step), Allowed(step),
         step.do \notin {"begin", "commit", "create", "set", "release"}
  PROVE  KeepsLevels
<1>1. CASE step.do = "get"
  <2>1. GetOrKeep(step.object, step.attr)
    BY <1>1 DEF Does, Performs
  <2> QED
    BY <1>1, <2>1, StepFields, GetLevels
<1>2. CASE step.do \in {"fetch", "follow"}
  <2>1. \E u : FetchOrKeep(u)
    BY <1>2 DEF Does, Performs
  <2> QED
    BY <2>1, FetchLevels
<1>3. CASE step.do = "collect"
  BY <1>3, CollectLevels DEF Does, Performs
<1>4. CASE step.do = "gather"
  <2>1. UNCHANGED vars
    BY <1>4 DEF Does, Performs
  <2> QED
    BY <2>1, SameStoreLevels DEF vars
<1>5. CASE step.do = "close"
  <2>1. Destroy
    BY <1>5 DEF Does, Performs
  <2>2. ~Alive'
    BY <2>1 DEF Destroy, Dies, Alive
  <2> QED
    BY <2>2
<1> QED
  BY <1>1, <1>2, <1>3, <1>4, <1>5 DEF Step

LEMMA ReleasesOne ==
  ASSUME AllInv, NEW step \in Step, Does(step), Allowed(step), step.do = "release"
  PROVE  Release
<1>1. GiveUp(step.object) /\ step.object \in Held /\ transactionList = << >>
  BY DEF Does, Performs, Allowed, Depth, AllInv, TInv, TypeOK
<1> QED
  BY <1>1 DEF Release, MayGiveUp

(* What is rooted stays so when no pointer changes.                        *)
LEMMA RootedStays ==
  ASSUME KeepsPointers, Depth \in Nat,
         \A i \in 0 .. Depth - 1 : Rooted(StoreAt(i)), Rooted(Visible)
  PROVE  (\A i \in 0 .. Depth - 1 : Rooted(StoreAt(i)))' /\ Rooted(Visible)'
<1>1. ASSUME NEW i \in 0 .. Depth
      PROVE  Rooted(StoreAt(i)')
  <2>1. Rooted(StoreAt(i))
    BY DEF Visible
  <2> QED
    BY <2>1, RootedSame DEF KeepsPointers
<1>2. Depth \in 0 .. Depth /\ Depth' = Depth
  BY DEF KeepsPointers
<1>3. Rooted(Visible)'
  BY <1>1, <1>2 DEF Visible, Rooted
<1>4. (\A i \in 0 .. Depth - 1 : Rooted(StoreAt(i)))'
  BY <1>1, <1>2 DEF Rooted
<1> QED
  BY <1>3, <1>4

(* Beginning a transaction adds a level that is like the innermost,        *)
(* committing it takes away the one before.                                *)
LEMMA RootedLevels ==
  ASSUME Plain, AllInv, Alive', BeginTransaction \/ Ends \/ AbortTransaction \/ AbortDies,
         \A i \in 0 .. Depth - 1 : Rooted(StoreAt(i)), Rooted(Visible)
  PROVE  (\A i \in 0 .. Depth - 1 : Rooted(StoreAt(i)))' /\ Rooted(Visible)'
<1>1. TypeOK /\ TypeOK' /\ TInv /\ Depth \in Nat
  <2>1. [Next]_vars
    BY DEF Next, Ends
  <2> QED
    BY <2>1, NextTInv, ListDomain DEF AllInv, TInv
<1>2. ASSUME NEW i \in 0 .. Depth
      PROVE  Rooted(StoreAt(i))
  BY <1>1 DEF Visible
<1>3. CASE BeginTransaction
  <2>1. /\ Depth' = Depth + 1
        /\ \A i \in 0 .. Depth : StoreAt(i)' = StoreAt(i)
        /\ \A n \in Nat : n = Depth' => StoreAt(n)' = Visible
    BY <1>1, <1>3, BeginStores
  <2>2. Visible' = Visible
    BY <1>1, <2>1 DEF Visible
  <2>3. ASSUME NEW i \in 0 .. Depth
        PROVE  Rooted(StoreAt(i)')
    BY <1>2, <2>1
  <2> QED
    BY <1>1, <2>1, <2>2, <2>3 DEF Rooted
<1>4. CASE CommitNested
  <2>1. /\ Depth > 1 /\ Depth' = Depth - 1
        /\ \A i \in 0 .. Depth - 2 : StoreAt(i)' = StoreAt(i)
        /\ \A n \in Nat : n = Depth' => StoreAt(n)' = Visible
    BY <1>1, <1>4, CommitNestedStores
  <2>2. Visible' = Visible
    BY <1>1, <2>1 DEF Visible
  <2>3. ASSUME NEW i \in 0 .. Depth - 2
        PROVE  Rooted(StoreAt(i)')
    BY <1>1, <1>2, <2>1
  <2>4. Depth' - 1 = Depth - 2
    BY <1>1, <2>1
  <2> QED
    BY <2>2, <2>3, <2>4 DEF Rooted
<1>5. CASE CommitFinal
  <2>1. Depth' = 0 /\ StoreAt(0)' = Visible
    BY <1>1, <1>5, CommitFinalStores DEF AllInv, SafeInv
  <2>2. Visible' = Visible
    BY <2>1 DEF Visible
  <2> QED
    BY <2>1, <2>2 DEF Rooted
<1>6. CASE AbortTransaction
  <2>1. /\ Depth \in Nat \ {0} /\ Depth' = Depth - 1
        /\ \A i \in 0 .. Depth - 1 : StoreAt(i)' = StoreAt(i)
    BY <1>6, AbortStores DEF AllInv, SafeInv
  <2>2. ASSUME NEW i \in 0 .. Depth - 1
        PROVE  Rooted(StoreAt(i)')
    BY <1>2, <2>1
  <2>3. Depth' \in 0 .. Depth - 1
    BY <2>1
  <2>4. Rooted(Visible)'
    BY <2>2, <2>3 DEF Visible, Rooted
  <2>5. (\A i \in 0 .. Depth - 1 : Rooted(StoreAt(i)))'
    <3>1. \A i \in 0 .. Depth' - 1 : i \in 0 .. Depth - 1
      BY <2>1
    <3> QED
      BY <2>2, <3>1 DEF Rooted
  <2> QED
    BY <2>4, <2>5
<1> QED
  BY <1>3, <1>4, <1>5, <1>6 DEF Ends, CommitDies, AbortDies, Dies, Alive

LEMMA CreateLevel ==
  ASSUME AllInv, NEW u \in Uuid \ usedUuids, Create(u)
  PROVE  /\ Depth \in Nat \ {0} /\ Depth' = Depth
         /\ \A i \in 0 .. Depth - 1 : StoreAt(i)' = StoreAt(i)
         /\ Visible' = With(Visible, u, Blank)
         /\ DOMAIN Visible = DOMAIN store
         /\ u \in Held' /\ u \notin DOMAIN store
<1>1. CreateObject /\ [Next]_vars
  BY DEF CreateObject, Next
<1>2. TypeOK /\ TInv /\ TypeOK' /\ StoreInv
  BY <1>1, NextTInv DEF AllInv, TInv
<1>3. /\ Depth \in Nat \ {0} /\ Depth' = Depth
      /\ \A i \in 0 .. Depth - 1 : StoreAt(i)' = StoreAt(i)
  BY <1>1, <1>2, CreateStores
<1>4. PICK v \in Uuid \ DOMAIN Visible :
        \A n \in Nat : n = Depth => StoreAt(n)' = With(Visible, v, Blank)
  BY <1>1, <1>2, CreateStores
<1>5. Visible' = With(Visible, v, Blank)
  BY <1>3, <1>4 DEF Visible
<1>6. DOMAIN Visible = DOMAIN store /\ DOMAIN Visible' = DOMAIN store'
  <2>1. Depth + 1 .. Depth = {} /\ Len(transactionList) = Depth
        /\ Len(transactionList') = Depth
    BY <1>3 DEF Depth
  <2>2. CreatedDeeper(Depth) = {} /\ CreatedDeeper(Depth)' = {}
    BY <1>3, <2>1 DEF CreatedDeeper
  <2> QED
    BY <2>2 DEF Visible, StoreAt
<1>7. /\ DOMAIN store' = DOMAIN store \cup {u} /\ u \in Held'
      /\ u \notin DOMAIN store
  <2>1. u \notin DOMAIN store
    BY <1>2 DEF StoreInv, NamesAreUsed
  <2> QED
    BY <2>1 DEF Create, With, Held
<1>8. v = u
  BY <1>4, <1>5, <1>6, <1>7 DEF With
<1> QED
  BY <1>3, <1>5, <1>6, <1>7, <1>8

LEMMA LinkSets ==
  ASSUME Plain, AllInv, NEW steps \in Seq(Step), LinkPending(steps),
         HalfMade(steps, Visible), Does(steps[1]), Alive'
  PROVE  /\ Depth \in Nat \ {0} /\ Depth' = Depth
         /\ \A i \in 0 .. Depth - 1 : StoreAt(i)' = StoreAt(i)
         /\ Visible' = [Visible EXCEPT ![steps[1].object] =
                           [@ EXCEPT ![steps[1].attr] = steps[1].value]]
         /\ steps[1].object \in Uuid
<1> DEFINE u == steps[1].object
           a == steps[1].attr
           new == steps[1].value
<1>1. /\ steps[1] \in Step /\ steps[1].do = "set" /\ a \in PointerAttr
      /\ u \in Uuid /\ a \in Attr /\ new \in Contents
  BY TailOfSteps, StepFields DEF LinkPending
<1>2. PICK s : /\ Rooted(s) /\ DOMAIN s \subseteq Uuid
               /\ u \in Uuid \ DOMAIN s /\ new \in DOMAIN s
               /\ Visible = With(s, u, Blank)
  BY DEF HalfMade
<1>3. SetOrKeep(u, a, new) /\ u \in Held
  BY <1>1 DEF Does, Performs, HalfMade
<1> HIDE DEF u, a, new
<1>4. u \in DOMAIN Visible /\ DOMAIN Visible = DOMAIN store /\ Visible[u] = Blank
  <2>1. DOMAIN Visible = DOMAIN store
    BY TopLevel DEF Visible, StoreAt, ObjectsAt, AllInv, TInv
  <2> QED
    <3>1. DOMAIN With(s, u, Blank) = DOMAIN s \cup {u} /\ With(s, u, Blank)[u] = Blank
      BY DEF With
    <3> QED
      BY <1>2, <2>1, <3>1
<1>5. Last(Loaded(u, a)) = Null
  <2>1. Visible[u][a] = Last(Loaded(u, a))
    BY <1>1, <1>3, <1>4, LastIsVisible DEF AllInv
  <2>2. Blank[a] = Null
    BY <1>1 DEF Blank
  <2> QED
    BY <1>4, <2>1, <2>2
<1>6. Set(u, a, new)
  <2>1. new # Null
    BY <1>2, ConstantsAssumption
  <2> QED
    BY <1>3, <1>5, <2>1 DEF SetOrKeep, Changes
<1>7. /\ Depth \in Nat \ {0} /\ Depth' = Depth
      /\ \A i \in 0 .. Depth - 1 : StoreAt(i)' = StoreAt(i)
      /\ Visible' = [Visible EXCEPT ![u] = [@ EXCEPT ![a] = new]]
  BY <1>1, <1>6, SetLevel
<1> QED
  BY <1>1, <1>7 DEF u, a, new

LEMMA LinkMakes ==
  ASSUME Plain, AllInv, NEW steps \in Seq(Step), LinkPending(steps),
         HalfMade(steps, Visible), Does(steps[1]), Alive',
         \A i \in 0 .. Depth - 1 : Rooted(StoreAt(i))
  PROVE  (\A i \in 0 .. Depth - 1 : Rooted(StoreAt(i)))' /\ Rooted(Visible)'
<1> DEFINE u == steps[1].object
           a == steps[1].attr
           new == steps[1].value
<1>1. a \in PointerAttr /\ a \in Attr
  BY DEF LinkPending, Attr
<1>2. PICK s : /\ Rooted(s) /\ DOMAIN s \subseteq Uuid
               /\ u \in Uuid \ DOMAIN s /\ new \in DOMAIN s
               /\ Visible = With(s, u, Blank)
  BY DEF HalfMade
<1>3. /\ Depth \in Nat \ {0} /\ Depth' = Depth
      /\ \A i \in 0 .. Depth - 1 : StoreAt(i)' = StoreAt(i)
      /\ Visible' = [Visible EXCEPT ![u] = [@ EXCEPT ![a] = new]]
  BY LinkSets
<1> HIDE DEF u, a, new
<1>4. Rooted(Visible')
  <2>1. DOMAIN Visible' = DOMAIN s \cup {u}
    BY <1>2, <1>3 DEF With
  <2>2. \A x \in DOMAIN s : Visible'[x] = s[x]
    BY <1>2, <1>3 DEF With
  <2>3. Visible'[u][a] = new
    <3>1. Visible[u] = Blank /\ u \in DOMAIN Visible
      BY <1>2 DEF With
    <3>2. DOMAIN Visible[u] = Attr
      BY <3>1 DEF Blank
    <3> QED
      BY <1>1, <1>3, <3>1, <3>2
  <2> QED
    BY <1>1, <1>2, <2>1, <2>2, <2>3, RootedChild
<1> QED
  BY <1>3, <1>4 DEF Rooted

LEMMA LinkedGoesOn ==
  ASSUME NEW steps \in Seq(Step), steps # << >>, Linked(steps), call' = Tail(steps),
         DOMAIN store \subseteq DOMAIN store'
  PROVE  /\ Linked(call)'
         /\ LinkPending(call)' => steps[1].do = "create"
<1>1. /\ Len(steps) \in Nat \ {0} /\ Len(call') = Len(steps) - 1
      /\ \A i \in 1 .. Len(steps) - 1 : call'[i] = steps[i + 1]
  BY TailOfSteps
<1>2. ASSUME NEW i \in 1 .. Len(steps) - 1
      PROVE  LinksWhatIsMade(call, i)'
  <2>1. i + 1 \in 1 .. Len(steps) /\ call'[i] = steps[i + 1] /\ (i + 1) - 1 = i
    BY <1>1
  <2>2. LinksWhatIsMade(steps, i + 1)
    BY <2>1 DEF Linked
  <2>3. ASSUME call'[i].do = "create"
        PROVE  /\ i = 1
               /\ i + 2 <= Len(call') /\ call'[i + 2].do = "commit"
               /\ call'[i + 1].do = "set" /\ call'[i + 1].object = call'[i].object
               /\ call'[i + 1].attr \in PointerAttr /\ call'[i + 1].value \in DOMAIN store'
    <3>1. /\ i + 1 \in {1, 2}
          /\ (i + 1) + 2 <= Len(steps) /\ steps[(i + 1) + 2].do = "commit"
          /\ steps[(i + 1) + 1].do = "set" /\ steps[(i + 1) + 1].object = steps[i + 1].object
          /\ steps[(i + 1) + 1].attr \in PointerAttr
          /\ steps[(i + 1) + 1].value \in DOMAIN store
      BY <2>1, <2>2, <2>3 DEF LinksWhatIsMade
    <3>2. /\ i + 1 \in 1 .. Len(steps) - 1 /\ i + 2 \in 1 .. Len(steps) - 1
          /\ (i + 1) + 1 = i + 2 /\ (i + 2) + 1 = (i + 1) + 2
          /\ i = 1 /\ i + 2 <= Len(call')
      BY <1>1, <3>1
    <3>3. call'[i + 1] = steps[(i + 1) + 1] /\ call'[i + 2] = steps[(i + 2) + 1]
      BY <1>1, <3>2
    <3> QED
      BY <2>1, <3>1, <3>2, <3>3
  <2>4. ASSUME call'[i].do = "set", call'[i].attr \in PointerAttr, i # 1
        PROVE  call'[i - 1].do = "create"
    <3>1. steps[i].do = "create"
      BY <1>1, <2>1, <2>2, <2>4 DEF LinksWhatIsMade
    <3>2. i - 1 \in 1 .. Len(steps) - 1 /\ (i - 1) + 1 = i
      BY <1>1, <2>4
    <3> QED
      BY <1>1, <3>1, <3>2
  <2> QED
    BY <2>3, <2>4 DEF LinksWhatIsMade
<1>3. Linked(call)'
  BY <1>1, <1>2 DEF Linked
<1>4. ASSUME LinkPending(call)'
      PROVE  steps[1].do = "create"
  <2>1. call' # << >> /\ call'[1].do = "set" /\ call'[1].attr \in PointerAttr
    BY <1>4 DEF LinkPending
  <2>2. 1 \in 1 .. Len(steps) - 1
    BY <1>1, <2>1
  <2>3. 2 \in 1 .. Len(steps) /\ call'[1] = steps[2]
    BY <1>1, <2>2
  <2>4. LinksWhatIsMade(steps, 2)
    BY <2>3 DEF Linked
  <2> QED
    BY <2>1, <2>3, <2>4 DEF LinksWhatIsMade
<1> QED
  BY <1>3, <1>4

LEMMA TreeGoesOn ==
  ASSUME Plain, AllInv, Alive, NEW steps \in Seq(Step), steps # << >>, Allowed(steps[1]),
         TreeWith(steps), Does(steps[1]), call' = Tail(steps), Alive'
  PROVE  TreeWith(call)'
<1> DEFINE step == steps[1]
<1>1. /\ step \in Step
      /\ Len(steps) \in Nat \ {0} /\ Len(call') = Len(steps) - 1
      /\ \A i \in 1 .. Len(steps) - 1 : call'[i] = steps[i + 1]
  BY TailOfSteps
<1>2. Linked(call)' /\ (LinkPending(call)' => step.do = "create")
  BY <1>1, LinkedGoesOn, StoreGrows DEF TreeWith
<1>d. Depth \in Nat
  BY ListDomain DEF AllInv, TInv
<1>3. CASE step.do = "create"
  <2> DEFINE u == step.object
  <2>1. Create(u) /\ u \in Uuid \ usedUuids
    BY <1>1, <1>3, StepFields DEF Does, Performs, Allowed
  <2>2. /\ Depth \in Nat \ {0} /\ Depth' = Depth
        /\ \A i \in 0 .. Depth - 1 : StoreAt(i)' = StoreAt(i)
        /\ Visible' = With(Visible, u, Blank)
        /\ DOMAIN Visible = DOMAIN store
        /\ u \in Held' /\ u \notin DOMAIN store
    BY <2>1, CreateLevel
  <2>3. (\A i \in 0 .. Depth - 1 : Rooted(StoreAt(i)))' /\ Rooted(Visible)
    BY <1>3, <2>2 DEF TreeWith, LinkPending, Rooted
  <2>4. LinksWhatIsMade(steps, 1)
    BY <1>1 DEF TreeWith, Linked
  <2>5. /\ 3 <= Len(steps) /\ steps[3].do = "commit"
        /\ steps[2].do = "set" /\ steps[2].object = u
        /\ steps[2].attr \in PointerAttr /\ steps[2].value \in DOMAIN store
    BY <1>3, <2>4 DEF LinksWhatIsMade
  <2>6. Len(call') >= 2 /\ call'[1] = steps[2] /\ call'[2] = steps[3] /\ call' # << >>
    <3>1. 1 \in 1 .. Len(steps) - 1 /\ 2 \in 1 .. Len(steps) - 1 /\ Len(call') >= 2
      BY <1>1, <2>5
    <3>2. call'[1] = steps[1 + 1] /\ call'[2] = steps[2 + 1]
      BY <1>1, <3>1
    <3>3. 1 + 1 = 2 /\ 2 + 1 = 3
      OBVIOUS
    <3>4. call' # << >>
      <4>1. Len(Tail(steps)) >= 2
        BY <3>1
      <4>2. \A s \in Seq(Step) : Len(s) >= 2 => s # << >>
        OBVIOUS
      <4>3. Tail(steps) \in Seq(Step)
        BY TailOfSteps
      <4> QED
        BY <4>1, <4>2, <4>3
    <3> QED
      BY <3>1, <3>2, <3>3, <3>4
  <2>7. LinkPending(call)'
    BY <2>5, <2>6 DEF LinkPending
  <2>8. DOMAIN Visible \subseteq Uuid
    BY <2>2 DEF AllInv, TInv, TypeOK
  <2>9. HalfMade(call, Visible)'
    <3> DEFINE s == Visible
    <3>1. \E t : /\ Rooted(t) /\ DOMAIN t \subseteq Uuid
                 /\ u \in Uuid \ DOMAIN t /\ steps[2].value \in DOMAIN t
                 /\ Visible' = With(t, u, Blank)
      <4>1. /\ Rooted(s) /\ DOMAIN s \subseteq Uuid
            /\ u \in Uuid \ DOMAIN s /\ steps[2].value \in DOMAIN s
            /\ Visible' = With(s, u, Blank)
        BY <2>1, <2>2, <2>3, <2>5, <2>8
      <4> HIDE DEF s
      <4> QED
        BY <4>1
    <3>2. Len(call') >= 2 /\ call'[2].do = "commit" /\ u \in Held'
          /\ call'[1].object = u /\ call'[1].value = steps[2].value
      BY <2>2, <2>5, <2>6
    <3> HIDE DEF u
    <3>3. /\ Len(call') >= 2 /\ call'[2].do = "commit"
          /\ call'[1].object \in Held'
          /\ \E t : /\ Rooted(t) /\ DOMAIN t \subseteq Uuid
                  /\ call'[1].object \in Uuid \ DOMAIN t
                  /\ call'[1].value \in DOMAIN t
                  /\ Visible' = With(t, call'[1].object, Blank)
      BY <3>1, <3>2
    <3> QED
      BY <3>3 DEF HalfMade, Rooted, Below, Closed
  <2> QED
    BY <1>2, <2>3, <2>7, <2>9 DEF TreeWith
<1>4. CASE step.do # "create"
  <2>1. SUFFICES (\A i \in 0 .. Depth - 1 : Rooted(StoreAt(i)))' /\ Rooted(Visible)'
    BY <1>2, <1>4 DEF TreeWith
  <2>2. CASE LinkPending(steps)
    BY <2>2, LinkMakes DEF TreeWith
  <2>3. CASE ~LinkPending(steps)
    <3>1. /\ \A i \in 0 .. Depth - 1 : Rooted(StoreAt(i))
          /\ Rooted(Visible)
      BY <2>3 DEF TreeWith
    <3>2. CASE BeginTransaction \/ Ends
      BY <3>1, <3>2, RootedLevels
    <3>3. CASE KeepsPointers
      BY <1>d, <3>1, <3>3, RootedStays
    <3>4. BeginTransaction \/ Ends \/ KeepsPointers
      <4>1. CASE step.do = "begin"
        BY <1>1, <4>1, StepFields DEF Does, Performs, BeginTransaction
      <4>2. CASE step.do = "commit"
        BY <4>2 DEF Does, Performs
      <4>3. CASE step.do = "set"
        <5>1. SetOrKeep(step.object, step.attr, step.value)
          BY <4>3 DEF Does, Performs
        <5>2. /\ step.object \in Uuid
              /\ step.attr \in Attr \ PointerAttr
              /\ step.value \in Contents
          BY <1>1, <2>3, <4>3, StepFields DEF LinkPending
        <5> QED
          BY <5>1, <5>2, SetValuePointers
      <4>4. CASE step.do = "release"
        BY <1>1, <4>4, ReleasesOne, ReleasePointers
      <4>5. CASE step.do \notin {"begin", "commit", "create", "set", "release"}
        BY <1>1, <4>5, OthersKeepLevels, SameLevelsPointers
      <4> QED
        BY <1>4, <4>1, <4>2, <4>3, <4>4, <4>5
    <3> QED
      BY <3>2, <3>3, <3>4
  <2> QED
    BY <2>2, <2>3
<1> QED
  BY <1>3, <1>4

TreeInv == Alive => TreeWith(call)

(* Between calls.                                                          *)
LEMMA IdleTree ==
  ASSUME Ready
  PROVE  TreeWith(call) <=> /\ \A i \in 0 .. Depth - 1 : Rooted(StoreAt(i))
                            /\ Rooted(Visible)
<1>1. call = << >> /\ 1 .. Len(call) = {}
  BY DEF Ready
<1>2. Linked(call) /\ ~LinkPending(call)
  BY <1>1 DEF Linked, LinkPending
<1> QED
  BY <1>2 DEF TreeWith

(* How calls begin: with a step that neither creates nor sets, and with    *)
(* plain attributes of at most one object to set.                          *)
SetsOnly(steps, u) ==
  \A i \in 1 .. Len(steps) :
    steps[i].do = "set" /\ steps[i].attr \notin PointerAttr => steps[i].object = u

BeginsWith(steps) ==
  /\ steps # << >> /\ Calls(steps) /\ Allowed(steps[1])
  /\ steps[1].do \notin {"create", "set", "commit"}
  /\ Linked(steps)
  /\ \E u \in DOMAIN store : SetsOnly(steps, u)

ACallBegins == \E steps \in Seq(Step) : BeginsWith(steps)

LEMMA RootIsThere ==
  ASSUME MetaSafe, TreeInv, Ready
  PROVE  Root \in DOMAIN store
<1>1. Rooted(Visible)
  BY IdleTree DEF TreeInv, Ready
<1>2. DOMAIN Visible = DOMAIN store
  BY TopLevel DEF Visible, StoreAt, ObjectsAt, MetaSafe, AllInv, TInv
<1> QED
  BY <1>1, <1>2, ConstantsAssumption DEF Rooted, Below, Closed

LEMMA TreeCall ==
  ASSUME Plain, MetaSafe, TreeInv, ACallBegins
  PROVE  TreeInv'
<1>1. PICK steps \in Seq(Step) : BeginsWith(steps)
  BY DEF ACallBegins
<1>2. /\ Alive /\ Ready /\ AllInv /\ call' = Tail(steps) /\ steps # << >>
      /\ steps[1] \in Step /\ Head(steps) = steps[1]
  BY <1>1, TailOfSteps DEF MetaSafe, BeginsWith, Calls, Ready
<1>3. Does(steps[1]) /\ Allowed(steps[1])
  BY <1>1, <1>2 DEF BeginsWith, Calls, Does
<1>4. TreeWith(steps)
  BY <1>1, <1>2, IdleTree DEF TreeInv, TreeWith, BeginsWith, LinkPending
<1> QED
  BY <1>2, <1>3, <1>4, TreeGoesOn DEF TreeInv

(* Calls that neither create nor set anything.                             *)
LEMMA LinksNothing ==
  ASSUME MetaSafe, TreeInv, NEW steps \in Seq(Step), steps # << >>, Calls(steps),
         Allowed(steps[1]), steps[1].do # "commit",
         \A i \in 1 .. Len(steps) : steps[i].do \notin {"create", "set"}
  PROVE  ACallBegins
<1>1. 1 \in 1 .. Len(steps) /\ Root \in DOMAIN store
  BY TailOfSteps, RootIsThere DEF Calls
<1>2. Linked(steps) /\ SetsOnly(steps, Root)
  BY DEF Linked, LinksWhatIsMade, SetsOnly
<1> QED
  BY <1>1, <1>2 DEF ACallBegins, BeginsWith

LEMMA SetValueBegins ==
  ASSUME Plain, MetaSafe, TreeInv, SetValue
  PROVE  ACallBegins
<1>1. PICK u \in Held, a \in ValueAttr, new \in Value :
        u \in DOMAIN store /\ Calls(<<Opens(FALSE), Sets(u, a, new), Commits>>)
  BY DEF SetValue, Setter, MaySet, MayUse, Plain
<1> DEFINE steps == <<Opens(FALSE), Sets(u, a, new), Commits>>
<1>2. u \in Uuid /\ a \in Attr /\ a \notin PointerAttr /\ new \in Contents
      /\ u \in DOMAIN store
  BY <1>1, ConstantsAssumption DEF MetaSafe, MetaInv, TInv, TypeOK, Held, Attr, Contents
<1>3. Sets(u, a, new).attr = a /\ Sets(u, a, new).object = u
  BY DEF Sets
<1>4. /\ steps \in Seq(Step) /\ Len(steps) = 3 /\ steps # << >>
      /\ steps[1].do = "begin" /\ steps[3].do = "commit"
      /\ steps[2].do = "set" /\ steps[2].attr = a /\ steps[2].object = u
  BY <1>2, <1>3, StepsOfCalls, ShortSequences
<1>5. Calls(steps)
  BY <1>1
<1> HIDE DEF steps
<1>6. Linked(steps) /\ SetsOnly(steps, u)
  BY <1>2, <1>4, UpToFour DEF Linked, LinksWhatIsMade, SetsOnly
<1> QED
  BY <1>2, <1>4, <1>5, <1>6 DEF Allowed, ACallBegins, BeginsWith

LEMMA GetValueBegins ==
  ASSUME Plain, MetaSafe, TreeInv, GetValue
  PROVE  ACallBegins
<1>1. PICK u \in Held, a \in ValueAttr : Calls(<<Opens(FALSE), Gets(u, a), Commits>>)
  BY DEF GetValue
<1> DEFINE steps == <<Opens(FALSE), Gets(u, a), Commits>>
<1>2. u \in Uuid /\ a \in Attr
  BY DEF MetaSafe, MetaInv, TInv, TypeOK, Held, Attr
<1>3. /\ steps \in Seq(Step) /\ Len(steps) = 3 /\ steps # << >>
      /\ steps[1].do = "begin" /\ steps[2].do = "get" /\ steps[3].do = "commit"
  BY <1>2, StepsOfCalls, ShortSequences
<1>4. Calls(steps)
  BY <1>1
<1> HIDE DEF steps
<1> QED
  BY <1>3, <1>4, UpToFour, LinksNothing DEF Allowed

LEMMA GetOfProjectBegins ==
  ASSUME Plain, MetaSafe, TreeInv, GetOfProject
  PROVE  ACallBegins
<1>1. PICK a \in ValueAttr : Calls(<<Opens(TRUE), Gets(Root, a), Commits>>)
  BY DEF GetOfProject
<1> DEFINE steps == <<Opens(TRUE), Gets(Root, a), Commits>>
<1>2. Root \in Uuid /\ a \in Attr
  BY ConstantsAssumption DEF Attr
<1>3. /\ steps \in Seq(Step) /\ Len(steps) = 3 /\ steps # << >>
      /\ steps[1].do = "begin" /\ steps[2].do = "get" /\ steps[3].do = "commit"
  BY <1>2, StepsOfCalls, ShortSequences
<1>4. Calls(steps)
  BY <1>1
<1> HIDE DEF steps
<1> QED
  BY <1>3, <1>4, UpToFour, LinksNothing DEF Allowed

LEMMA FindObjectBegins ==
  ASSUME Plain, MetaSafe, TreeInv, FindObject
  PROVE  ACallBegins
<1>1. PICK u \in Uuid : Calls(<<Opens(TRUE), Fetches(u), Commits>>)
  BY DEF FindObject
<1> DEFINE steps == <<Opens(TRUE), Fetches(u), Commits>>
<1>3. /\ steps \in Seq(Step) /\ Len(steps) = 3 /\ steps # << >>
      /\ steps[1].do = "begin" /\ steps[2].do = "fetch" /\ steps[3].do = "commit"
  BY StepsOfCalls, ShortSequences
<1>4. Calls(steps)
  BY <1>1
<1> HIDE DEF steps
<1> QED
  BY <1>3, <1>4, UpToFour, LinksNothing DEF Allowed

LEMMA CreateChildBegins ==
  ASSUME Plain, MetaSafe, TreeInv, CreateChild
  PROVE  ACallBegins
<1>1. PICK a \in PointerAttr, parent \in Held :
        usedUuids # Uuid /\ MayUse(parent) /\ Calls(Creator(NextUuid, a, parent))
  BY DEF CreateChild
<1> DEFINE u == NextUuid
           steps == <<Opens(FALSE), Creates(u), Sets(u, a, parent), Commits>>
<1>2. u \in Uuid /\ a \in Attr /\ parent \in Contents /\ parent \in DOMAIN store
  BY <1>1, NewIsUnused
  DEF MetaSafe, MetaInv, TInv, TypeOK, Held, Attr, Contents, MayUse, Plain
<1>4. Calls(steps)
  BY <1>1 DEF Creator
<1> HIDE DEF u
<1>5. /\ Creates(u).object = u /\ Sets(u, a, parent).object = u
      /\ Sets(u, a, parent).attr = a /\ Sets(u, a, parent).value = parent
  BY DEF Creates, Sets
<1>3. /\ steps \in Seq(Step) /\ Len(steps) = 4 /\ steps # << >>
      /\ steps[1].do = "begin" /\ steps[2].do = "create"
      /\ steps[3].do = "set" /\ steps[4].do = "commit"
  BY <1>2, StepsOfCalls, ShortSequences
<1>6. /\ steps[2].object = u /\ steps[3].object = u
      /\ steps[3].attr = a /\ steps[3].value = parent
  BY <1>5
<1> HIDE DEF steps
<1>7. LinksWhatIsMade(steps, 1) /\ LinksWhatIsMade(steps, 4)
  BY <1>3 DEF LinksWhatIsMade
<1>8. LinksWhatIsMade(steps, 2)
  <2>1. 2 + 1 = 3 /\ 2 + 2 = 4
    OBVIOUS
  <2> QED
    BY <1>1, <1>2, <1>3, <1>6, <2>1 DEF LinksWhatIsMade
<1>9. LinksWhatIsMade(steps, 3)
  <2>1. 3 - 1 = 2
    OBVIOUS
  <2> QED
    BY <1>3, <2>1 DEF LinksWhatIsMade
<1>10. Linked(steps) /\ SetsOnly(steps, parent)
  <2>1. \A i \in 1 .. 4 : i = 1 \/ i = 2 \/ i = 3 \/ i = 4
    OBVIOUS
  <2> QED
    BY <1>3, <1>7, <1>8, <1>9, <1>1, <1>6, <2>1 DEF Linked, SetsOnly
<1> QED
  BY <1>2, <1>3, <1>4, <1>10 DEF Allowed, ACallBegins, BeginsWith

LEMMA ObjectFromAttributeBegins ==
  ASSUME Plain, MetaSafe, TreeInv, ObjectFromAttribute
  PROVE  ACallBegins
<1>1. PICK u \in Held, a \in PointerAttr :
        Calls(<<Opens(FALSE), Gets(u, a), Follows(u, a), Commits>>)
  BY DEF ObjectFromAttribute
<1> DEFINE steps == <<Opens(FALSE), Gets(u, a), Follows(u, a), Commits>>
<1>2. u \in Uuid /\ a \in Attr
  BY DEF MetaSafe, MetaInv, TInv, TypeOK, Held, Attr
<1>3. /\ steps \in Seq(Step) /\ Len(steps) = 4 /\ steps # << >>
      /\ steps[1].do = "begin" /\ steps[2].do = "get"
      /\ steps[3].do = "follow" /\ steps[4].do = "commit"
  BY <1>2, StepsOfCalls, ShortSequences
<1>4. Calls(steps)
  BY <1>1
<1> HIDE DEF steps
<1> QED
  BY <1>3, <1>4, UpToFour, LinksNothing DEF Allowed

LEMMA GetConstraintsBegins ==
  ASSUME Plain, MetaSafe, TreeInv, GetConstraints
  PROVE  ACallBegins
<1>1. PICK u \in Held, a \in PointerAttr : Calls(<<Collects(u, a), Gathers(u, a)>>)
  BY DEF GetConstraints
<1> DEFINE steps == <<Collects(u, a), Gathers(u, a)>>
<1>2. u \in Uuid
  BY DEF MetaSafe, MetaInv, TInv, TypeOK, Held
<1>3. /\ steps \in Seq(Step) /\ Len(steps) = 2 /\ steps # << >>
      /\ steps[1].do = "collect" /\ steps[2].do = "gather"
  BY <1>2, StepsOfCalls, ShortSequences
<1>4. Calls(steps)
  BY <1>1
<1> HIDE DEF steps
<1> QED
  BY <1>3, <1>4, UpToFour, LinksNothing DEF Allowed

LEMMA MetaCloseBegins ==
  ASSUME Plain, MetaSafe, TreeInv, MetaClose
  PROVE  ACallBegins
<1> DEFINE steps == <<GivesUp(Root), Closes>>
<1>1. Root \in Uuid
  BY ConstantsAssumption
<1>2. /\ steps \in Seq(Step) /\ Len(steps) = 2 /\ steps # << >>
      /\ steps[1].do = "release" /\ steps[1].object = Root /\ steps[2].do = "close"
  BY <1>1, StepsOfCalls, ShortSequences
<1>3. opened = 0 /\ Held = {Root} /\ Calls(steps) /\ Ready /\ MetaInv
  BY DEF MetaClose, Destructor, Calls, MetaSafe
<1> HIDE DEF steps
<1>4. Depth = 0
  BY <1>3, ReadyIsLevel
<1> QED
  BY <1>2, <1>3, <1>4, UpToFour, LinksNothing DEF Allowed

(* What changes no pointers while a call is in progress.                   *)
LEMMA TreeWaits ==
  ASSUME MetaSafe, Alive, TreeWith(call), call' = call, KeepsPointers,
         DOMAIN store \subseteq DOMAIN store', ~LinkPending(call)
  PROVE  TreeWith(call)'
<1>1. Depth \in Nat
  BY ListDomain DEF MetaSafe, AllInv, TInv
<1>2. (\A i \in 0 .. Depth - 1 : Rooted(StoreAt(i)))' /\ Rooted(Visible)'
  BY <1>1, RootedStays DEF TreeWith
<1>3. Linked(call)' /\ ~LinkPending(call)'
  BY DEF TreeWith, Linked, LinksWhatIsMade, LinkPending
<1> QED
  BY <1>2, <1>3 DEF TreeWith

LEMMA TreeCallStep ==
  ASSUME Plain, MetaSafe, TreeInv, CallStep, Alive'
  PROVE  TreeWith(call)'
<1>1. /\ Alive /\ call # << >> /\ call \in Seq(Step) /\ AllInv /\ TreeWith(call)
      /\ call[1] \in Step /\ Head(call) = call[1] /\ Allowed(call[1])
  BY TailOfSteps DEF CallStep, MetaSafe, MetaInv, TreeInv, Plan
<1>2. CASE \E u \in Missing(Head(call)) : FetchOrKeep(u) /\ call' = call
  <2>1. PICK u : FetchOrKeep(u) /\ u \in Missing(call[1])
    BY <1>1, <1>2
  <2>2. call[1].do = "gather"
    BY <2>1 DEF Missing
  <2>3. KeepsPointers
    BY <1>1, <2>1, FetchLevels, SameLevelsPointers
  <2>4. store' = store
    BY <2>1 DEF FetchOrKeep, Fetch, Dies, vars
  <2>5. ~LinkPending(call) /\ call' = call
    BY <1>2, <2>2 DEF LinkPending
  <2> QED
    BY <1>1, <2>3, <2>4, <2>5, TreeWaits
<1>3. CASE /\ IF Head(call).do = "gather" THEN UNCHANGED vars ELSE Performs(Head(call))
           /\ call' = Tail(call)
  <2>1. Does(call[1])
    BY <1>1, <1>3 DEF Does
  <2> QED
    BY <1>1, <1>3, <2>1, TreeGoesOn
<1> QED
  BY <1>2, <1>3 DEF CallStep

(* Transactions of the client, and wrappers that are deleted.              *)
LEMMA TreeBetweenCalls ==
  ASSUME Plain, MetaSafe, TreeInv, MetaBegin \/ MetaCommit \/ MetaAbort \/ Delete, Alive'
  PROVE  TreeWith(call)'
<1>1. Ready /\ Alive /\ call' = call /\ Ready' /\ AllInv
  BY DEF MetaBegin, MetaCommit, MetaAbort, Delete, Ready, MetaSafe
<1>2. (\A i \in 0 .. Depth - 1 : Rooted(StoreAt(i))) /\ Rooted(Visible)
  BY <1>1, IdleTree DEF TreeInv
<1>3. Depth \in Nat
  BY <1>1, ListDomain DEF AllInv, TInv
<1>4. BeginTransaction \/ Ends \/ AbortTransaction \/ AbortDies \/ Release
  BY DEF MetaBegin, MetaCommit, MetaAbort, Delete, BeginTransaction, Release
<1>5. (\A i \in 0 .. Depth - 1 : Rooted(StoreAt(i)))' /\ Rooted(Visible)'
  <2>1. CASE Release
    BY <1>1, <1>2, <1>3, <2>1, ReleasePointers, RootedStays
  <2>2. CASE ~Release
    BY <1>1, <1>2, <1>4, <2>2, RootedLevels
  <2> QED
    BY <2>1, <2>2
<1>6. call' = << >> /\ 1 .. Len(call') = {}
  BY <1>1 DEF Ready
<1>7. Linked(call)' /\ ~LinkPending(call)'
  BY <1>6 DEF Linked, LinkPending
<1> QED
  BY <1>5, <1>7 DEF TreeWith

(* The steps that clients take.                                            *)
LEMMA MetaNextCases ==
  ASSUME Plain, MetaSafe, TreeInv, MetaNext
  PROVE  CallStep \/ ACallBegins \/ MetaBegin \/ MetaCommit \/ MetaAbort \/ Delete
BY SetValueBegins, GetValueBegins, GetOfProjectBegins, FindObjectBegins,
   CreateChildBegins, ObjectFromAttributeBegins, GetConstraintsBegins, MetaCloseBegins
DEF MetaNext

LEMMA TreeKept ==
  ASSUME Plain, MetaSafe, TreeInv, MetaNext
  PROVE  TreeInv'
BY MetaNextCases, TreeCall, TreeCallStep, TreeBetweenCalls DEF TreeInv

LEMMA TreeStutters ==
  ASSUME TreeInv, UNCHANGED metaVars
  PROVE  TreeInv'
<1>1. /\ store' = store /\ objectHash' = objectHash /\ transactionList' = transactionList
      /\ call' = call /\ fault' = fault
  BY DEF metaVars, vars
<1>2. /\ Depth' = Depth /\ Held' = Held
      /\ \A i : StoreAt(i)' = StoreAt(i)
  BY <1>1
  DEF StoreAt, ObjectsAt, CreatedDeeper, ValueAt, Deeper, DeeperIn, Counts, Held, Depth
<1>3. Visible' = Visible
  BY <1>2 DEF Visible
<1>4. (Linked(call)' <=> Linked(call)) /\ (LinkPending(call)' <=> LinkPending(call))
  BY <1>1 DEF Linked, LinksWhatIsMade, LinkPending
<1>5. /\ HalfMade(call, Visible)' <=> HalfMade(call, Visible)
      /\ Rooted(Visible)' <=> Rooted(Visible)
  BY <1>1, <1>2, <1>3 DEF HalfMade, Rooted, Below, Closed
<1>6. (\A i \in 0 .. Depth - 1 : Rooted(StoreAt(i)))' <=>
        (\A i \in 0 .. Depth - 1 : Rooted(StoreAt(i)))
  <2>1. ASSUME NEW i \in 0 .. Depth - 1
        PROVE  Rooted(StoreAt(i)') <=> Rooted(StoreAt(i))
    BY <1>2
  <2> QED
    BY <1>2, <2>1 DEF Rooted
<1> QED
  BY <1>1, <1>4, <1>5, <1>6 DEF TreeInv, Alive, TreeWith

LEMMA TreeInit ==
  ASSUME MetaInit
  PROVE  TreeInv
<1>1. /\ store = [u \in {Root} |-> Blank] /\ transactionList = << >> /\ Root \in Uuid
      /\ MetaInv /\ Depth = 0 /\ TypeOK
  BY ConstantsAssumption, MetaInitKeeps DEF MetaInit, Init, MetaInv, TInv, Depth
<1>2. DOMAIN Visible = {Root}
  BY <1>1, TopLevel DEF Visible, StoreAt, ObjectsAt
<1>3. Rooted(Visible)
  <2>1. Closed(Visible, {Root})
    BY <1>2 DEF Closed
  <2>2. \A S : Closed(Visible, S) => Root \in S
    BY DEF Closed
  <2> QED
    BY <1>1, <1>2, <2>1, <2>2 DEF Rooted, Below
<1>4. call \in Seq(Step) /\ (call # << >> => 1 \in 1 .. Len(call))
  <2>1. call \in Seq(Step)
    BY <1>1 DEF MetaInv
  <2> QED
    BY <2>1, TailOfSteps
<1>5. ASSUME NEW i \in 1 .. Len(call)
      PROVE  /\ call[i].do # "create"
             /\ call[i].do = "set" => call[i].attr \notin PointerAttr
  BY InitDescribes, ConstantsAssumption DEF Describes, SetsRoot
<1>6. Linked(call) /\ ~LinkPending(call)
  BY <1>4, <1>5 DEF Linked, LinksWhatIsMade, LinkPending
<1>7. 0 .. Depth - 1 = {}
  BY <1>1
<1> QED
  BY <1>3, <1>6, <1>7 DEF TreeInv, TreeWith

(* What is half made is in a transaction of the call that makes it.        *)
LEMMA TreeOfClient ==
  ASSUME MetaSafe, TreeInv
  PROVE  ContainmentTree
<1> SUFFICES ASSUME Alive, NEW i \in 0 .. opened
             PROVE  Rooted(StoreAt(i))
  BY DEF ContainmentTree, Rooted
<1>1. /\ MetaInv /\ Plan(call) /\ TreeWith(call) /\ opened \in Nat /\ Depth \in Nat
      /\ opened <= Depth
  BY ListDomain, ConstantsAssumption DEF MetaSafe, MetaInv, TInv, TreeInv, Plan, ClientMayWrite
<1>2. CASE LinkPending(call)
  <2>1. /\ call[1].do = "set" /\ call[2].do = "commit"
        /\ Len(call) \in Nat /\ Len(call) >= 2
    BY <1>1, <1>2 DEF LinkPending, TreeWith, HalfMade, MetaInv
  <2>2. PICK d \in [1 .. Len(call) + 1 -> 0 .. 1] : OpensAndEnds(call, d)
    BY <1>1 DEF Plan
  <2>3. 1 \in 1 .. Len(call) /\ 2 \in 1 .. Len(call) /\ 3 \in 1 .. Len(call) + 1
    BY <2>1
  <2>4. d[1 + 1] = d[1] + Effect(call[1]) /\ d[2 + 1] = d[2] + Effect(call[2])
    BY <2>2, <2>3 DEF OpensAndEnds
  <2>5. Effect(call[1]) = 0 /\ Effect(call[2]) = -1
    BY <2>1 DEF Effect
  <2>6. d[1] \in Nat /\ d[3] \in Nat /\ d[2] \in Nat
    BY <2>2, <2>3
  <2>7. d[2] = d[1] /\ d[3] = d[2] - 1
    BY <2>4, <2>5, <2>6
  <2>8. d[1] = Depth - opened
    BY <2>2 DEF OpensAndEnds
  <2>9. i \in 0 .. Depth - 1
    BY <1>1, <2>6, <2>7, <2>8
  <2> QED
    BY <1>1, <2>9 DEF TreeWith
<1>3. CASE ~LinkPending(call)
  <2>1. i \in 0 .. Depth - 1 \/ i = Depth
    BY <1>1
  <2> QED
    BY <1>1, <1>3, <2>1 DEF TreeWith, Visible
<1> QED
  BY <1>2, <1>3

(* MetaBase.h:95-128, MetaBase.cpp: in every transaction of a client, and  *)
(* in what any aborts would leave, each metamodel object leads to the      *)
(* root, whatever calls are made and however long they take.               *)
THEOREM EverythingBelongs ==
  ASSUME Plain
  PROVE  MetaSpec => []ContainmentTree
<1>1. MetaInit => Stands /\ TreeInv
  BY MetaInitSafe, TreeInit DEF Stands, MetaSafe
<1>2. (Stands /\ TreeInv) /\ [MetaNext]_metaVars => (Stands /\ TreeInv)'
  BY StandsStill, NothingAfterTheEnd, TreeKept, TreeStutters DEF Stands
<1>3. Stands /\ TreeInv => ContainmentTree
  BY TreeOfClient DEF Stands, ContainmentTree
<1> QED
  BY <1>1, <1>2, <1>3, PTL DEF MetaSpec

--------------------------------------------------------------------------------
(* Every call is one step of Metamodel.                                    *)

TreeLevels == [i \in 1 .. opened + 1 |-> StoreAt(i - 1)]

(* What the client's innermost transaction holds: a call in progress works *)
(* one level deeper.                                                       *)
Before == StoreAt(opened)

DescribedAt(u, b, t) ==
  /\ DOMAIN t = DOMAIN b
  /\ \A x \in DOMAIN b \ {u} : t[x] = b[x]
  /\ \A a \in Attr :
       IF a \in PointerAttr THEN t[u][a] = b[u][a] ELSE t[u][a] \in Contents

IsChild(b, t) ==
  \E u \in Uuid \ DOMAIN b, a \in PointerAttr, parent \in DOMAIN b :
    t = [x \in DOMAIN b \cup {u} |->
           IF x = u THEN [Blank EXCEPT ![a] = parent] ELSE b[x]]

(* The new object of a call has been created and not been linked.          *)
NewOne(steps, b, t) ==
  /\ steps[1].object \in Uuid \ DOMAIN b
  /\ steps[1].value \in DOMAIN b
  /\ t = With(b, steps[1].object, Blank)

(* What a call in progress has changed: a new object, linked or about to   *)
(* be, or plain attributes of the one object that it goes on to set.       *)
ChangedSoFar(steps, u, b, t) ==
  IF LinkPending(steps) THEN NewOne(steps, b, t)
  ELSE \/ DescribedAt(u, b, t)
       \/ steps # << >> /\ steps[1].do = "commit" /\ IsChild(b, t)

CallSoFar(steps) ==
  /\ \E u \in DOMAIN Before :
       SetsOnly(steps, u) /\ ChangedSoFar(steps, u, Before, Visible)
  /\ steps # << >> /\ steps[1].do = "create" => Visible = Before

OneStepInv == Alive => TreeWith(call) /\ CallSoFar(call)

LEMMA VisibleContents ==
  ASSUME TypeOK, NEW u \in DOMAIN Visible, NEW a \in Attr
  PROVE  Visible[u][a] \in Contents
<1>1. /\ Depth \in Nat /\ DOMAIN Visible = DOMAIN store
      /\ u \in Uuid /\ Deeper(Depth, <<u, a>>) = 0
  BY TopLevel DEF Visible, StoreAt, ObjectsAt, TypeOK
<1>2. Visible[u][a] = ValueAt(Depth, u, a)
  BY <1>1 DEF Visible, StoreAt
<1>3. CASE u \notin Held \/ objectHash[u][a] = << >>
  BY <1>1, <1>2, <1>3 DEF ValueAt, TypeOK
<1>4. CASE u \in Held /\ objectHash[u][a] # << >>
  <2>1. objectHash[u][a] \in Seq(Contents)
    BY <1>4 DEF TypeOK, Held
  <2>2. ValueAt(Depth, u, a) = objectHash[u][a][Len(objectHash[u][a])]
    <3>1. Len(objectHash[u][a]) - 0 = Len(objectHash[u][a])
      BY <2>1
    <3> QED
      BY <1>1, <1>4, <3>1 DEF ValueAt
  <2> QED
    BY <1>2, <1>4, <2>1, <2>2
<1> QED
  BY <1>3, <1>4

LEMMA NothingYet ==
  ASSUME TypeOK, NEW u \in DOMAIN Visible
  PROVE  DescribedAt(u, Visible, Visible)
BY VisibleContents DEF DescribedAt

(* One core call of a call: what it has changed so far, and what a client  *)
(* sees of it.                                                             *)
LEMMA CallGoesOn ==
  ASSUME Plain, Malformed = {}, AllInv, AllInv', Alive, Alive',
         NEW steps \in Seq(Step), steps # << >>, Allowed(steps[1]), TreeWith(steps),
         CallSoFar(steps), Does(steps[1]), call' = Tail(steps), opened' = opened,
         opened \in Nat,
         steps[1].do = "begin" => Depth = opened,
         steps[1].do \in {"create", "set", "commit"} => Depth = opened + 1,
         opened <= Depth
  PROVE  /\ CallSoFar(call)'
         /\ \A i \in 0 .. opened - 1 : StoreAt(i)' = StoreAt(i)
         /\ \/ Before' = Before
            \/ IsChild(Before, Before')
            \/ \E u \in DOMAIN Before : DescribedAt(u, Before, Before')
<1> DEFINE step == steps[1]
           b == Before
           v == Visible
<1>1. /\ step \in Step
      /\ Len(steps) \in Nat \ {0} /\ Len(call') = Len(steps) - 1
      /\ call' \in Seq(Step)
      /\ \A i \in 1 .. Len(steps) - 1 : call'[i] = steps[i + 1]
      /\ 1 \in 1 .. Len(steps)
  BY TailOfSteps
<1>2. PICK u \in DOMAIN b : SetsOnly(steps, u) /\ ChangedSoFar(steps, u, b, v)
  BY DEF CallSoFar
<1>3. TypeOK /\ TypeOK' /\ Depth \in Nat /\ StoreAt(Depth) = v
  BY ListDomain DEF AllInv, TInv, Visible
<1>4. SetsOnly(call, u)'
  <2>1. ASSUME NEW i \in 1 .. Len(call')
        PROVE  i + 1 \in 1 .. Len(steps) /\ call'[i] = steps[i + 1]
    BY <1>1
  <2> QED
    BY <1>2, <2>1 DEF SetsOnly
<1>5. LinkPending(call)' => step.do = "create"
  BY <1>1, LinkedGoesOn, StoreGrows DEF TreeWith
<1>6. call' # << >> /\ call'[1].do = "create" => step.do = "begin"
  <2>1. SUFFICES ASSUME call' # << >>, call'[1].do = "create"
                 PROVE  step.do = "begin"
    OBVIOUS
  <2>2. 2 \in 1 .. Len(steps) /\ call'[1] = steps[2]
    <3>1. Len(call') # 0
      BY <1>1, <2>1
    <3>2. 1 \in 1 .. Len(steps) - 1 /\ 1 + 1 = 2
      BY <1>1, <3>1
    <3> QED
      BY <1>1, <3>2
  <2>3. LinksWhatIsMade(steps, 2)
    BY <2>2 DEF TreeWith, Linked
  <2> QED
    BY <2>1, <2>2, <2>3 DEF LinksWhatIsMade
(* What has to be shown, when nothing is to be linked.                     *)
<1>7. ASSUME step.do # "create", \A i \in 0 .. opened - 1 : StoreAt(i)' = StoreAt(i),
             u \in DOMAIN Before',
             \/ DescribedAt(u, Before', v')
             \/ call' # << >> /\ call'[1].do = "commit" /\ IsChild(Before', v'),
             step.do = "begin" => v' = Before',
             \/ Before' = b
             \/ IsChild(b, Before')
             \/ DescribedAt(u, b, Before')
      PROVE  /\ CallSoFar(call)'
             /\ \A i \in 0 .. opened - 1 : StoreAt(i)' = StoreAt(i)
             /\ \/ Before' = Before
                \/ IsChild(Before, Before')
                \/ \E w \in DOMAIN Before : DescribedAt(w, Before, Before')
  <2>1. ~LinkPending(call)'
    BY <1>5, <1>7
  <2>2. ChangedSoFar(call, u, Before, Visible)'
    BY <1>7, <2>1 DEF ChangedSoFar, DescribedAt, IsChild
  <2>3. CallSoFar(call)'
    BY <1>4, <1>6, <1>7, <2>2 DEF CallSoFar, SetsOnly
  <2> QED
    BY <1>7, <2>3
<1>8. CASE step.do = "begin"
  <2>1. BeginTransaction /\ Depth = opened
    BY <1>1, <1>8, StepFields DEF Does, Performs, BeginTransaction
  <2>2. /\ Depth' = Depth + 1
        /\ \A i \in 0 .. Depth : StoreAt(i)' = StoreAt(i)
        /\ v' = v
    <3>1. /\ Depth' = Depth + 1
          /\ \A i \in 0 .. Depth : StoreAt(i)' = StoreAt(i)
          /\ \A n \in Nat : n = Depth' => StoreAt(n)' = Visible
      BY <1>3, <2>1, BeginStores DEF AllInv
    <3> QED
      BY <1>3, <3>1 DEF Visible
  <2>3. b = v /\ Before' = b /\ v' = b
    <3>1. opened \in 0 .. Depth
      BY <1>3, <2>1
    <3> QED
      BY <1>3, <2>1, <2>2, <3>1 DEF Before
  <2>4. DescribedAt(u, v, v)
    BY <1>3, <2>3, NothingYet
  <2>5. \A i \in 0 .. opened - 1 : StoreAt(i)' = StoreAt(i)
    BY <2>1, <2>2
  <2> HIDE DEF b, v
  <2> QED
    BY <1>7, <1>8, <2>3, <2>4, <2>5
<1>9. CASE step.do = "commit"
  <2>1. /\ CommitNested \/ CommitFinal
        /\ Depth = opened + 1
    BY <1>9 DEF Does, Performs, Ends, CommitDies, Dies, Alive
  <2>2. /\ Depth' = opened
        /\ \A i \in 0 .. opened - 1 : StoreAt(i)' = StoreAt(i)
        /\ Before' = v /\ v' = v
    <3>1. CASE CommitNested
      <4>1. /\ Depth' = Depth - 1
            /\ \A i \in 0 .. Depth - 2 : StoreAt(i)' = StoreAt(i)
            /\ \A n \in Nat : n = Depth' => StoreAt(n)' = Visible
        BY <1>3, <3>1, CommitNestedStores DEF AllInv
      <4>2. Depth' = opened /\ opened - 1 = Depth - 2
        BY <2>1, <4>1
      <4> QED
        BY <4>1, <4>2 DEF Before, Visible
    <3>2. CASE CommitFinal
      <4>1. Depth' = 0 /\ StoreAt(0)' = Visible /\ Depth = 1
        <5>1. Len(transactionList) = 1
          BY <3>2, <1>3 DEF CommitFinal, TypeOK
        <5> QED
          BY <1>3, <3>2, <5>1, CommitFinalStores DEF AllInv, SafeInv, Depth
      <4>2. opened = 0 /\ opened' = 0
        BY <2>1, <4>1
      <4> QED
        BY <4>1, <4>2 DEF Before, Visible
    <3> QED
      BY <2>1, <3>1, <3>2
  <2>3. ~LinkPending(steps)
    BY <1>9 DEF LinkPending
  <2>4. DescribedAt(u, b, v) \/ IsChild(b, v)
    BY <1>2, <2>3 DEF ChangedSoFar
  <2>5. u \in DOMAIN v
    BY <1>2, <2>4 DEF DescribedAt, IsChild
  <2>6. DescribedAt(u, v, v)
    BY <1>3, <2>5, NothingYet
  <2> HIDE DEF b, v
  <2> QED
    BY <1>7, <1>9, <2>2, <2>4, <2>5, <2>6
<1>10. CASE step.do = "create"
  <2> DEFINE x == step.object
  <2>1. Create(x) /\ x \in Uuid \ usedUuids /\ Depth = opened + 1 /\ v = b
    BY <1>1, <1>10, StepFields DEF Does, Performs, Allowed, CallSoFar
  <2>2. /\ Depth \in Nat \ {0} /\ Depth' = Depth
        /\ \A i \in 0 .. Depth - 1 : StoreAt(i)' = StoreAt(i)
        /\ v' = With(v, x, Blank)
        /\ DOMAIN v = DOMAIN store
        /\ x \notin DOMAIN store
    BY <2>1, CreateLevel
  <2>3. Before' = b /\ \A i \in 0 .. opened - 1 : StoreAt(i)' = StoreAt(i)
    <3>1. opened \in 0 .. Depth - 1 /\ \A i \in 0 .. opened - 1 : i \in 0 .. Depth - 1
      BY <2>1
    <3> QED
      BY <2>2, <3>1 DEF Before
  <2>4. /\ 3 <= Len(steps)
        /\ steps[2].do = "set" /\ steps[2].object = x
        /\ steps[2].attr \in PointerAttr /\ steps[2].value \in DOMAIN store
    <3>1. LinksWhatIsMade(steps, 1)
      BY <1>1 DEF TreeWith, Linked
    <3> QED
      BY <1>10, <3>1 DEF LinksWhatIsMade
  <2>5. call'[1] = steps[2] /\ call' # << >>
    <3>1. 1 \in 1 .. Len(steps) - 1 /\ 1 + 1 = 2 /\ Len(call') # 0
      BY <1>1, <2>4
    <3> QED
      BY <1>1, <3>1
  <2>6. LinkPending(call)'
    BY <2>4, <2>5 DEF LinkPending
  <2>7. NewOne(call, Before, Visible)'
    <3>1. call'[1].object = x /\ call'[1].value \in DOMAIN b /\ x \in Uuid \ DOMAIN b
      BY <2>1, <2>2, <2>4, <2>5
    <3>2. Visible' = With(b, x, Blank)
      BY <2>1, <2>2
    <3> HIDE DEF b, x
    <3> QED
      BY <2>3, <3>1, <3>2 DEF NewOne
  <2>8. ChangedSoFar(call, u, Before, Visible)'
    BY <2>6, <2>7 DEF ChangedSoFar
  <2>9. CallSoFar(call)'
    BY <1>2, <1>4, <1>6, <1>10, <2>3, <2>8 DEF CallSoFar, SetsOnly
  <2> QED
    BY <2>3, <2>9
<1>11. CASE step.do = "set" /\ LinkPending(steps)
  <2> DEFINE x == step.object
             a == step.attr
             new == step.value
  <2>1. NewOne(steps, b, v) /\ a \in PointerAttr /\ Depth = opened + 1
    BY <1>2, <1>11 DEF ChangedSoFar, LinkPending
  <2>2. /\ Depth \in Nat \ {0} /\ Depth' = Depth
        /\ \A i \in 0 .. Depth - 1 : StoreAt(i)' = StoreAt(i)
        /\ v' = [v EXCEPT ![x] = [@ EXCEPT ![a] = new]]
        /\ steps[2].do = "commit" /\ Len(steps) >= 2
    BY <1>11, LinkSets DEF TreeWith, HalfMade
  <2>3. Before' = b /\ \A i \in 0 .. opened - 1 : StoreAt(i)' = StoreAt(i)
    <3>1. opened \in 0 .. Depth - 1 /\ \A i \in 0 .. opened - 1 : i \in 0 .. Depth - 1
      BY <2>1
    <3> QED
      BY <2>2, <3>1 DEF Before
  <2>4. call'[1].do = "commit" /\ call' # << >>
    <3>1. 1 \in 1 .. Len(steps) - 1 /\ 1 + 1 = 2 /\ Len(call') # 0
      BY <1>1, <2>2
    <3> QED
      BY <1>1, <2>2, <3>1
  <2>5. /\ x \in Uuid \ DOMAIN b /\ new \in DOMAIN b /\ v = With(b, x, Blank)
    BY <2>1 DEF NewOne
  <2> HIDE DEF b, v, x, a, new
  <2>6. v' = [y \in DOMAIN b \cup {x} |-> IF y = x THEN [Blank EXCEPT ![a] = new] ELSE b[y]]
    BY <2>2, <2>5 DEF With
  <2>7. IsChild(b, v')
    BY <2>1, <2>5, <2>6 DEF IsChild
  <2> QED
    BY <1>2, <1>7, <1>11, <2>3, <2>4, <2>7
<1>12. CASE step.do = "set" /\ ~LinkPending(steps)
  <2> DEFINE a == step.attr
             new == step.value
  <2>1. /\ step.object = u /\ DescribedAt(u, b, v) /\ Depth = opened + 1
        /\ u \in Uuid /\ a \in Attr \ PointerAttr /\ new \in Contents
        /\ SetOrKeep(u, a, new)
    <3>1. a \in Attr \ PointerAttr /\ step.object \in Uuid /\ new \in Contents
      BY <1>1, <1>12, StepFields DEF LinkPending
    <3>2. step.object = u
      BY <1>1, <1>2, <1>12, <3>1 DEF SetsOnly
    <3>3. DescribedAt(u, b, v)
      BY <1>2, <1>12 DEF ChangedSoFar
    <3>4. SetOrKeep(step.object, a, new)
      BY <1>12 DEF Does, Performs
    <3> QED
      BY <1>12, <3>1, <3>2, <3>3, <3>4
  <2> HIDE DEF a, new
  <2>2. /\ \A i \in 0 .. Depth - 1 : StoreAt(i)' = StoreAt(i)
        /\ v' = v \/ v' = [v EXCEPT ![u] = [@ EXCEPT ![a] = new]]
    <3>1. CASE Set(u, a, new)
      BY <2>1, <3>1, SetLevel
    <3>2. CASE GetOrKeep(u, a)
      <4>1. KeepsLevels
        BY <2>1, <3>2, GetLevels
      <4>2. Depth \in 0 .. Depth /\ \A i \in 0 .. Depth - 1 : i \in 0 .. Depth
        BY <1>3
      <4> QED
        BY <4>1, <4>2 DEF KeepsLevels, Visible
    <3> QED
      BY <2>1, <3>1, <3>2 DEF SetOrKeep
  <2>3. Before' = b /\ \A i \in 0 .. opened - 1 : StoreAt(i)' = StoreAt(i)
    <3>1. opened \in 0 .. Depth - 1 /\ \A i \in 0 .. opened - 1 : i \in 0 .. Depth - 1
      BY <1>3, <2>1
    <3> QED
      BY <2>2, <3>1 DEF Before
  <2>4. DOMAIN v[u] = Attr /\ u \in DOMAIN v
    <3>1. u \in DOMAIN v
      BY <1>2, <2>1 DEF DescribedAt
    <3> QED
      BY <3>1 DEF Visible, StoreAt
  <2> HIDE DEF b, v
  <2>5. DescribedAt(u, b, v')
    BY <2>1, <2>2, <2>4 DEF DescribedAt
  <2> QED
    BY <1>2, <1>7, <1>12, <2>3, <2>5
<1>13. CASE step.do \notin {"begin", "commit", "create", "set"}
  <2>1. KeepsLevels
    <3>1. CASE step.do = "release"
      BY <1>1, <3>1, ReleasesOne, ReleaseLevels
    <3>2. CASE step.do # "release"
      BY <1>1, <1>13, <3>2, OthersKeepLevels
    <3> QED
      BY <3>1, <3>2
  <2>2. /\ opened \in 0 .. Depth /\ Depth \in 0 .. Depth
        /\ \A i \in 0 .. opened - 1 : i \in 0 .. Depth
    BY <1>3
  <2>3. Before' = b /\ v' = v /\ \A i \in 0 .. opened - 1 : StoreAt(i)' = StoreAt(i)
    BY <2>1, <2>2 DEF KeepsLevels, Before, Visible
  <2>4. ~LinkPending(steps) /\ DescribedAt(u, b, v)
    BY <1>2, <1>13 DEF LinkPending, ChangedSoFar
  <2> HIDE DEF b, v
  <2> QED
    BY <1>2, <1>7, <1>13, <2>3, <2>4
<1> QED
  BY <1>8, <1>9, <1>10, <1>11, <1>12, <1>13

LEMMA TreeLevelsAre ==
  ASSUME opened \in Nat
  PROVE  /\ opened + 1 \in Nat \ {0}
         /\ IsList(TreeLevels, opened + 1) /\ Len(TreeLevels) = opened + 1
         /\ \A i \in 1 .. opened + 1 : TreeLevels[i] = StoreAt(i - 1)
         /\ Last(TreeLevels) = Before
<1>1. opened + 1 \in Nat \ {0} /\ opened + 1 \in 1 .. opened + 1 /\ opened + 1 - 1 = opened
  OBVIOUS
<1>2. IsList(TreeLevels, opened + 1)
  BY DEF TreeLevels, IsList
<1>3. /\ Len(TreeLevels) = opened + 1
      /\ \A i \in 1 .. opened + 1 : TreeLevels[i] = StoreAt(i - 1)
  BY <1>1 DEF TreeLevels
<1>4. Last(TreeLevels) = TreeLevels[opened + 1]
  BY <1>1, <1>2, IsFront
<1> QED
  BY <1>1, <1>2, <1>3, <1>4 DEF Before

LEMMA TreeOperators ==
  \A s : Tree!Last(s) = Last(s) /\ Tree!Front(s) = Front(s)
BY DEF Tree!Last, Last, Tree!Front, Front

(* What a client sees of a call is a step of Metamodel, or nothing.        *)
LEMMA CallRefines ==
  ASSUME opened \in Nat, opened' = opened,
         \A i \in 0 .. opened - 1 : StoreAt(i)' = StoreAt(i),
         \/ Before' = Before
         \/ IsChild(Before, Before')
         \/ \E u \in DOMAIN Before : DescribedAt(u, Before, Before')
  PROVE  [Tree!MetaNext]_TreeLevels
<1> DEFINE n == opened + 1
           s == TreeLevels
           t == TreeLevels'
<1>1. /\ n \in Nat \ {0} /\ IsList(s, n) /\ Len(s) = n /\ Last(s) = Before
      /\ IsList(t, n) /\ Len(t) = n /\ Last(t) = Before'
      /\ s[n] = Before /\ t[n] = Before'
  <2>1. /\ n \in Nat \ {0} /\ IsList(s, n) /\ Len(s) = n /\ Last(s) = Before
    BY TreeLevelsAre
  <2>2. IsList(t, n) /\ Len(t) = n
    BY <2>1 DEF TreeLevels, IsList
  <2>3. n \in 1 .. n /\ n - 1 = opened
    OBVIOUS
  <2>4. s[n] = Before /\ t[n] = Before'
    BY <2>3 DEF TreeLevels, Before
  <2> HIDE DEF s, t, n
  <2>5. Last(t) = t[n]
    BY <2>1, <2>2, IsFront
  <2> QED
    BY <2>1, <2>2, <2>4, <2>5
<1>2. \A i \in 1 .. n - 1 : t[i] = s[i]
  <2>1. \A i \in 1 .. n - 1 : i \in 1 .. n /\ i - 1 \in 0 .. opened - 1
    OBVIOUS
  <2> QED
    BY <2>1 DEF TreeLevels
<1>3. CASE Before' = Before
  <2>1. \A i \in 1 .. n : t[i] = s[i]
    <3>1. \A i \in 1 .. n : i = n \/ i \in 1 .. n - 1
      OBVIOUS
    <3> HIDE DEF s, t, n
    <3> QED
      BY <1>1, <1>2, <1>3, <3>1
  <2>2. t = s
    <3> HIDE DEF s, t, n
    <3> QED
      BY <1>1, <2>1 DEF IsList
  <2> QED
    BY <2>2
<1>4. CASE IsChild(Before, Before') \/ \E u \in DOMAIN Before : DescribedAt(u, Before, Before')
  <2>1. Front(t) = Front(s)
    <3> DEFINE f == Front(s)
               g == Front(t)
    <3> HIDE DEF s, t, n
    <3>1. /\ IsList(f, n - 1) /\ \A i \in 1 .. n - 1 : f[i] = s[i]
          /\ IsList(g, n - 1) /\ \A i \in 1 .. n - 1 : g[i] = t[i]
      BY <1>1, IsFront
    <3> HIDE DEF f, g
    <3>2. f = g
      BY <1>2, <3>1 DEF IsList
    <3> QED
      BY <3>2 DEF f, g
  <2>2. Tree!Child(Last(s), Last(t)) \/ Tree!Described(Last(s), Last(t))
    <3>1. Tree!Child(Before, Before') \/ Tree!Described(Before, Before')
      BY <1>4 DEF IsChild, DescribedAt, Tree!Child, Tree!Described
    <3> HIDE DEF s, t, n
    <3> QED
      BY <1>1, <3>1
  <2>3. Len(t) = Len(s)
    BY <1>1
  <2>4. Tree!Call
    BY <2>1, <2>2, <2>3, TreeOperators DEF Tree!Call, TreeLevels
  <2> QED
    BY <2>4 DEF Tree!MetaNext
<1> QED
  BY <1>3, <1>4

LEMMA SeesNothing ==
  ASSUME opened \in Nat, opened' = opened, opened <= Depth, Depth \in Nat, KeepsLevels
  PROVE  /\ \A i \in 0 .. opened - 1 : StoreAt(i)' = StoreAt(i)
         /\ Before' = Before
<1>1. opened \in 0 .. Depth /\ \A i \in 0 .. opened - 1 : i \in 0 .. Depth
  OBVIOUS
<1> QED
  BY <1>1 DEF KeepsLevels, Before

(* When the process dies nothing else changes.                             *)
LEMMA DyingKeepsLevels ==
  ASSUME [Next]_vars \/ Dies("assert"), Alive, ~Alive'
  PROVE  KeepsLevels
<1>1. ASSUME [Next]_vars
      PROVE  UNCHANGED <<store, objectHash, transactionList>>
  BY <1>1
  DEF Alive, Next, vars, BeginTransaction, Begin, CommitNested, CommitFinal, CommitDies,
      AbortTransaction, AbortDies, Object, Fetch, CreateObject, Create, DeleteObject,
      Release, GiveUp, GetAttributeValue, Get, GetCollectionValue, GetCollection,
      SetAttributeValue, Set, Pushed, SetCollectionValue, Close, Destroy, Dies
<1>2. UNCHANGED <<store, objectHash, transactionList>>
  BY <1>1 DEF Dies
<1> QED
  BY <1>2, SameStoreLevels

(* Where the call in progress stands.                                      *)
LEMMA WhereItStands ==
  ASSUME MetaSafe, Alive
  PROVE  /\ opened \in Nat /\ Depth \in Nat /\ opened <= Depth
         /\ call # << >> =>
              /\ call[1].do = "begin" => Depth = opened
              /\ call[1].do \in {"create", "set", "commit"} => Depth = opened + 1
<1>1. /\ Plan(call) /\ opened \in Nat /\ Depth \in Nat /\ opened <= Depth
      /\ call \in Seq(Step)
  BY ListDomain, ConstantsAssumption DEF MetaSafe, MetaInv, TInv, Plan, ClientMayWrite
<1>2. SUFFICES ASSUME call # << >>
               PROVE  /\ call[1].do = "begin" => Depth = opened
                      /\ call[1].do \in {"create", "set", "commit"} => Depth = opened + 1
  BY <1>1
<1>3. PICK d \in [1 .. Len(call) + 1 -> 0 .. 1] : OpensAndEnds(call, d)
  BY <1>1 DEF Plan
<1>4. 1 \in 1 .. Len(call) /\ 1 \in 1 .. Len(call) + 1 /\ 2 \in 1 .. Len(call) + 1 /\ 1 + 1 = 2
  BY <1>1, <1>2
<1>5. /\ d[2] = d[1] + Effect(call[1]) /\ d[1] \in 0 .. 1 /\ d[2] \in 0 .. 1
      /\ d[1] = Depth - opened
      /\ call[1].do \in {"create", "set"} => d[1] = 1
  BY <1>3, <1>4 DEF OpensAndEnds
<1>6. CASE call[1].do = "begin"
  <2>1. Effect(call[1]) = 1
    BY <1>6 DEF Effect
  <2> QED
    BY <1>1, <1>5, <1>6, <2>1
<1>7. CASE call[1].do = "commit"
  <2>1. Effect(call[1]) = -1
    BY <1>7 DEF Effect
  <2> QED
    BY <1>1, <1>5, <1>7, <2>1
<1>8. CASE call[1].do \notin {"begin", "commit"}
  BY <1>1, <1>5, <1>8
<1> QED
  BY <1>6, <1>7, <1>8

LEMMA CallStepRefines ==
  ASSUME Plain, Malformed = {}, MetaSafe, Alive' => MetaSafe', OneStepInv, CallStep
  PROVE  /\ [Tree!MetaNext]_TreeLevels
         /\ Alive' => CallSoFar(call)'
<1>1. /\ Alive /\ call # << >> /\ call \in Seq(Step) /\ AllInv /\ (Alive' => AllInv')
      /\ TreeWith(call) /\ CallSoFar(call) /\ opened' = opened
      /\ call[1] \in Step /\ Head(call) = call[1] /\ Allowed(call[1])
  BY TailOfSteps DEF CallStep, MetaSafe, MetaInv, OneStepInv, Plan
<1>2. /\ opened \in Nat /\ Depth \in Nat /\ opened <= Depth
      /\ call[1].do = "begin" => Depth = opened
      /\ call[1].do \in {"create", "set", "commit"} => Depth = opened + 1
  BY <1>1, WhereItStands
<1>3. CASE ~Alive'
  <2>1. [Next]_vars \/ Dies("assert")
    BY SafeCallStep
  <2> QED
    BY <1>1, <1>2, <1>3, <2>1, DyingKeepsLevels, SeesNothing, CallRefines
<1>4. CASE Alive' /\ \E u \in Missing(Head(call)) : FetchOrKeep(u) /\ call' = call
  <2>1. PICK u : FetchOrKeep(u) /\ u \in Missing(call[1])
    BY <1>1, <1>4
  <2>2. call[1].do = "gather"
    BY <2>1 DEF Missing
  <2>3. KeepsLevels
    BY <1>1, <1>4, <2>1, FetchLevels
  <2>4. Before' = Before /\ \A i \in 0 .. opened - 1 : StoreAt(i)' = StoreAt(i)
    BY <1>1, <1>2, <2>3, SeesNothing
  <2>5. Visible' = Visible
    <3>1. Depth \in 0 .. Depth
      BY <1>2
    <3> QED
      BY <2>3, <3>1 DEF KeepsLevels, Visible
  <2>6. CallSoFar(call)'
    <3>1. ~LinkPending(call) /\ call[1].do # "commit" /\ call[1].do # "create"
      BY <2>2 DEF LinkPending
    <3>2. PICK w \in DOMAIN Before : SetsOnly(call, w) /\ DescribedAt(w, Before, Visible)
      BY <1>1, <3>1 DEF CallSoFar, ChangedSoFar
    <3>3. SetsOnly(call, w)' /\ DescribedAt(w, Before, Visible)' /\ w \in DOMAIN Before'
      BY <1>4, <2>4, <2>5, <3>2 DEF SetsOnly, DescribedAt
    <3>4. ~LinkPending(call)' /\ call'[1].do # "create"
      BY <1>4, <3>1 DEF LinkPending
    <3> QED
      BY <3>3, <3>4 DEF CallSoFar, ChangedSoFar, SetsOnly, DescribedAt
  <2> QED
    BY <1>1, <1>2, <2>4, <2>6, CallRefines
<1>5. CASE Alive' /\ /\ IF Head(call).do = "gather" THEN UNCHANGED vars
                        ELSE Performs(Head(call))
                     /\ call' = Tail(call)
  <2>1. Does(call[1])
    BY <1>1, <1>5 DEF Does
  <2> QED
    BY <1>1, <1>2, <1>5, <2>1, CallGoesOn, CallRefines
<1> QED
  BY <1>3, <1>4, <1>5 DEF CallStep

LEMMA ACallRefines ==
  ASSUME Plain, Malformed = {}, MetaSafe, Alive' => MetaSafe', OneStepInv, MetaNext,
         ACallBegins
  PROVE  /\ [Tree!MetaNext]_TreeLevels
         /\ Alive' => CallSoFar(call)'
<1>1. PICK steps \in Seq(Step) : BeginsWith(steps)
  BY DEF ACallBegins
<1>2. /\ Alive /\ Ready /\ AllInv /\ (Alive' => AllInv')
      /\ call' = Tail(steps) /\ steps # << >> /\ steps[1] \in Step /\ Head(steps) = steps[1] /\ opened' = opened
      /\ MetaInv /\ TypeOK
  BY <1>1, TailOfSteps DEF MetaSafe, BeginsWith, Calls, Ready, MetaInv, TInv
<1>3. Does(steps[1]) /\ Allowed(steps[1]) /\ steps[1].do \notin {"create", "set", "commit"}
  BY <1>1, <1>2 DEF BeginsWith, Calls, Does
<1>4. Depth \in Nat /\ Depth = opened
  BY <1>2, ReadyIsLevel
<1>5. ~LinkPending(steps)
  BY <1>3 DEF LinkPending
<1>6. TreeWith(steps)
  BY <1>1, <1>2, <1>5, IdleTree DEF OneStepInv, TreeWith, BeginsWith
<1>7. Before = Visible /\ DOMAIN Visible = DOMAIN store
  BY <1>2, <1>4, TopLevel DEF Before, Visible, StoreAt, ObjectsAt
<1>8. PICK u \in DOMAIN store : SetsOnly(steps, u)
  BY <1>1 DEF BeginsWith
<1>9. CallSoFar(steps)
  <2>1. DescribedAt(u, Visible, Visible)
    BY <1>2, <1>7, NothingYet
  <2> QED
    BY <1>3, <1>5, <1>7, <1>8, <2>1 DEF CallSoFar, ChangedSoFar
<1>10. CASE ~Alive'
  <2>1. [Next]_vars \/ Dies("assert")
    BY MetaStepIsSafe
  <2> QED
    BY <1>2, <1>4, <1>10, <2>1, DyingKeepsLevels, SeesNothing, CallRefines
<1>11. CASE Alive'
  BY <1>2, <1>3, <1>4, <1>6, <1>9, <1>11, CallGoesOn, CallRefines
<1> QED
  BY <1>10, <1>11

LEMMA IdleSoFar ==
  ASSUME MetaSafe, Ready, Root \in DOMAIN store
  PROVE  CallSoFar(call) /\ TreeLevels = Levels
<1>1. /\ Depth \in Nat /\ Depth = opened /\ TypeOK
  BY ReadyIsLevel DEF MetaSafe, AllInv, TInv
<1>2. Before = Visible /\ DOMAIN Visible = DOMAIN store
  BY <1>1, TopLevel DEF Before, Visible, StoreAt, ObjectsAt
<1>3. DescribedAt(Root, Visible, Visible)
  BY <1>1, <1>2, NothingYet
<1>4. call = << >> /\ 1 .. Len(call) = {}
  BY DEF Ready
<1>5. SetsOnly(call, Root) /\ ~LinkPending(call)
  BY <1>4 DEF SetsOnly, LinkPending
<1>6. CallSoFar(call)
  BY <1>2, <1>3, <1>4, <1>5 DEF CallSoFar, ChangedSoFar
<1> QED
  BY <1>1, <1>6 DEF TreeLevels, Levels

(* Transactions of the client.                                             *)
LEMMA BetweenCallsRefines ==
  ASSUME Plain, Malformed = {}, MetaSafe, Alive' => MetaSafe', TreeInv, TreeInv', OneStepInv,
         MetaBegin \/ MetaCommit \/ MetaAbort \/ Delete
  PROVE  /\ [Tree!MetaNext]_TreeLevels
         /\ Alive' => CallSoFar(call)'
<1>n. [Next]_vars
  BY BetweenCallsIsCore
<1>a. AllInv' /\ TypeOK'
  BY <1>n, RootStays DEF AllInv, TInv
<1>1. /\ Ready /\ Alive /\ call' = call /\ AllInv /\ AllInv' /\ TInv /\ TypeOK'
      /\ opened \in Nat /\ Depth \in Nat /\ Depth = opened
      /\ StoreInv /\ ListsAreSafe /\ EntriesBacked
  BY <1>a, ReadyIsLevel
  DEF MetaBegin, MetaCommit, MetaAbort, Delete, Ready, MetaSafe, AllInv, SafeInv, TInv
<1>2. Root \in DOMAIN store /\ TreeLevels = Levels
  BY <1>1, RootIsThere, IdleSoFar
<1>3. Alive'
  <2>1. NeverDies'
    BY <1>1 DEF AllInv, SafeInv, NeverDies
  <2>2. fault' = fault \/ fault' \in {CommitFault, AbortFault} \ {"none"}
    BY DEF MetaBegin, MetaCommit, MetaAbort, Delete, Begin, Ends, CommitNested, CommitFinal,
           CommitDies, AbortTransaction, AbortDies, GiveUp, Dies
  <2>3. CommitFault # "closed" /\ AbortFault # "closed"
    BY DEF CommitFault, AbortFault
  <2>4. fault = "none"
    BY <1>1 DEF Alive
  <2> QED
    BY <2>1, <2>2, <2>3, <2>4 DEF NeverDies, Alive
<1>4. Ready' /\ MetaSafe' /\ TreeInv'
  BY <1>1, <1>3 DEF Ready
<1>5. CallSoFar(call)' /\ TreeLevels' = Levels'
  <2>1. (MetaSafe /\ TreeInv /\ Ready => Root \in DOMAIN store)'
    BY RootIsThere, PTL
  <2>2. (MetaSafe /\ Ready /\ Root \in DOMAIN store
           => CallSoFar(call) /\ TreeLevels = Levels)'
    BY IdleSoFar, PTL
  <2> QED
    BY <1>4, <2>1, <2>2
<1>6. CASE MetaBegin
  <2>1. Levels' = Append(Levels, Last(Levels))
    BY <1>1, <1>6, BeginRefines DEF MetaBegin, BeginTransaction
  <2>2. TreeLevels' = Append(TreeLevels, Last(TreeLevels))
    BY <1>2, <1>5, <2>1
  <2> QED
    BY <1>5, <2>2, TreeOperators DEF Tree!MetaNext, Tree!BeginTransaction, TreeLevels
<1>7. CASE MetaCommit
  <2>1. CommitNested \/ CommitFinal
    BY <1>3, <1>7 DEF MetaCommit, Ends, CommitDies, Dies, Alive
  <2>2. Len(Levels) > 1 /\ Levels' = Append(Front(Front(Levels)), Last(Levels))
    BY <1>1, <2>1, CommitRefines
  <2>3. /\ Len(TreeLevels) > 1
        /\ TreeLevels' = Append(Front(Front(TreeLevels)), Last(TreeLevels))
    BY <1>2, <1>5, <2>2
  <2> QED
    BY <1>5, <2>3, TreeOperators
    DEF Tree!MetaNext, Tree!CommitTransaction, Tree!InTransaction, TreeLevels
<1>8. CASE MetaAbort
  <2>1. AbortTransaction
    BY <1>3, <1>8 DEF MetaAbort, AbortDies, Dies, Alive
  <2>2. Len(Levels) > 1 /\ Levels' = Front(Levels)
    BY <1>1, <2>1, AbortRefines
  <2>3. Len(TreeLevels) > 1 /\ TreeLevels' = Front(TreeLevels)
    BY <1>2, <1>5, <2>2
  <2> QED
    BY <1>5, <2>3, TreeOperators
    DEF Tree!MetaNext, Tree!AbortTransaction, Tree!InTransaction, TreeLevels
<1>9. CASE Delete
  <2>1. Release /\ opened' = opened
    BY <1>9 DEF Delete, Release
  <2>2. KeepsLevels
    BY <1>1, <2>1, ReleaseLevels
  <2>3. opened <= Depth
    BY <1>1
  <2> QED
    BY <1>1, <1>5, <2>1, <2>2, <2>3, SeesNothing, CallRefines
<1> QED
  BY <1>6, <1>7, <1>8, <1>9

LEMMA MetaNextRefines ==
  ASSUME Plain, Malformed = {}, MetaSafe, Alive' => MetaSafe', OneStepInv, MetaNext
  PROVE  OneStepInv' /\ [Tree!MetaNext]_TreeLevels
<1>1. TreeInv /\ TreeInv'
  BY TreeKept DEF OneStepInv, TreeInv
<1>2. /\ [Tree!MetaNext]_TreeLevels
      /\ Alive' => CallSoFar(call)'
  BY <1>1, MetaNextCases, CallStepRefines, ACallRefines, BetweenCallsRefines
<1> QED
  BY <1>1, <1>2 DEF OneStepInv, TreeInv

LEMMA MetaStutterRefines ==
  ASSUME OneStepInv, UNCHANGED metaVars
  PROVE  OneStepInv' /\ [Tree!MetaNext]_TreeLevels
<1>1. /\ store' = store /\ objectHash' = objectHash /\ transactionList' = transactionList
      /\ call' = call /\ fault' = fault /\ opened' = opened
  BY DEF metaVars, vars
<1>2. Depth' = Depth /\ \A i : StoreAt(i)' = StoreAt(i)
  BY <1>1
  DEF StoreAt, ObjectsAt, CreatedDeeper, ValueAt, Deeper, DeeperIn, Counts, Held, Depth
<1>3. Visible' = Visible /\ Before' = Before
  BY <1>1, <1>2 DEF Visible, Before
<1>4. \A i : StoreAt(i - 1)' = StoreAt(i - 1)
  BY <1>2
<1>5. TreeLevels' = TreeLevels
  BY <1>1, <1>4 DEF TreeLevels
<1>6. TreeInv'
  BY TreeStutters DEF OneStepInv, TreeInv
<1>7. CallSoFar(call)' <=> CallSoFar(call)
  BY <1>1, <1>3
  DEF CallSoFar, ChangedSoFar, NewOne, DescribedAt, IsChild, SetsOnly, LinkPending
<1> QED
  BY <1>1, <1>5, <1>6, <1>7 DEF OneStepInv, TreeInv, Alive

LEMMA MetaInitRefines ==
  ASSUME MetaInit
  PROVE  OneStepInv /\ Tree!Init
<1>1. /\ Init /\ opened = 0 /\ Depth = 0 /\ transactionList = << >> /\ TypeOK
      /\ Root \in DOMAIN store /\ call \in Seq(Step)
  BY MetaInitKeeps DEF MetaInit, Init, Depth, MetaInv, TInv
<1>2. Nested!Init
  BY <1>1, InitRefines
<1>3. Levels = TreeLevels
  BY <1>1 DEF Levels, TreeLevels
<1>4. Tree!Init
  BY <1>2, <1>3 DEF Nested!Init, Tree!Init, Levels, TreeLevels
<1>5. Before = Visible /\ DOMAIN Visible = DOMAIN store
  BY <1>1, TopLevel DEF Before, Visible, StoreAt, ObjectsAt
<1>6. DescribedAt(Root, Visible, Visible)
  BY <1>1, <1>5, NothingYet
<1>7. SetsOnly(call, Root)
  BY InitDescribes DEF Describes, SetsRoot, SetsOnly
<1>8. ~LinkPending(call) /\ (call # << >> => call[1].do # "create")
  <2>1. call # << >> => 1 \in 1 .. Len(call)
    BY <1>1, TailOfSteps
  <2> QED
    BY <2>1, InitDescribes, ConstantsAssumption DEF Describes, SetsRoot, LinkPending
<1>9. CallSoFar(call)
  BY <1>1, <1>5, <1>6, <1>7, <1>8 DEF CallSoFar, ChangedSoFar
<1> QED
  BY <1>4, <1>9, TreeInit DEF OneStepInv, TreeInv

(* MetaBase.cpp, MetaProject.cpp: for its client a call of the metamodel   *)
(* layer is one step of the client's transaction: it makes an object under *)
(* a parent, changes plain attributes of one object, or nothing; the core  *)
(* calls and the nested transaction it is made of do not show.             *)
THEOREM CallsAreOneStep ==
  ASSUME Plain, Malformed = {}
  PROVE  MetaSpec => ImplementsMetamodel
<1>1. MetaInit => Stands /\ OneStepInv /\ Tree!Init
  BY MetaInitSafe, MetaInitRefines DEF Stands, MetaSafe
<1>2. (Stands /\ OneStepInv) /\ [MetaNext]_metaVars
        => (Stands /\ OneStepInv)' /\ [Tree!MetaNext]_TreeLevels
  <2> SUFFICES ASSUME Stands, OneStepInv, [MetaNext]_metaVars
               PROVE  (Stands /\ OneStepInv)' /\ [Tree!MetaNext]_TreeLevels
    OBVIOUS
  <2>1. Stands'
    BY StandsStill
  <2>2. CASE MetaNext
    BY <2>1, <2>2, NothingAfterTheEnd, MetaNextRefines DEF Stands
  <2>3. CASE UNCHANGED metaVars
    BY <2>1, <2>3, MetaStutterRefines
  <2> QED
    BY <2>2, <2>3
<1> QED
  BY <1>1, <1>2, PTL DEF MetaSpec, ImplementsMetamodel, Tree!MetaSpec, TreeLevels

================================================================================
