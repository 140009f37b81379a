------------------------------- MODULE MetaProject -----------------------------
(***************************************************************************)
(* The metamodel layer over CoreProject: MetaProject, MetaBase and the     *)
(* accessors of all kinds of metamodel objects (Meta/).                    *)
(*                                                                         *)
(* A call of this layer is a sequence of core calls: it opens a core       *)
(* transaction, reads or writes, and commits it, inside whatever the       *)
(* client has open.  The variable call is what the call in progress has    *)
(* still to do, so that each step is one core call and a client sees only  *)
(* the states between calls.                                               *)
(*                                                                         *)
(* CommitTransaction (MetaProject.cpp:137) sets a date when the core       *)
(* project is dirty, which it never is: nothing calls                      *)
(* CoreProject::MarkDirty, and the step is left out.                       *)
(***************************************************************************)
EXTENDS CoreProject

VARIABLES
  call,    \* the core calls that the call in progress has still to make
  opened   \* the transactions the client has opened and not ended

metaVars == <<vars, call, opened>>

(* The attributes are those of a table that is built once.                 *)
ASSUME TableAssumption == IsFiniteSet(ValueAttr)

--------------------------------------------------------------------------------
(* Core calls.                                                             *)

Opens(readOnly) == [do |-> "begin", readOnly |-> readOnly]
Commits == [do |-> "commit"]
Creates(u) == [do |-> "create", object |-> u]
Sets(u, a, new) == [do |-> "set", object |-> u, attr |-> a, value |-> new]
Gets(u, a) == [do |-> "get", object |-> u, attr |-> a]
Fetches(u) == [do |-> "fetch", object |-> u]
Follows(u, a) == [do |-> "follow", object |-> u, attr |-> a]
Collects(u, a) == [do |-> "collect", object |-> u, attr |-> a]
Gathers(u, a) == [do |-> "gather", object |-> u, attr |-> a]
GivesUp(u) == [do |-> "release", object |-> u]
Closes == [do |-> "close"]

Step ==
  [do : {"begin"}, readOnly : BOOLEAN]
  \cup [do : {"commit", "close"}]
  \cup [do : {"create", "fetch", "release"}, object : Uuid]
  \cup [do : {"set"}, object : Uuid, attr : Attr, value : Contents]
  \cup [do : {"get"}, object : Uuid, attr : Attr]
  \cup [do : {"follow", "collect", "gather"}, object : Uuid, attr : PointerAttr]

(* An object that is held is not fetched again.                            *)
FetchOrKeep(u) ==
  IF u \in Held \cup {Null} THEN UNCHANGED vars ELSE Fetch(u)

(* A read where nothing may be written is refused, and the error goes to   *)
(* the caller.                                                             *)
GetOrKeep(u, a) ==
  IF InWriteTransaction /\ objectHash[u][a] = << >> THEN Get(u, a) ELSE UNCHANGED vars

(* The only reader of a list of back-pointers asserts that it is not       *)
(* refused.                                                                *)
GetCollectionOrKeep(u, a) ==
  IF ~InWriteTransaction THEN Dies("assert")
  ELSE IF collections[u][a] = << >> THEN GetCollection(u, a) ELSE UNCHANGED vars

(* Setting what an attribute already holds only loads it.                  *)
SetOrKeep(u, a, new) ==
  IF Changes(a, new, Last(Loaded(u, a))) THEN Set(u, a, new) ELSE GetOrKeep(u, a)

Ends == CommitNested \/ CommitFinal \/ CommitDies

Performs(step) ==
  \/ step.do = "begin" /\ Begin(step.readOnly)
  \/ step.do = "commit" /\ Ends
  \/ step.do = "create" /\ Create(step.object)
  \/ step.do = "set" /\ SetOrKeep(step.object, step.attr, step.value)
  \/ step.do = "get" /\ GetOrKeep(step.object, step.attr)
  \/ step.do = "fetch" /\ FetchOrKeep(step.object)
  \/ step.do = "follow" /\ FetchOrKeep(Last(objectHash[step.object][step.attr]))
  \/ step.do = "collect" /\ GetCollectionOrKeep(step.object, step.attr)
  \/ step.do = "release" /\ GiveUp(step.object)
  \/ step.do = "close" /\ Destroy

(* Objects are fetched one by one until all in the list are held.          *)
Missing(step) ==
  IF step.do = "gather" THEN Last(collections[step.object][step.attr]) \ Held ELSE {}

CallStep ==
  /\ Alive
  /\ call # << >>
  /\ \/ /\ \E u \in Missing(Head(call)) : FetchOrKeep(u)
        /\ call' = call
     \/ /\ Missing(Head(call)) = {}
        /\ IF Head(call).do = "gather" THEN UNCHANGED vars ELSE Performs(Head(call))
        /\ call' = Tail(call)
  /\ UNCHANGED opened

--------------------------------------------------------------------------------
(* MetaProject::Open and Create.  The constructor takes hold of the root   *)
(* object; Create sets its dates and its name.                             *)

Constructor == <<Opens(TRUE), Fetches(Root), Commits>>

Creation(o) ==
  LET attrs == SetToSeq(ValueAttr)
  IN  <<Opens(FALSE)>>
      \o [i \in DOMAIN attrs |-> Sets(Root, attrs[i], o[attrs[i]])]
      \o <<Commits>>

MetaInit ==
  /\ Init
  /\ opened = 0
  /\ call \in {Constructor} \cup {Constructor \o Creation(o) : o \in [ValueAttr -> Value]}

--------------------------------------------------------------------------------
(* Transactions of the client.  One level is kept free for calls.          *)

Ready == Alive /\ call = << >>

MetaBegin ==
  /\ Ready
  /\ opened < MaxDepth - 1
  /\ Begin(FALSE)
  /\ opened' = opened + 1
  /\ UNCHANGED call

MetaCommit ==
  /\ Ready
  /\ opened > 0
  /\ Ends
  /\ opened' = opened - 1
  /\ UNCHANGED call

MetaAbort ==
  /\ Ready
  /\ opened > 0
  /\ AbortTransaction \/ AbortDies
  /\ opened' = opened - 1
  /\ UNCHANGED call

--------------------------------------------------------------------------------
(* Calls.  One that finds all it asks for in memory opens a transaction    *)
(* and ends it, as GetOfProject does, and is left out.                     *)

Calls(steps) ==
  /\ Ready
  /\ Performs(Head(steps))
  /\ call' = Tail(steps)
  /\ UNCHANGED opened

(* SetName and the other setters, of any metamodel object and of the       *)
(* project, which sets attributes of its root.                             *)

(* Mutant: a setter that returns before it commits. *)
SetterWithoutCommit(u, a, new) == <<Opens(FALSE), Sets(u, a, new)>>

Setter(u, a, new) == <<Opens(FALSE), Sets(u, a, new), Commits>>

SetValue ==
  \E u \in Held, a \in ValueAttr, new \in Value :
    /\ MaySet(u, a, new)
    /\ new # Last(Loaded(u, a))
    /\ Calls(Setter(u, a, new))

(* GetName and the other getters.                                          *)
GetValue ==
  \E u \in Held, a \in ValueAttr :
    /\ MayUse(u)
    /\ objectHash[u][a] = << >>
    /\ Calls(<<Opens(FALSE), Gets(u, a), Commits>>)

(* The getters of the project open a transaction that is read-only, in     *)
(* which the read is refused: they have no answer.                         *)
GetOfProject ==
  \E a \in ValueAttr : Calls(<<Opens(TRUE), Gets(Root, a), Commits>>)

(* RootFolder; FindObject, for any uuid.                                   *)
FindObject ==
  \E u \in Uuid \ Held : Calls(<<Opens(TRUE), Fetches(u), Commits>>)

(* CreateFolder and all the others that create an object under one.        *)

(* Mutant: the object is linked after its transaction. *)
LinkedLate(u, a, parent) ==
  <<Opens(FALSE), Creates(u), Commits, Opens(FALSE), Sets(u, a, parent), Commits>>

(* Mutant: an object is created without a link to its parent. *)
Unlinked(u, a, parent) == <<Opens(FALSE), Creates(u), Commits>>

(* Mutant: the new object is let go before the end of its transaction. *)
CreatorLettingGo(u, a, parent) ==
  <<Opens(FALSE), Creates(u), Sets(u, a, parent), GivesUp(u), Commits>>

Creator(u, a, parent) ==
  <<Opens(FALSE), Creates(u), Sets(u, a, parent), Commits>>

(* Which uuid is next does not matter: nothing tells new ones apart.       *)
NextUuid == CHOOSE u \in Uuid \ usedUuids : TRUE

CreateChild ==
  \E a \in PointerAttr, parent \in Held :
    /\ usedUuids # Uuid
    /\ MayUse(parent)
    /\ Calls(Creator(NextUuid, a, parent))

(* GetDefinedIn and the others that give the object a pointer leads to.    *)
ObjectFromAttribute ==
  \E u \in Held, a \in PointerAttr :
    /\ MayUse(u)
    /\ objectHash[u][a] # << >> => Last(objectHash[u][a]) \notin Held \cup {Null}
    /\ Calls(<<Opens(FALSE), Gets(u, a), Follows(u, a), Commits>>)

(* GetConstraints opens no transaction, and needs one.                     *)
GetConstraints ==
  \E u \in Held, a \in PointerAttr :
    /\ MayUse(u)
    /\ opened > 0 /\ collections[u][a] # << >> =>
         ~(Last(collections[u][a]) \subseteq Held)
    /\ Calls(<<Collects(u, a), Gathers(u, a)>>)

(* Deleting a wrapper.  The project itself holds the root.                 *)
Delete ==
  /\ Ready
  /\ \E u \in Held \ {Root} : MayGiveUp(u) /\ GiveUp(u)
  /\ UNCHANGED <<call, opened>>

(* ~MetaProject: the root is given up before the core project is deleted.  *)

Destructor == <<GivesUp(Root), Closes>>

MetaClose ==
  /\ opened = 0
  /\ Held = {Root}
  /\ Calls(Destructor)

MetaNext ==
  \/ CallStep
  \/ MetaBegin
  \/ MetaCommit
  \/ MetaAbort
  \/ SetValue
  \/ GetValue
  \/ GetOfProject
  \/ FindObject
  \/ CreateChild
  \/ ObjectFromAttribute
  \/ GetConstraints
  \/ Delete
  \/ MetaClose

MetaSpec == MetaInit /\ [][MetaNext]_metaVars

--------------------------------------------------------------------------------
(* Properties.                                                             *)

MetaTypeOK ==
  /\ TypeOK
  /\ call \in Seq(Step)
  /\ opened \in 0 .. MaxDepth - 1

(* MetaBase.cpp:30-104, MetaProject.cpp:104-151: a call ends every         *)
(* transaction it opens, on every path, so that between calls the open     *)
(* transactions are those of the client, and all of them may write.        *)
Balanced ==
  Ready => /\ Depth = opened
           /\ \A i \in DOMAIN transactionList : ~transactionList[i].readOnly

(* The objects that lead to the root by their pointers: those in every set *)
(* that has the root and, with an object, all that point to it.            *)
Closed(s, S) ==
  /\ Root \in S
  /\ \A u \in DOMAIN s : (\E a \in PointerAttr : s[u][a] \in S) => u \in S

Below(s) == {u \in Uuid : \A S \in SUBSET Uuid : Closed(s, S) => u \in S}

(* MetaBase.h:95-128: in every transaction of a client, and in what would  *)
(* be left of it after any aborts, each object leads to the root: a call   *)
(* that creates never leaves an object that belongs nowhere.               *)
ContainmentTree ==
  Alive => \A i \in 0 .. opened : Below(StoreAt(i)) = DOMAIN StoreAt(i)

(* MetaBase.cpp, MetaProject.cpp: each call is one step of the innermost   *)
(* transaction of the client, however many core calls it makes.            *)
Tree == INSTANCE Metamodel WITH
  levels <- [i \in 1 .. opened + 1 |-> StoreAt(i - 1)]

ImplementsMetamodel == Tree!MetaSpec

(* What a client must not ask for: the constraints of an object when no    *)
(* transaction is open (MetaBase.cpp:117), and an object by a uuid that is *)
(* not in storage (CoreProject.cpp:74).                                    *)
Careless ==
  \/ GetConstraints /\ ~InTransaction
  \/ /\ call # << >>
     /\ Head(call).do = "fetch"
     /\ Head(call).object \notin DOMAIN store \cup {Root}

(* CoreProject.cpp:234-272, CoreAttribute.h:178-213, under MetaBase.cpp    *)
(* and MetaProject.cpp: only these two fail an assertion, and no call uses *)
(* what is gone.  Whatever else is called, in any order and in any         *)
(* transactions of the client, what a pointer or a back-pointer list leads *)
(* to is there when it is fetched, and commits and aborts find what they   *)
(* need.                                                                   *)
OnlyCarelessCallsDie ==
  [][Alive /\ ~Alive' => fault' = "closed" \/ (fault' = "assert" /\ Careless)]_metaVars

================================================================================
