-------------------------------- MODULE Metamodel ------------------------------
(***************************************************************************)
(* What the metamodel layer (Meta/) promises its clients: every call of a  *)
(* metamodel object is one step of the innermost transaction that the      *)
(* client has open, or a transaction of its own when there is none.  How   *)
(* a call is made of core transactions is not seen here; MetaProject is    *)
(* shown to implement this.                                                *)
(***************************************************************************)
EXTENDS NestedTransactions

CONSTANTS
  PointerAttr  \* the attributes that lead to the parent of an object

(* Creating makes an object and puts it under a parent at once.            *)
Child(before, after) ==
  \E u \in Uuid \ DOMAIN before, a \in PointerAttr, parent \in DOMAIN before :
    after = [x \in DOMAIN before \cup {u} |->
               IF x = u THEN [Blank EXCEPT ![a] = parent] ELSE before[x]]

(* Setting changes values of one object, never where the object belongs.   *)
Described(before, after) ==
  /\ DOMAIN after = DOMAIN before
  /\ \E u \in DOMAIN before :
       /\ \A x \in DOMAIN before \ {u} : after[x] = before[x]
       /\ \A a \in Attr :
            IF a \in PointerAttr THEN after[u][a] = before[u][a]
            ELSE after[u][a] \in Contents

Call ==
  /\ Len(levels') = Len(levels)
  /\ Front(levels') = Front(levels)
  /\ \/ Child(Last(levels), Last(levels'))
     \/ Described(Last(levels), Last(levels'))

MetaNext ==
  \/ BeginTransaction
  \/ Call
  \/ CommitTransaction
  \/ AbortTransaction

MetaSpec == Init /\ [][MetaNext]_levels

================================================================================
