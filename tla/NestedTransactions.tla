--------------------------- MODULE NestedTransactions --------------------------
(***************************************************************************)
(* What CoreProject promises its clients about transactions that nest: a   *)
(* transaction works on a copy of what the one around it holds; committing *)
(* hands the copy to the one around it, aborting throws it away.  There    *)
(* are no value stacks, no lists of changes and no storage here;           *)
(* CoreProject, the detailed specification, is shown to implement this.    *)
(***************************************************************************)
EXTENDS Integers, SequencesExt

CONSTANTS
  Uuid,      \* identities an object may have
  Root,      \* the root object
  Attr,      \* attributes; every object has all of them
  Contents,  \* what an attribute may hold
  Blank      \* what the attributes of a new object hold

VARIABLE levels  \* what is committed, then a copy for each open transaction

Init == levels = <<[u \in {Root} |-> Blank]>>

InTransaction == Len(levels) > 1

BeginTransaction == levels' = Append(levels, Last(levels))

(* An edit changes the innermost copy, one object at a time.               *)
Created(store) ==
  {[x \in DOMAIN store \cup {u} |-> IF x = u THEN Blank ELSE store[x]] :
     u \in Uuid \ DOMAIN store}

Deleted(store) ==
  {Restrict(store, DOMAIN store \ {u}) : u \in DOMAIN store \ {Root}}

Changed(store) ==
  {[store EXCEPT ![u][a] = c] : u \in DOMAIN store, a \in Attr, c \in Contents}

Edit ==
  /\ InTransaction
  /\ LET top == Last(levels)
     IN  levels' \in {Append(Front(levels), s) :
                       s \in Created(top) \cup Deleted(top) \cup Changed(top)}

CommitTransaction ==
  /\ InTransaction
  /\ levels' = Append(Front(Front(levels)), Last(levels))

AbortTransaction ==
  /\ InTransaction
  /\ levels' = Front(levels)

Next ==
  \/ BeginTransaction
  \/ Edit
  \/ CommitTransaction
  \/ AbortTransaction

Spec == Init /\ [][Next]_levels

================================================================================
