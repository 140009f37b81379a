------------------------------ MODULE CoreStorage ------------------------------
(***************************************************************************)
(* What the storage interface ICoreStorage (Core/CoreStorage.h) promises   *)
(* its client about data: a set of objects with attributes, edited inside  *)
(* transactions that either commit as a whole or leave no trace, and a     *)
(* history of committed transactions that can be stepped backwards and     *)
(* forwards.  There is no cursor, no cache, no change list and no journal  *)
(* format here; BinFileTxn, the detailed specification, is shown to        *)
(* implement this one.                                                     *)
(***************************************************************************)
EXTENDS Integers, SequencesExt

CONSTANTS
  Uuid,       \* identities an object may have
  Root,       \* the root object, which is never deleted
  Attr,       \* attributes; every object has all of them
  Contents,   \* what an attribute may hold
  Blank,      \* Blank[a]: what attribute a of a new object holds
  MaxUndo     \* how many transactions the history remembers

VARIABLES
  store,          \* object -> attribute -> content, as the client reads it
  base,           \* the store the open transaction started from
  inTransaction,  \* whether a transaction is open
  past,           \* stores that Undo returns to, oldest first
  future          \* stores that Redo returns to, next one last

vars == <<store, base, inTransaction, past, future>>

Init ==
  /\ store = [u \in {Root} |-> Blank]
  /\ base = store
  /\ inTransaction = FALSE
  /\ past = << >>
  /\ future = << >>

BeginTransaction ==
  /\ ~inTransaction
  /\ inTransaction' = TRUE
  /\ base' = store
  /\ UNCHANGED <<store, past, future>>

(* An edit changes the store one object at a time, and nothing else. *)
CreateObject ==
  \E u \in Uuid \ DOMAIN store : store' = [x \in DOMAIN store \cup {u} |-> IF x = u THEN Blank ELSE store[x]]

DeleteObject ==
  \E u \in DOMAIN store \ {Root} : store' = Restrict(store, DOMAIN store \ {u})

SetAttributeValue ==
  \E u \in DOMAIN store, a \in Attr, c \in Contents :
    store' = [store EXCEPT ![u][a] = c]

Edit ==
  /\ inTransaction
  /\ CreateObject \/ DeleteObject \/ SetAttributeValue
  /\ UNCHANGED <<base, inTransaction, past, future>>

(* Remember at most MaxUndo stores, the most recent ones. *)
Remember(hist, s) ==
  LET all == Append(hist, s)
  IN  IF Len(all) > MaxUndo THEN Tail(all) ELSE all

(* A commit keeps the store and opens a new line of history, or, when the  *)
(* transaction came to nothing, leaves the history as it was.  A storage   *)
(* that is not journaling keeps no history at all.                         *)
CommitTransaction ==
  /\ inTransaction
  /\ inTransaction' = FALSE
  /\ UNCHANGED store
  /\ base' = store
  /\ \/ past' = Remember(past, base) /\ future' = << >>
     \/ past = << >> /\ future = << >> /\ UNCHANGED <<past, future>>
     \/ store = base /\ UNCHANGED <<past, future>>

AbortTransaction ==
  /\ inTransaction
  /\ inTransaction' = FALSE
  /\ store' = base
  /\ UNCHANGED <<base, past, future>>

Undo ==
  /\ ~inTransaction
  /\ past # << >>
  /\ store' = Last(past)
  /\ base' = store'
  /\ past' = Front(past)
  /\ future' = Append(future, store)
  /\ UNCHANGED inTransaction

Redo ==
  /\ ~inTransaction
  /\ future # << >>
  /\ store' = Last(future)
  /\ base' = store'
  /\ future' = Front(future)
  /\ past' = Append(past, store)
  /\ UNCHANGED inTransaction

(* Saving commits the open transaction and gives up what could be redone.  *)
Save ==
  /\ inTransaction' = FALSE
  /\ UNCHANGED store
  /\ base' = store
  /\ \/ inTransaction /\ past' = Remember(past, base)
     \/ store = base /\ UNCHANGED past
     \/ past = << >> /\ UNCHANGED past
  /\ future' = << >>

(* Turning the journal off forgets the history. *)
ForgetHistory ==
  /\ past' = << >>
  /\ future' = << >>
  /\ UNCHANGED <<store, base, inTransaction>>

Next ==
  \/ BeginTransaction
  \/ Edit
  \/ CommitTransaction
  \/ AbortTransaction
  \/ Undo
  \/ Redo
  \/ Save
  \/ ForgetHistory

Spec == Init /\ [][Next]_vars

================================================================================
