------------------------------ MODULE BinFileCache -----------------------------
(***************************************************************************)
(* Where the objects of the binary storage live: in memory, in the input   *)
(* file as last saved, or in the scratch file (FetchObject, ObjectFromFile,*)
(* ObjectToFile, CheckCacheSize, FlushCache and the public calls that move *)
(* objects, Core/BinFile.cpp).                                             *)
(*                                                                         *)
(* An object is a plain value, one pointer and the back-pointers to it.    *)
(* The helpers of the code change several members one after the other, so  *)
(* they are functions from one state of the storage to the next, and an    *)
(* action composes the ones its call makes.                                *)
(*                                                                         *)
(* Abstracted: an object takes one slot of a file whatever its size, and   *)
(* compression and encryption flags, which do not change, are left out.    *)
(* The journal is never moved out of memory; Undo and Redo are in          *)
(* BinFileTxn.                                                             *)
(***************************************************************************)
EXTENDS Integers, SequencesExt

CONSTANTS
  Uuid,        \* identities of objects
  Root,        \* the root object
  Saved,       \* the objects the opened file holds
  Null,        \* Uuid::Null(), and a NULL object
  Value,       \* plain values
  Zero,        \* the plain value of a new object
  Limits,      \* cache sizes clients ask for
  NoLimit,     \* BINFILE_DEFAULTCACHESIZE: more than there are objects
  Writable,    \* the objects clients change
  Pointers,    \* whether clients set pointers
  Toggles,     \* whether clients switch caching off and on
  MayFlush,    \* whether they switch it off with objects in memory
  MaxScratch   \* bound of the model: slots of the scratch file

ASSUME ConstantsAssumption ==
  /\ Root \in Saved
  /\ Saved \subseteq Uuid
  /\ Null \notin Uuid \cup Value
  /\ Zero \in Value
  /\ Limits \subseteq Nat
  /\ NoLimit \in Nat /\ \A l \in Limits : l <= NoLimit
  /\ Writable \subseteq Uuid
  /\ Pointers \in BOOLEAN /\ Toggles \in BOOLEAN /\ MayFlush \in BOOLEAN
  /\ MaxScratch \in Nat

VARIABLES
  bin,            \* objects and files: see BinState
  inTransaction,  \* _inTransaction
  openedObject,   \* the cursor; Null when no object is open
  created,        \* _createdObjects, most recent first
  changed,        \* <<uuid, field>> -> value before the transaction
  deleted,        \* _deletedObjects, most recent first
  truth,          \* what a client that remembers its calls expects to read
  committed       \* the same, at the start of the transaction

vars == <<bin, inTransaction, openedObject, created, changed, deleted, truth, committed>>

Content == [val : Value, ptr : Uuid \cup {Null}, back : SUBSET Uuid]
Blank == [val |-> Zero, ptr |-> Null, back |-> {}]

BinState ==
  [location : [Uuid -> {"none", "Input", "Cache", "Scratch"}],  \* "none": not in _indexHash
   object   : [Uuid -> Content \cup {Null}],   \* the BinObject in memory
   dirty    : [Uuid -> BOOLEAN],               \* its _isDirty
   position : [Uuid -> Nat],                   \* slot of the scratch file
   queue    : Seq(Uuid),                       \* _cacheQueue, most recent first
   caching  : BOOLEAN,                         \* _isCaching
   limit    : Nat,                             \* _maxCacheSize
   input    : [Uuid -> Content \cup {Null}],   \* _inputFile
   scratch  : Seq(Content),                    \* _scratchFile
   cursor   : Nat,                             \* its one position, for reading and writing
   fault    : {"none", "assert", "crash", "freed"}]

NoFunction == [x \in {} |-> x]

--------------------------------------------------------------------------------
(* The cache.                                                              *)

Fail(s, how) == [s EXCEPT !.fault = IF @ = "none" THEN how ELSE @]

(* Mutant: the position is taken after the write. *)
ToScratchLate(s, u) ==
  [s EXCEPT !.position[u] = s.cursor + 1,
            !.location[u] = "Scratch",
            !.scratch = IF s.cursor > Len(@) THEN Append(@, s.object[u])
                        ELSE [@ EXCEPT ![s.cursor] = s.object[u]],
            !.cursor = @ + 1]

(* ObjectToFile: written where the stream stands, which is the end of the  *)
(* scratch file only if nothing was read from it since the last write.     *)
ToScratch(s, u) ==
  [s EXCEPT !.position[u] = s.cursor,
            !.location[u] = "Scratch",
            !.scratch = IF s.cursor > Len(@) THEN Append(@, s.object[u])
                        ELSE [@ EXCEPT ![s.cursor] = s.object[u]],
            !.cursor = @ + 1]

(* One turn of the loop of CheckCacheSize, none if the queue is short enough. *)
EvictBack(s) ==
  LET u == Last(s.queue)
      placed == IF s.dirty[u] THEN ToScratch(s, u)
                ELSE [s EXCEPT !.location[u] = "Input"]
  IN  IF s.fault # "none" \/ Len(s.queue) <= s.limit THEN s
      ELSE IF s.object[u] = Null THEN Fail(s, "crash")
      ELSE [placed EXCEPT !.object[u] = Null, !.queue = Front(@)]

(* Every turn takes one object out of the queue. *)
CheckCacheSize(s) == FoldLeft(LAMBDA t, u : EvictBack(t), s, s.queue)

InFront(s, u) == IF s.caching THEN [s EXCEPT !.queue = <<u>> \o @] ELSE s

(* std::list::remove takes out every element equal to u. *)
Without(queue, u) ==
  FoldLeft(LAMBDA kept, w : IF w = u THEN kept ELSE Append(kept, w), << >>, queue)

(* Mutant: the object keeps its old place too. *)
StillInQueue(s, u) == s

OutOfQueue(s, u) == IF s.caching THEN [s EXCEPT !.queue = Without(@, u)] ELSE s

Trimmed(s) == IF s.caching THEN CheckCacheSize(s) ELSE s

(* ObjectFromFile, given what the file holds: the object read is clean.    *)
FromFile(s, u, content) ==
  Trimmed(InFront([s EXCEPT !.object[u] = content, !.dirty[u] = FALSE,
                            !.location[u] = "Cache"], u))

(* Mutant: the object read is not marked dirty. *)
FromScratchClean(s, u) ==
  LET p == s.position[u]
  IN  FromFile([s EXCEPT !.cursor = p + 1], u, s.scratch[p])

MarkDirty(s, u) ==
  IF s.object[u] = Null THEN Fail(s, "crash") ELSE [s EXCEPT !.dirty[u] = TRUE]

(* Reading the scratch file moves its one position past the object read,   *)
(* and the object read is marked dirty once the cache has been trimmed.    *)
FromScratch(s, u) ==
  LET p == s.position[u]
  IN  MarkDirty(FromFile([s EXCEPT !.cursor = p + 1], u, s.scratch[p]), u)

FetchObject(s, u) ==
  CASE s.location[u] = "Cache"   -> InFront(OutOfQueue(s, u), u)
    [] s.location[u] = "Input"   -> FromFile(s, u, s.input[u])
    [] s.location[u] = "Scratch" -> FromScratch(s, u)
    [] OTHER                     -> s

(* FlushCache: the objects are deleted, their index entries stay as they are. *)
FlushCache(s) ==
  [s EXCEPT !.object = [u \in Uuid |-> IF u \in ToSet(s.queue) THEN Null ELSE @[u]],
            !.queue = << >>]

--------------------------------------------------------------------------------
(* Changing objects.                                                       *)

(* A Set, Add or Remove on an object through a pointer got by an earlier   *)
(* fetch: how says what it means that the object is not in memory.         *)
Modify(s, u, content, how) ==
  IF s.fault # "none" THEN s
  ELSE IF s.object[u] = Null THEN Fail(s, how)
  ELSE [s EXCEPT !.object[u] = content, !.dirty[u] = TRUE]

(* Mutant: the back-pointer stays. *)
StillLinked(s, u, t) == s.object[t]

Unlinked(s, u, t) == [s.object[t] EXCEPT !.back = @ \ {u}]
Linked(s, u, t) == [s.object[t] EXCEPT !.back = @ \cup {u}]

(* The objects a pointer goes to and leaves, fetched and then changed.     *)
NewEnd(s, t) == IF t # Null /\ s.object[t] = Null THEN Fail(s, "assert") ELSE s
FetchEnd(s, t) == IF t = Null \/ s.fault # "none" THEN s ELSE FetchObject(s, t)
UnlinkEnd(s, u, t) == IF t = Null THEN s ELSE Modify(s, t, Unlinked(s, u, t), "assert")
LinkEnd(s, u, t) == IF t = Null THEN s ELSE Modify(s, t, Linked(s, u, t), "freed")

(* PointerUpdate: both ends are fetched, the new one first, and changed    *)
(* through what the fetches returned, the old one first.  The new one may  *)
(* have been evicted by the second fetch.                                  *)
PointerUpdate(s, u, old, new) ==
  LinkEnd(UnlinkEnd(FetchEnd(NewEnd(FetchEnd(s, new), new), old), u, old), u, new)

SetPointer(s, u, new) == Modify(s, u, [s.object[u] EXCEPT !.ptr = new], "freed")

(* The pointer of u, whose object is at hand, goes from its value to new:  *)
(* it is set through the attribute found before PointerUpdate was called,  *)
(* even if u has been evicted since (and fetched again, if it points to    *)
(* itself).                                                                *)
MovePointer(s, u, new) ==
  IF new = Null \/ FetchObject(s, new).object[u] # Null
  THEN SetPointer(PointerUpdate(s, u, s.object[u].ptr, new), u, new)
  ELSE Fail(PointerUpdate(s, u, s.object[u].ptr, new), "freed")

(* The open object is used through the iterator OpenObject kept. *)
OpenIsUsable == bin.object[openedObject] # Null

(* What the client makes of a pointer change: both ends together. *)
Repointed(t, u, new) ==
  [x \in DOMAIN t |->
    [val |-> t[x].val,
     ptr |-> IF x = u THEN new ELSE t[x].ptr,
     back |-> IF x = new THEN t[x].back \cup {u}
              ELSE IF x = t[u].ptr THEN t[x].back \ {u} ELSE t[x].back]]

(* The first record of a change keeps the value before the transaction. *)
Record(k, old) ==
  changed' = [x \in DOMAIN changed \cup {k} |->
                IF x \in DOMAIN changed THEN changed[x] ELSE old]

ScratchHasRoom == Len(bin'.scratch) <= MaxScratch

Running == bin.fault = "none"

--------------------------------------------------------------------------------
(* Open leaves every object in the input file and the scratch file empty.  *)
Opened(input, caching, limit) ==
  [location |-> [u \in Uuid |-> IF input[u] = Null THEN "none" ELSE "Input"],
   object |-> [u \in Uuid |-> Null],
   dirty |-> [u \in Uuid |-> FALSE],
   position |-> [u \in Uuid |-> 0],
   queue |-> << >>,
   caching |-> caching,
   limit |-> limit,
   input |-> input,
   scratch |-> << >>,
   cursor |-> 1,
   fault |-> "none"]

(* Create makes the root object in memory; there is no input file yet.     *)
OnlyRoot ==
  InFront([Opened([u \in Uuid |-> Null], TRUE, NoLimit) EXCEPT
             !.object[Root] = Blank, !.dirty[Root] = TRUE, !.location[Root] = "Cache"], Root)

Init ==
  /\ \/ /\ bin = Opened([u \in Uuid |-> IF u \in Saved THEN Blank ELSE Null], TRUE, NoLimit)
        /\ truth = [u \in Saved |-> Blank]
     \/ /\ bin = OnlyRoot
        /\ truth = [u \in {Root} |-> Blank]
  /\ inTransaction = FALSE
  /\ openedObject = Null
  /\ created = << >>
  /\ changed = NoFunction
  /\ deleted = << >>
  /\ committed = truth

ClearLists ==
  /\ created' = << >>
  /\ changed' = NoFunction
  /\ deleted' = << >>
  /\ openedObject' = Null
  /\ inTransaction' = FALSE

BeginTransaction ==
  /\ Running
  /\ ~inTransaction
  /\ inTransaction' = TRUE
  /\ openedObject' = Null
  /\ committed' = truth
  /\ UNCHANGED <<bin, created, changed, deleted, truth>>

(* Commit throws the deleted objects away; it moves nothing. *)
CommitTransaction ==
  /\ Running
  /\ inTransaction
  /\ ClearLists
  /\ committed' = truth
  /\ UNCHANGED <<bin, truth>>

(* Mutant: the object is found, but not fetched. *)
OpenUnfetched(u) ==
  /\ Running
  /\ inTransaction
  /\ openedObject' = IF bin.location[u] = "none" THEN Null ELSE u
  /\ UNCHANGED <<bin, inTransaction, created, changed, deleted, truth, committed>>

OpenObject(u) ==
  /\ Running
  /\ inTransaction
  /\ openedObject # u
  /\ bin' = FetchObject(bin, u)
  /\ ScratchHasRoom
  /\ openedObject' = IF bin.location[u] = "none" THEN Null ELSE u
  /\ UNCHANGED <<inTransaction, created, changed, deleted, truth, committed>>

CloseObject ==
  /\ Running
  /\ inTransaction
  /\ openedObject' = Null
  /\ UNCHANGED <<bin, inTransaction, created, changed, deleted, truth, committed>>

(* TryCreateObject does not look at the size of the cache. *)
CreateObject(u) ==
  /\ Running
  /\ inTransaction
  /\ u \in Writable
  /\ u \notin DOMAIN truth \cup DOMAIN committed \cup ToSet(created)
  /\ bin' = InFront([bin EXCEPT !.object[u] = Blank, !.dirty[u] = TRUE,
                                !.location[u] = "Cache"], u)
  /\ openedObject' = u
  /\ created' = <<u>> \o created
  /\ truth' = [x \in DOMAIN truth \cup {u} |-> IF x = u THEN Blank ELSE truth[x]]
  /\ UNCHANGED <<inTransaction, changed, deleted, committed>>

SetAttributeValue(v) ==
  LET u == openedObject
      now == bin.object[u]
  IN  /\ Running
      /\ inTransaction
      /\ u \in Writable
      /\ IF ~OpenIsUsable
         THEN bin' = Fail(bin, "crash") /\ UNCHANGED <<changed, truth>>
         ELSE /\ now.val # v
              /\ bin' = Modify(bin, u, [now EXCEPT !.val = v], "crash")
              /\ Record(<<u, "val">>, now.val)
              /\ truth' = [truth EXCEPT ![u].val = v]
      /\ UNCHANGED <<inTransaction, openedObject, created, deleted, committed>>

SetPointerValue(t) ==
  LET u == openedObject
  IN  /\ Pointers
      /\ Running
      /\ inTransaction
      /\ u \in Writable
      /\ t \in DOMAIN truth \cup {Null}
      /\ IF ~OpenIsUsable
         THEN bin' = Fail(bin, "crash") /\ UNCHANGED <<changed, truth>>
         ELSE /\ bin.object[u].ptr # t
              /\ bin' = MovePointer(bin, u, t)
              /\ Record(<<u, "ptr">>, bin.object[u].ptr)
              /\ truth' = Repointed(truth, u, t)
      /\ ScratchHasRoom
      /\ UNCHANGED <<inTransaction, openedObject, created, deleted, committed>>

(* The pointer of the object is set to Null first; the object is then kept *)
(* in the list of deleted objects.  Clients delete no object that another  *)
(* one points to (what follows if they do is in BinFileTxn).               *)
DeleteObject ==
  LET u == openedObject
      ptr == bin.object[u].ptr
      nulled == IF ptr = Null THEN bin ELSE MovePointer(bin, u, Null)
      removed == OutOfQueue([nulled EXCEPT !.location[u] = "none", !.object[u] = Null], u)
  IN  /\ Running
      /\ inTransaction
      /\ u \in Writable \ {Root}
      /\ truth[u].back \subseteq {u}
      /\ IF ~OpenIsUsable
         THEN bin' = Fail(bin, "assert") /\ UNCHANGED <<changed, deleted, truth>>
         ELSE /\ bin' = IF nulled.fault = "none" THEN removed ELSE nulled
              /\ deleted' = <<[uuid |-> u, object |-> nulled.object[u],
                               dirty |-> nulled.dirty[u]]>> \o deleted
              /\ IF ptr = Null THEN UNCHANGED changed ELSE Record(<<u, "ptr">>, ptr)
              /\ truth' = Restrict(Repointed(truth, u, Null), DOMAIN truth \ {u})
      /\ ScratchHasRoom
      /\ openedObject' = Null
      /\ UNCHANGED <<inTransaction, created, committed>>

--------------------------------------------------------------------------------
(* TryAbortTransaction, one function per loop.                             *)

PutBack(s, d) ==
  InFront([s EXCEPT !.object[d.uuid] = d.object, !.dirty[d.uuid] = d.dirty,
                    !.location[d.uuid] = "Cache"], d.uuid)

RollBack(s, k) ==
  LET u == k[1]
      fetched == FetchObject(s, u)
      now == fetched.object[u]
  IN  IF s.fault # "none" THEN s
      ELSE IF now = Null THEN Fail(fetched, "assert")
      ELSE IF k[2] = "ptr" THEN MovePointer(fetched, u, changed[k])
      ELSE Modify(fetched, u, [now EXCEPT !.val = changed[k]], "assert")

Uncreate(s, u) ==
  LET fetched == FetchObject(s, u)
  IN  IF s.fault # "none" THEN s
      ELSE IF fetched.object[u] = Null THEN Fail(fetched, "assert")
      ELSE OutOfQueue([fetched EXCEPT !.location[u] = "none", !.object[u] = Null], u)

(* Mutant: the changes are rolled back before the deleted objects are back. *)
AbortedEarly(order) ==
  FoldLeft(Uncreate, FoldLeft(PutBack, FoldLeft(RollBack, bin, order), deleted), created)

Aborted(order) ==
  FoldLeft(Uncreate, FoldLeft(RollBack, FoldLeft(PutBack, bin, deleted), order), created)

(* The changes are rolled back in the order of a hash table: any order.    *)
AbortTransaction ==
  /\ Running
  /\ inTransaction
  /\ \E order \in SetToSeqs(DOMAIN changed) : bin' = Aborted(order)
  /\ ScratchHasRoom
  /\ ClearLists
  /\ truth' = committed
  /\ UNCHANGED committed

--------------------------------------------------------------------------------
(* Options, outside transactions.                                          *)

SetCacheSize(l) ==
  /\ Running
  /\ ~inTransaction
  /\ bin.caching
  /\ bin' = CheckCacheSize([bin EXCEPT !.limit = l])
  /\ ScratchHasRoom
  /\ UNCHANGED <<inTransaction, openedObject, created, changed, deleted, truth, committed>>

DisableCaching ==
  /\ Toggles
  /\ Running
  /\ ~inTransaction
  /\ bin.caching
  /\ MayFlush \/ bin.queue = << >>
  /\ bin' = [FlushCache(bin) EXCEPT !.caching = FALSE]
  /\ UNCHANGED <<inTransaction, openedObject, created, changed, deleted, truth, committed>>

EnableCaching ==
  /\ Toggles
  /\ Running
  /\ ~inTransaction
  /\ bin' = [bin EXCEPT !.caching = TRUE]
  /\ UNCHANGED <<inTransaction, openedObject, created, changed, deleted, truth, committed>>

(* What Save writes for u: a copy of the bytes of an object that is in a   *)
(* file, the object itself if it is in memory.                             *)
Written(s, u) ==
  CASE s.location[u] = "Cache"   -> s.object[u]
    [] s.location[u] = "Input"   -> s.input[u]
    [] s.location[u] = "Scratch" -> s.scratch[s.position[u]]
    [] OTHER                     -> Null

(* Save commits the open transaction, writes every object of the index and *)
(* loads the file it has written.                                          *)
Save ==
  /\ Running
  /\ IF \E u \in Uuid : bin.location[u] = "Cache" /\ bin.object[u] = Null
     THEN bin' = Fail(bin, "crash")
     ELSE bin' = Opened([u \in Uuid |-> Written(bin, u)], bin.caching, bin.limit)
  /\ ClearLists
  /\ committed' = truth
  /\ UNCHANGED truth

Next ==
  \/ BeginTransaction
  \/ CommitTransaction
  \/ AbortTransaction
  \/ \E u \in Uuid : OpenObject(u)
  \/ \E u \in Uuid : CreateObject(u)
  \/ CloseObject
  \/ \E v \in Value : SetAttributeValue(v)
  \/ \E t \in Uuid \cup {Null} : SetPointerValue(t)
  \/ DeleteObject
  \/ \E l \in Limits : SetCacheSize(l)
  \/ DisableCaching
  \/ EnableCaching
  \/ Save

Spec == Init /\ [][Next]_vars

--------------------------------------------------------------------------------
(* Properties.                                                             *)

Indexed == {u \in Uuid : bin.location[u] # "none"}
InMemory == {u \in Uuid : bin.location[u] = "Cache"}

TypeOK ==
  /\ bin.location \in [Uuid -> {"none", "Input", "Cache", "Scratch"}]
  /\ \A u \in Uuid : bin.object[u] = Null \/ bin.object[u] \in Content
  /\ \A u \in Indexed : bin.location[u] = "Scratch" => bin.position[u] \in DOMAIN bin.scratch
  /\ \A i \in DOMAIN bin.queue : bin.queue[i] \in Uuid
  /\ bin.cursor \in 1..Len(bin.scratch) + 1
  /\ bin.fault \in {"none", "assert", "crash", "freed"}
  /\ inTransaction \in BOOLEAN
  /\ openedObject \in Uuid \cup {Null}

(* Wherever an object is kept, what is kept is what the client last wrote: *)
(* moving objects between memory and the two files, rolling back and       *)
(* saving lose nothing, and the process is there to tell.                  *)
ContentPreserved ==
  /\ Running
  /\ Indexed = DOMAIN truth
  /\ \A u \in Indexed : Written(bin, u) = truth[u]

(* An object that is not marked dirty is the one in the input file: that   *)
(* is why CheckCacheSize may drop it without writing it.                   *)
CleanIsSaved ==
  bin.fault = "none" =>
    \A u \in InMemory : bin.object[u] = Null \/ bin.dirty[u] \/ bin.object[u] = bin.input[u]

(* With caching on, the queue lists the objects in memory, each one once.  *)
QueueIsMemory ==
  bin.caching /\ bin.fault = "none" =>
    /\ ToSet(bin.queue) = InMemory
    /\ IsInjective(bin.queue)

(* BinFile.cpp:2092-2229: whatever CheckCacheSize evicts between or during *)
(* calls, the open object is in memory: every attribute call goes through  *)
(* the iterator that OpenObject kept and dereferences its object.          *)
OpenIsCached == openedObject # Null => bin.object[openedObject] # Null

(* BinFile.cpp:1134-1160, 1517-1612: no call meets an object that the      *)
(* cache has deleted: an abort finds every object it has to roll back or   *)
(* take away, wherever the calls before it have left it, and the cache     *)
(* evicts only what it holds.                                              *)
NeverUsesFreed == bin.fault = "none"

================================================================================
