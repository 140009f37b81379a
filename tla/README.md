# MGALib in TLA+

MGALib is the storage and object layer of a domain-modelling tool: a library,
linked into one process and called from one thread, that keeps a project (a
metamodel and a graph of objects with attributes) in a file. There are no
threads, no messages and no callbacks that re-enter. What makes it hard is
state: long sequences of legal calls over structures that describe each other
(an object index, change lists, back-pointers, a journal, a cache, three files),
a rollback that must undo whatever was done in whatever order, and a process
that can die while the only copy of a project is being replaced.

Paths below are relative to `src/`; `BinFile.cpp` is `src/Core/BinFile.cpp`.

## 1. Inventory

| Part | Source | State | Operations |
|---|---|---|---|
| Storage interface | `Core/CoreStorage.h` | transaction and dirty flags | the contract: objects, transactions, undo and redo |
| Binary storage: transactions and journal | `Core/BinFile.*` | index, cursor, three change lists, undo and redo lists | begin, commit, abort, open, close, create, set, delete, undo, redo, journaling on and off |
| Binary storage: cache | `Core/BinFile.*` | location of each object, queue, scratch file and its position | fetch, evict, cache size, caching on and off |
| Binary storage: files | `Core/BinFile.cpp` | project, `~` scratch and `~_` temporary files | create, open, save, load, destroy |
| Compression, encryption | `Core/BinFile.cpp` | key and flags | set key, compress, encrypt |
| Core project | `Core/CoreProject.*` | stack of transactions, hash of objects in use | begin, commit, abort (nested), object, create, delete, open, save |
| Core objects and attributes | `Core/CoreObject.*`, `Core/CoreAttribute.*` | a stack of values per attribute, parent and child back-pointers | get, set, commit, abort |
| Core metaproject | `Core/CoreMeta*.cpp` | tables of metaobjects and metaattributes | built once, then read |
| Core types, errors | `Core/CoreTypes.*`, `Core/CoreError.*` | none | conversions |
| Mga project, territories | `MGA/MgaProject.cpp`, `MGA/MgaTerritory.cpp` | core project, territory, transaction flag | open, begin, commit, abort, territory create and flush, event sinks |
| Mga objects | `MGA/MgaFCO.cpp` and others | none of their own | mostly commented out COM code over core objects |
| Mga registrar | `MGA/MgaRegistrar.*` | the Windows registry | mostly commented out |
| Metamodel | `Meta/` | a core project, core objects held by wrappers | open, create, begin, commit, abort, accessors, creators, delete |
| Parser | `Parser/` | none of its own | recursive functions that fill a metaproject from a DOM document |
| Platform layer, interfaces, tests | `Arch/`, `Interfaces/`, `Testing/` | | uuids and timers, SWIG, unit tests |

How they interact: an application calls the Mga or Meta layer, which calls
`CoreProject`; that keeps nested transactions and value stacks in memory and
calls one `ICoreStorage`, of which `BinFile` is the only complete
implementation. The calls are synchronous. Shared state is what makes them
depend on each other: the storage's cursor (`_openedObject`) is one per storage
and moved by every layer above, and the storage transaction is one for all
nested core transactions.

What is hard, and what makes each part correct:

- **Transactions and journal.** Objects created and then deleted, changed and
  then deleted, set twice, pointed to by each other, in one transaction, then
  aborted; the same entry later undone, redone, trimmed or forgotten. Correct
  means: an abort restores the store at `BeginTransaction`, whatever was done;
  the journal stands for a line of stores that undo and redo step through; the
  assertions in `TryAbortTransaction` never fail; pointers and back-pointer
  lists agree.
- **Cache.** An object is in memory, in the input file or in the scratch file,
  and fetching one may move another. Correct means: what is read is what was
  last written; a clean object is the one on file; the queue is exactly what is
  in memory; an object in use is not freed.
- **Files.** Save writes a new file, removes the original, renames, swaps
  scratch files and reloads. Correct means: wherever the process dies a project
  that was saved can still be found; a name never holds half a project; nothing
  is left lying about; the storage after Save holds what it held before.
- **Core project.** Nested transactions share one storage transaction, and
  instead of copies there are a stack of values in every attribute and a list
  of changed attributes in every transaction. An inner commit hands its list
  on, an abort pops a value for every entry, and storage hears of it only at
  the outermost commit. Correct means: begin, commit and abort at any depth do
  what copies of the project would do; the lists match the stacks; what is in
  memory begins with what is in storage.
- **Metamodel.** Each call makes several core calls in a core transaction of
  its own, inside whatever the client has open, and has several exits. Correct
  means: a call is one step of the client's transaction and ends what it
  opened; every object created belongs to a parent, at every depth; a pointer or
  a list that a call follows leads to an object that is there.
- **Mga project.** Territories and event sinks must follow transactions; parts
  of `AbortTransaction` are commented out, and no project can be opened
  (section 5).

`PROJECT.json` lists the components with their status, and every hazard at its
line with the properties that would catch it.

## 2. Modules

| Module | What it is |
|---|---|
| `CoreStorage` | abstract: what `ICoreStorage` promises about data |
| `BinFileTxn` | cursor, edits, pointers, transactions, undo, redo; implements `CoreStorage` |
| `BinFileTxnProofs` | theorems about `BinFileTxn` and their proofs |
| `BinFileCache` | where objects live: memory, input file, scratch file |
| `BinFileCacheProofs` | theorems about `BinFileCache` and their proofs |
| `BinFileSave` | the files of a project, call by call, and a process that dies |
| `BinFileSaveProofs` | theorems about `BinFileSave` and their proofs |
| `NestedTransactions` | abstract: a copy of the project for every open transaction |
| `CoreProject` | nested transactions, objects and value stacks; implements `NestedTransactions` |
| `CoreProjectProofs` | theorems about `CoreProject` for all clients, and their proofs |
| `CoreNestedProofs` | entries and values, counted per depth, for all clients |
| `CoreSafeProofs` | clients that make only safe calls; the steps of the refinement |
| `Metamodel` | abstract: every call of the metamodel layer is one step; extends `NestedTransactions` |
| `MetaProject` | calls of the metamodel layer, made of core calls; extends `CoreProject`, implements `Metamodel` |
| `MetaProjectProofs` | theorems about `MetaProject` and their proofs |
| `FoldLemmas` | induction by a least counterexample, and what folds compute; used by the proofs |
| `MC...` | instances for TLC: symmetry |

There are two stacks. Below, three detailed modules are three views of one
class. Each keeps all the control of the part it is about and takes the others
at their interface: `BinFileTxn` is the storage with every object in memory;
`BinFileCache` keeps the change lists, because an abort fetches objects, but no
journal; `BinFileSave` sees a store as one number that each edit changes.
`Save` is in all three: as a step of the history, as a move of all objects to a
new input file, and as eight calls on the file system.

Above, `CoreProject` takes storage at the interface that `CoreStorage` states
and `BinFileTxn` implements: a store, and the store its transaction began with.
`MetaProject` composes the calls of `CoreProject` and adds the steps between
them. Each layer has an abstract specification that hides how it is made, and
the metamodel's is built on the core project's.

Every detailed module also holds a few definitions marked *Mutant*, each just
before the definition it varies. They are seeded faults: with one in the place
of the real definition the property it belongs to must fail, which shows that
the property looks at the code it is about. No specification uses them.

### BinFileTxn

`indexHash` is `_indexHash` with every object in memory, an object being its
attributes and its back-pointer lists; `openedObject`, `inTransaction` and the
three lists are the members of those names; a journal entry is the triple of
lists that `PickleTransaction` writes. `usedUuids` has no counterpart: it says
that a new uuid is new. `fault` records how the process died: `"assert"` for an
assertion that fails, `"crash"` for a lookup that dereferences
`_indexHash.end()`.

Each public call is an action. A call that is refused before anything is
touched has none. `TryAbortTransaction` and the replay of `Redo` are functions
of the whole store (`Rollback`, `Replay`). The code walks the hash of changes
in no particular order, but a record touches one attribute and one entry of
back-pointer lists that belong to that attribute, so the walks have one result
and are written as one function over all the changes. `PointerUpdate` is
written the same way, for a set of pointers that move together. Its result is
ignored by rollback and redo, as in the code, and a pointer that leaves an
object that is gone is a crash.

Left out: the metaobject of an object (every object has all attributes), tags,
the order in back-pointer lists, which no call returns in a meaningful order.
The opened project is one that has just been created; its journal is empty.

### CoreStorage

A store, the store at the start of the transaction, and two lists of stores:
those that undo returns to and those that redo returns to. `BinFileTxn` maps to
it with the store as clients read it (back-pointers, which clients cannot set,
are not part of it), the base computed from the change lists (`Committed`), and
the two lists computed by taking the journal back entry by entry (`Past`) and
forward (`Future`). So the refinement says that change lists and journal
entries, which only hold differences, stand for the stores they were made from,
in every order of calls.

### BinFileCache

The members that describe where objects are make up one record, `bin`, because
the helpers of the code (`FetchObject`, `ObjectFromFile`, `CheckCacheSize`,
`PointerUpdate`, the loops of `TryAbortTransaction`) change several of them one
after the other and call each other; each helper is a function from one record
to the next, and an action composes those its call makes, in the order of the
code. `CheckCacheSize` is a fold: one turn for each object in the queue, as each
turn of the loop takes one out, and none once the queue is short enough.
The scratch file is a sequence of slots with one position for reading and
writing, as `std::fstream` has. `fault = "freed"` is a use of an object or
attribute through a C++ pointer taken before a fetch that deleted it.
`truth` and `committed` are what a client that remembers its calls expects.

Assumed of clients: no object is deleted while another points to it (what
follows otherwise is in `BinFileTxn`). Cache sizes are what `Limits` says; zero
is in no run, since after `SetCacheSize(0)` every fetch returns NULL. Undo and Redo are left out:
on objects they do what an abort and a set do. `Writable`, `Pointers`,
`Toggles` and `MayFlush` say which clients a run has.

### BinFileSave

One action per call on the file system. `project`, `temporary` and `scratch`
are the files `x`, `~_x` and `~x`; `Torn` is any file that is not a whole
project. Bytes are on disk when the stream is closed, not before; what the
operating system has accepted is not lost. An asserted call that fails ends the
process, and that is a case of `Die`, which is possible between any two steps.
Open and Load can fail, and then leave what the code leaves: a scratch file that
stays, or, when it is Save that calls Load, a storage without files and without
objects (`Empty`): Save has by then cleared cache, index and journal
(`BinFile.cpp:1841-1849`). Transactions can still be begun on it, since
`BeginTransaction` does not look at the files; Save cannot. `saved` is what was
last saved under a name, and has no counterpart; only a Save that comes as far
as the rename sets it, and no call resets it.

Not modelled: names that collide (the temporary file of `x` is the scratch file
of `_x`), two spellings of a path, a second process.

### NestedTransactions and Metamodel

`NestedTransactions` has one variable, `levels`: the committed store and a copy
for every open transaction. Begin pushes a copy, an edit changes the innermost
one, commit puts it in the place of the one around it, abort drops it.
`Metamodel` replaces the edit by a call that makes one object under a parent or
describes one object, in a transaction or without one.

### CoreProject

`store` and `base` are storage and what its transaction began with.
`objectHash` maps each object that is held to the stack of values of each of
its attributes (`_values`, oldest first, empty until it is first read);
`collections` does the same for back-pointer lists, which keep one value.
`transactionList` is the member of that name: read-only flag, created and
deleted objects, and the list of changed attributes, as a count for each
attribute. The list holds plain pointers to attributes, so a transaction also
knows whether one of them is gone (`dangling`). `fault` says how the process
died (`"assert"`, `"freed"`, `"crash"`), or that the project is closed.

Each public call is an action: `BeginTransaction`, `CommitTransaction` (nested,
outermost, or ending in an assertion), `AbortTransaction`, `Object` and
`RootObject`, `CreateObject`, `DeleteObject`, the end of the last reference to
an object (`Release`), `GetAttributeValue` and `SetAttributeValue` of plain
values, pointers, dictionaries and back-pointer lists, and the destructor. A
refused call is a stutter. What the code does without looking is kept: storage
refuses the begin of an inner transaction and nobody asks; it refuses a
malformed string or a pointer to an object that is gone and the value stays in
memory; the commit of a dictionary writes it whole at its first entry;
`ResolveBackpointer` changes lists in memory that no abort takes back.

The refinement mapping computes level *i*: for every object that no deeper
transaction created, each attribute's value as many places below the top of its
stack as deeper transactions list changes of it (`StoreAt`). So the refinement
says that stacks, lists and one storage transaction stand for the copies.

`Habits` says which clients a run has. A client without habits makes only calls
that are safe in every state. The others delete objects, drop objects with
uncommitted changes, go on with an object whose creation was aborted, guess
uuids, point to objects nobody holds, change a dictionary twice in a
transaction, leave in the middle, or assign a back-pointer list. For each habit
the code has an assertion that fails or memory that was freed, and the model
dies of it.

### MetaProject

Two variables over `CoreProject`: `call`, the core calls that the call in
progress has still to make, and `opened`, the transactions the client has open.
All accessors of the layer are made in few ways, and each way is an action:
`SetValue`, `GetValue` (`MetaBase.cpp:30-104` and the same code in every other
class), `GetOfProject`, `FindObject` and `RootFolder`, `CreateChild`
(`MetaBase.h:95-128`), `ObjectFromAttribute`, `GetConstraints`, deleting a
wrapper, opening, creating and closing a project. An action performs the first
core call and leaves the rest in `call`; `CallStep` performs them one by one.
The constructor is a call in progress at the start.

What the code does here that one would not expect, and the model has: the
getters of the project open a read-only transaction, in which the core project
refuses to read, so they have no answer (`GetOrKeep`); `GetConstraints` opens no
transaction, and outside one of the client's the read is refused and its
assertion fails (`MetaBase.cpp:117-118`); `FindObject` handles a uuid that is
not found, but the core project asserts that it is (`CoreProject.cpp:74`).
`Careless` names these two calls. Without effect on the state that is
modelled: `CommitTransaction` sets the date only of a dirty project, and nothing
calls `CoreProject::MarkDirty`; `SetDisplayedName` writes another attribute than
`GetDisplayedName` reads; two returns of `MetaPart.cpp` (83, 116) would leave a
transaction open, in a case that the metaproject table excludes.

## 3. Runs

All passing runs explore their whole state space.

| Run | Question | Instance |
|---|---|---|
| `TxnPointers` | do both ends of pointers stay together, through abort and undo? | 3 objects, 1 pointer attribute, 2 edits a transaction, journal of 1; no Redo, no deletion of objects pointed to |
| `TxnAtomic` | are transactions atomic, do the assertions hold, is `CoreStorage` implemented, and what makes pointers dangle, with any deletions and Redo? | 2 objects, 1 pointer, 3 edits, journal of 1 |
| `TxnHistory` | is the journal bounded and true to the history? | 2 objects, 1 plain attribute of 2 values, 2 edits, journal of 2 |
| `CacheDefault` | do edits, aborts and Save keep every object when nothing is evicted? | 3 objects, pointers, caching switched while nothing is in memory |
| `CacheBounded` | is anything lost, stale or used after it was freed when objects are evicted? | 3 objects, limits 1, 2 and none, one object changed |
| `SaveCrash` | what do Save and a death at any point leave on disk? | 2 names, 5 contents and none |
| `CoreNested` | is `NestedTransactions` implemented, and does a careful client ever die? | 2 objects, 1 pointer, 3 transactions deep, 3 values a stack, no habits |
| `CoreHabits` | do lists, stacks and storage match with every other client, over pointers? | 2 objects, 1 pointer, 2 deep, 7 habits |
| `CoreValues` | the same over plain values, refused strings and dictionaries | 2 objects, 1 plain attribute, 1 dictionary, 2 deep, 6 habits |
| `MetaCalls` | is `Metamodel` implemented, do calls balance and keep the tree, and which assertions fail? | 3 objects, 1 plain attribute, 1 pointer, 1 transaction of the client and 1 of the call |
| `ScratchOverwrite` | *violation*: a read moves where the scratch file is written | 3 objects, all changed |
| `CoreBackPointers` | *violation*: a back-pointer list gets the wrong identity | 2 objects, 1 pointer, no habits |

What they show together: with the default cache, no Redo over pointers, clients
that null pointers before deleting their target, and Save called between
transactions, the storage does what its interface says. A limited cache is safe
only while a single object is changed and no pointer is set. A saved project is
lost in two ways: `Create` under its name empties the file, and between the call
of Save that removes a file (the original, or with `forceOverwrite` another
one of the new name) and the rename, the process may die or, as for a forced Save
that returns `E_FILEOPEN`, Save may give up. Nested transactions do what copies
would do, for clients that delete nothing, hold what they change and point to,
and give everything up before they close the project; the stacks, the lists and
what storage holds agree for all clients, until the process dies of a habit (an
assertion that ends it ends what these runs say). The metamodel layer is one of
the careful clients, except in two calls: `GetConstraints` without a transaction
and `FindObject` of a uuid that storage does not have fail an assertion, and no
other call does.

Each of the conditions is needed. Where the code breaks its own words a
violation run shows it; the others are these.

- `Redo` hands `PointerUpdate` the old value where it needs the new one
  (`BinFile.cpp:2413`): with `MayRedo = TRUE`, `BackPointersMatch` fails.
- A string that storage refuses is journaled all the same (2189): with a
  malformed value `ImplementsCoreStorage` fails.
- `DeleteObject` says that it cleans up pointers "to/from" the object (2038) and
  leaves those to it as they are (TODO at 2066-2070): with `MayDangle = TRUE`
  pointers dangle, and moving one goes through `_indexHash.end()`.
  `OnlyDeletionDangles` says that nothing but a deletion, or the Redo of one,
  makes a pointer dangle.
- `SetAttributeValue` of a pointer keeps C++ pointers into an object that the
  fetch of the target may evict (1492): with a limit of one or two and pointers
  `OpenIsCached` and `NeverUsesFreed` fail.
- `DisableCaching` with objects in memory deletes unsaved changes (2301);
  `SetCacheSize(0)` makes every fetch return NULL (2314).
- Save removes the original before the new file is closed and renamed (1871).
- The commit of any transaction that deleted an object asserts that storage can
  open it (`CoreProject.cpp:259`), and storage has deleted it already: in a
  build with `DEBUG` no deletion can be committed.
- Back-pointer lists kept in memory are changed with the wrong identity, and an
  abort does not take that back. Lists in storage, and those read anew, are right.

One document is out of date: `Docs/CoreDocumentation.rtf:88` says that at the
level of the storage a committed transaction can not be undone; `Undo` and
`Redo` (`BinFile.cpp:2320-2447`) do just that, and the models follow the code.

**Bounds, and why they are enough.** `MaxEdits` bounds the entries in the lists
of one transaction: two are enough for create-then-delete, set-then-delete and
for two ends of a pointer; three add one more object or a second set around it.
Two objects give self-pointers and cycles; the third lets a pointer move from
one object to another. A journal of one reaches trimming and the boundary at
once, a journal of two gives undo after undo, redo after redo, and an entry
trimmed below others. Transactions themselves are not bounded. In the cache,
three objects and limits of one and two give every order of eviction around the
two objects a pointer joins; `MaxScratch` bounds the slots of the scratch file,
enough for each object to be written and overwritten. In the files module two
names give Save in place, under a new name and over another project, and
`MaxEdits = 5` leaves three edits, so that saved, committed and open contents all
differ, twice.

In the core project `MaxDepth` of three is the least in which an inner commit
meets lists that are merged once more, or aborted, by the transaction around
it; two are enough for what habits do. `MaxValues` of three lets an attribute
change twice above the value it was loaded with, in one transaction or in two.
Two objects give an object that stays (the root) and one that comes and goes,
and pointers of each to itself and to the other. In `MetaCalls` three objects
give a chain of parents, two values tell the name set from the one before, and
one level of the client's with one of the call's gives calls inside and outside
transactions; `CoreNested` has the depths beyond. Abort is a call of the client,
never of the layer, so deeper stacks add no way to end a call.

`CHECK_DEADLOCK FALSE` is set where a process that has died stops for good
(`TxnAtomic`, where clients may delete objects that others point to), in
violation runs with such clients, and in the runs of the core project and the
metamodel, whose project is closed in the end. Symmetry permutes objects other
than the root, and is not used where a temporal property is checked.

**Fairness.** No run assumes any. Every call is synchronous and waits for
nothing, neither for another thread nor for an answer, so that it comes to its
end is no question about this code; and clients may stop at any time, in a
transaction too. All temporal properties are about steps.

## 4. Proofs

`BinFileTxnProofs` proves, for any sets of objects, attributes and values, any
journal size, and clients that may delete what is pointed to and may redo:

- `TypeCorrect`: types;
- `ListsAreKept`: `ListsMatchStore` and `UuidsAreUsed`;
- `AtomicTransactions`: `TransactionsAreAtomic`, an action property: no edit
  changes the store that an abort would restore, and an abort that ends
  restores it;
- `JournalIsBounded`: undo and redo lists together hold at most `MaxUndo`
  entries;
- `NoAssertionFails`: `AssertionsHold`, no assertion of an abort, an undo or a
  redo fails;

for clients that delete nothing that is pointed to and do not redo (`Careful`;
section 3 says what happens with others):

- `PointersAreMutual`: `BackPointersMatch`;
- `NothingDangles`: no pointer outlives its object (`NoDanglingPointer`, stated
  in the module of proofs, since it follows from what such clients do);
- `CarefulClientsLive`: `NeverDies`;

and for values that storage accepts (`Malformed = {}`), with Redo and dangling
pointers again:

- `StorageIsImplemented`: `ImplementsCoreStorage`, step by step.

Besides these the only assumption is `ConstantsAssumption` of `BinFileTxn`, which every run
evaluates. The inductive invariant is
`IInv == TypeOK /\ ListsMatchStore /\ UuidsAreUsed`. `ListsMatchStore` alone is
not inductive: a create with a uuid that is among the deleted objects would
break it, so one must know that every uuid in the lists was handed out
(`UuidsAreUsed`), for which one must know the journal's uuids too. Types are
needed throughout, because change lists are functions whose domain grows.

The argument for atomicity: `Committed` is a function of the store and the
change lists. For each edit the proof shows that what the edit does to the
store is cancelled by what it does to the lists, one object and one attribute at
a time: a create adds an object that is taken away again; a set changes an
attribute whose first record restores it, and a later record keeps the first
old value (`Recorded`); a delete moves an object, with its pointers nulled and
recorded, to the list it is put back from. For an abort it shows that
`Rollback`, which also moves back-pointers and refuses malformed values, reads
as `Committed`; that needs the type of old values (never malformed).

The bound on the journal follows by itself: a commit trims before it appends,
Save does the same, undo and redo move one entry, and disabling journaling only
drops. It needs
that a commit empties the redo list.

For the assertions one must know that what an entry of the journal puts back is
absent, and what it takes away is present, when its turn comes, however many
entries are applied before it. The further invariant `Lines` says it without
recursion over the journal: there are sets of uuids, one before each entry of
the undo list and one after the last, between which the entries lead and which
end at the uuids that an abort would leave (`CommittedUuids`); and the same for
the redo list, in its direction. A commit adds an entry to the line of undo, an
undo moves the last one over to the line of redo, trimming drops the oldest.
Commits with journaling off would break the lines, and both lists are empty
then. The values of attributes play no part, so uuids are enough.

For pointers the line is one of views, that is of stores without back-pointers.
`SoundInv` says that back-pointers match in the store, that its pointers lead to
objects, and that the current lists, and before them each entry of the undo
list, lead back to a view whose pointers do, too (`Leads`). It speaks of an
entry as a whole: an abort or an undo takes back all pointers of an entry, and
what `PointerUpdate` does to back-pointer lists is stated for that set, so the
order in the hash of changes does not matter. `MayRedo` must be false because
Redo moves back-pointers to the value a pointer had before; `MayDangle` because
the objects that point to a deleted one keep their pointers.

The refinement needs the stores that `Past` and `Future` compute from the
journal. `StoryInv` says that entries lead from view to view up to `Committed`,
and that a record's new value is the current one (`Current`), which Redo will
set. A commit adds a view to the line of the undo list, an undo moves the last
over to the line of the redo list, trimming drops the first. A value that
storage refuses is recorded as new although the attribute kept the old one, and
Redo cannot set it: hence `Malformed = {}`.

`BinFileSaveProofs` proves, for any set of names and any number of edits:
`SaveTypeCorrect` (types and `Progress`), `SavedSurvives` (`SavedIsOnDisk`),
`WholeProjectsNamed` (`NamesHoldWholeProjects`), `ContentKept`
(`SaveKeepsContent`) and `FilesTidied` (`NoFilesLeftBehind`). The inductive
invariant is the types and `Progress`, which says at each step of Save what the
steps before it have done: no transaction is left open once everything is
written, the closed file holds the store, the renamed one does. Without it the
rename could give a project's name to any file. Each action property then
follows one action at a time; for `SavedIsOnDisk` the case that matters is the
handing over from the original (`SaveRemove`) to the closed temporary file
(`SaveClose`) to its name (`SaveRename`), in which only a death loses anything;
`Loses` names the other steps that do, `Create` and the failing `SaveOpen`.
`SaveKeepsContent` has two cases at `SaveLoad`: the file is loaded and `Progress`
says that it holds the store, or nothing is loaded, the storage is empty and the
same file still holds it.
The assumption is `ConstantsAssumption` of `BinFileSave`.

`CoreProjectProofs` proves, for any sets of objects, attributes and contents,
any depth and clients with any habits:

- `TypeCorrect`: types;
- `ReadOnlyIsEmpty`: `ReadOnlyHasNoChanges`;
- `WaitsForTheOutermost`: `StorageWaits`;
- `LoadedAgrees`: `LoadedIsStored`.

The base is `TInv`, types and `ListedAreHeld`: a transaction lists changes only
of objects that are held, because giving one up takes its entries out (and
leaves `dangling`); without it the commit reads attributes of objects that are
not there. `ReadOnlyHasNoChanges` is inductive over it: the innermost
transaction is the one that changes, and it is read-only when any around it is.
`StorageWaits` needs `StoreInv`: uuids of the store, of its base and of what is
held were handed out, an object in a list of created ones was not in the base,
an object that is held and was in the base is still in storage (it is locked
against deletion), and between transactions the base is the store. `LoadedIsStored` is proved as `FirstIsStored`, which also speaks of
projects that died; the case that matters is the outermost commit, which writes
the last value of a stack and keeps only that one, except where storage refuses
it and the stack stays, and the abort, which never takes the first value
because `AbortFault` would have been an assertion.

`CoreNestedProofs` proves, for clients with any habits:

- `EntriesAreBacked`: `EntriesHaveValues`.

The property counts the entries of all transactions deeper than a level with a
fold. By `FoldLemmas` the count for one level is the count for the next and the
entries in between, which is all the proof needs: begin adds a level without
entries, an inner commit moves entries one level out, an abort takes away as
many values as entries, a set adds one of each, and giving up an object takes
all of its entries. `EntriesBacked` is inductive over `TInv`.

`CoreSafeProofs` proves, for clients with no habit but `assigns` (`SafeClient`:
a back-pointer list that is assigned changes in memory only), at any depth and
with any number of values a stack:

- `SafeClientsLive`: `NeverDies`;
- `PointersLead`: `PointersResolve`;
- `NestedIsImplemented`: `ImplementsNestedTransactions`, step by step, for
  values that storage accepts.

`SafeInv` adds to the invariants above that nothing deleted, gone or created
twice is in a list, that an entry is about an object which exists at the level
of its transaction, that a stack is as long as its entries ask for, and that at
every level an abort may go back to all pointers lead to an object. That last
part is what is not obvious: an abort removes objects from storage, and pointers
to them must go with it, at whatever depth they were set. The refinement then
computes, for each step, what happens to `ValueAt` of each level: begin copies
the innermost, commit drops the one outside it, abort drops the innermost, an
edit changes that one alone.

`BinFileCacheProofs` proves, for any objects and values, any cache sizes, and
clients that set pointers and switch caching off at any moment:

- `TypeCorrect`: types, also after a call has failed;
- `CleanObjectsAreSaved`: `CleanIsSaved`;
- `QueueListsMemory`: `QueueIsMemory`, for clients that leave caching on
  (`~Toggles`): `EnableCaching` starts with an empty queue whatever is in memory.

Every helper is shown to take a `Neat` storage to a `Neat` one: types; the queue
has objects in memory, each once; an object that is not dirty is as in the input
file. An object may be evicted while the call that changes it is still going on
(`CleanBut` excepts the one that is being read from the scratch file, which is
marked dirty only after the cache has been trimmed), and `PointerUpdate` changes
two objects, either of which the other's fetch may have evicted. For the loops
of `TryAbortTransaction` one must know that objects that come back are in no
other place, and are as clean as when they were put aside (`DeletedAreAside`).

For the default cache (`DefaultCache`) it proves

- `NothingIsLost`: `ContentPreserved`;

and for a cache of any size but zero, and clients that set no pointers
(`PlainClients`):

- `OpenStaysInMemory`: `OpenIsCached`;
- `NothingFreedIsUsed`: `NeverUsesFreed`.

`DefaultCache` says that there are finitely many uuids and the cache has room
for an object of each (`BINFILE_DEFAULTCACHESIZE` is the largest size there is),
that no client asks for another size or switches caching off with objects in
memory, and that a `NULL` pointer is no object. Clients may set pointers, create,
delete, commit, abort and switch caching off when memory is empty. With a smaller
cache `ContentPreserved` is false: the run `ScratchOverwrite` shows how an object
is lost.

The inductive invariant is `WholeInv`. `Holds` says that every object of `truth`
is in memory or, untouched, in the input file; the queue names each object once,
so it is never longer than the cache and no fetch evicts. `Accounted` says what
the lists of the open transaction know: there is a table `W` of all its objects,
deleted ones included, in which pointers and back-pointer lists agree; a record
of a changed object holds its value and its pointer at the start, an object
without a record has them still. Putting deleted objects back gives `W`,
rolling back the records, in any order, gives each object its pointer at the
start, and taking out the created ones leaves `committed`: the back-pointer
lists, which no record holds, come out right because they follow from the
pointers (`Mutual`). Each of the three loops is an invariant of its turns. TLC
checked `WholeInv`, with `W` computed, on the run `CacheDefault` first.

`PlainClients` says that no pointer is set, that no size is zero, and that
caching is not switched off with objects in memory; with pointers both
properties are false (section 3), and so they are with a size of zero. Any number
of objects may be changed, so content may well be lost: what is proved is that
something is found at every place where the code looks for an object. The
inductive invariant is `SmallInv`. `Solid` says that nothing has failed and that
an object said to be in memory or in the input file is there; `ChangedFound`,
`CreatedFound` and `PutAside` that every object in a list of the open transaction
is in the index or among those put aside. An eviction moves an object from one place
to another and `Solid` stays (`Solid` also says that no pointer is kept in any of
the three places, so that what comes back from a file brings none along). The
object just fetched is first in the queue (`Ahead`), and eviction takes the last
and stops when the queue is as long as the limit, one at the least; so the object
fetched stays, and since a call fetches nothing else, so does the open one.

`FoldLemmas` proves induction over natural numbers and finite sets in the form
of a least counterexample, from it what a fold over a finite set is when one
element is taken away, how sums split, and that a fold over a sequence is the
last of a sequence of intermediate results (`FoldTurns`), so that what each turn
keeps the fold keeps. These are first-order facts and are cited by name.

`MetaProjectProofs` proves, for any metamodel, any attributes and any depth:

- `MetaTypeCorrect`: `MetaTypeOK`, so every core call a call has still to make
  is one on objects and attributes that exist;
- `BalancedCalls`: `Balanced`;
- `ClientOfCore`: each step is a step of `CoreProject`, nothing, or a failed
  assertion, so what is proved of all clients of the core project holds here;
- `CallsKeepStorage`: `StorageWaits` and `LoadedIsStored`, in the middle of
  calls too;

and, for a layer without habits of its own (`Plain`: what it does with core
objects is what its calls say):

- `OnlyCarelessClientsDie`: `OnlyCarelessCallsDie`;
- `EverythingBelongs`: `ContainmentTree`;
- `CallsAreOneStep`: `ImplementsMetamodel`, for values that storage accepts.

The inductive invariant is `MetaInv`: `TInv`, types and, while the process
lives, `Plan(call)`. A plan is a sequence of core calls for which there is a
function `d`, the number of transactions the call has open before each step:
it starts with those open now, goes up by one at a begin and down by one at a
commit, is zero or one, one where the call writes, and zero at the end; the
client's transactions below are untouched and may all write. `Balanced` alone says nothing while a
call is in progress. The proof shows that every call begins with a plan, that a
step leaves the tail of one (`PlanGoesOn`), and that an empty plan is a balanced
state (`ReadyIsLevel`). Fetching what a list names, one by one, keeps the plan.
The further assumption is `TableAssumption`: the table of attributes is finite.

`OnlyCarelessClientsDie` rests on `SafeInv` of `CoreSafeProofs`, which asks that
what a client fetches is there. Here it is, or the call is a careless one and an
assertion ends the process. `Fetchable(call)` says it of the core calls still to
come: one that follows a pointer follows what the call has loaded or is about to
load, a list that is gathered has been collected, and one that is collected may
be read. A list may be older than the call that gathers it, so `ListsNameOld` is
needed too: a list in memory names only what storage had when its transaction
began, which no abort takes away, or the object the list belongs to.

For `EverythingBelongs` the invariant is `TreeWith(call)`. Every level below the
innermost leads to the root, and so does the innermost, unless the next core
call is the one that links a new object. Then the innermost level is one that
leads to the root with a blank object added (`HalfMade`), and the new object and
its parent are what the call names. `Linked(call)` says that a call which
creates links at once. The relation `Below` is the least closed set, stated as
what is in all closed sets, so that no induction is needed: a level with one
more object under an old one is shown to be closed and least (`RootedChild`).
As the half-made level is deeper than the client's own (`TreeOfClient`, by the
counts of the plan), no client sees it.

`CallsAreOneStep` maps the client's levels to the levels of `Metamodel` and
leaves out the one a call works on. `CallSoFar(call)` says by what that level
and the client's innermost transaction, `Before`, differ: by plain attributes of
the one object the call goes on to set (`DescribedAt`), by a blank new object
about to be linked (`NewOne`), or by a linked child with the commit next
(`IsChild`). So only the commit of a call changes what the client sees, and it
changes as much as one step of `Metamodel` does. Begin, commit and abort of the
client come between calls, where no level is left out; there the steps are those
of `CoreSafeProofs`. `Malformed = {}` is needed because a value that storage
refused is read from memory until its object is released, and then the old one.

Only model-checked:

- `ContentPreserved` of `BinFileCache` with a small cache (run `CacheBounded`),
  where it holds as long as one object is changed;
- `OnlyDeletionDangles`, for two objects and all clients; proved is
  `NothingDangles`, for careful ones.

There is no liveness property.

## 5. Not modelled, and why

- **Compression and encryption** call a library on buffers and change no other
  state. **The metaproject** is a table built once; the modules take attributes
  as constants. **Uuids and timers** are external. The **interfaces** have no
  behaviour.
- **The registry of storage factories** (`CoreStorage.cpp`) is filled before
  `main` and then only read.
- **Mga project, territories.** No `MgaProject` comes into being: `Open` reads
  attributes of the root in a read-only core transaction, which
  `GetAttributeValue` refuses with `E_TRANSACTION`, and asserts success;
  `Create` returns no project; the body of `AbortTransaction` is commented out.
  There is no state that a model could start from.
- **Mga objects and registrar** are for the greater part commented-out COM code
  and Windows registry calls; the live part needs an `MgaProject`.
- **Parser.** Recursive functions walk a DOM document and call the metamodel
  layer; they keep no state and open no transactions. For a folder inside a
  folder, `XmpParser.cpp:349` passes the variable it is just declaring, not yet
  initialised, as the parent, and models do likewise; from the second level on
  what a parse does is undefined, and one level is a row of calls of
  `MetaProject`. The project is declared again inside the `try` block, so the
  exits through an error do not delete it and its scratch file stays.
- **Of the metamodel layer**: registry values and nodes (dictionaries, which
  `CoreProject` has, reached through nested nodes), `Save` (which `BinFileSave`
  has), and calls whose body is `ASSERT(false)`.
- **Of the core project**: reference counts beyond whether an object is held,
  hence assigning a `CoreObject` to itself; Save, which is refused while a
  transaction is open and otherwise handed to storage. Undo and Redo have no call of
  their own there; `CoreProject::Storage` (`CoreProject.h:67`) hands out the
  storage itself, and a client that undoes through it goes past what the core
  project keeps in memory.
- **Of storage**: names of files that collide; `SetCacheSize(0)`;
  `DisableCaching` with objects in memory, apart from what section 3 says.

The directories `Include/` (googletest, Crypto++, Xerces) are third-party code
and by far the greater part of the lines of the repository.

## 6. Plan

Done: storage (`CoreStorage`, `BinFileTxn`, `BinFileCache`, `BinFileSave`), the
core project and the metamodel layer, each with an abstract specification of
what it promises, and proofs. What is left is a proof:

- `ContentPreserved` of `BinFileCache` for a small cache and one object that is
  changed, the clients of `CacheBounded`.
