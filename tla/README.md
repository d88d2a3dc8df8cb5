# Verification of go-maemmidb

go-maemmidb is an in-memory database for Go, compatible with go-memdb: MVCC over
immutable radix trees, one writer at a time, any number of lock-free readers,
and watch channels that close when what a query saw has changed. This directory
holds TLA+ models of it, the TLC configurations that check them, and theorems
about them that TLAPS proves. File and line numbers refer to `src/`.

## Inventory

| Component | State it keeps | Operations | What is hard, and what makes it correct |
|---|---|---|---|
| Database and transactions (`memdb.go`, `txn.go`, `memdb_root_*.go`) | the root pointer, the writer mutex; per transaction the version it started from, the tree transactions started so far, the notifier, deferred functions | `Txn`, `Commit`, `Abort`, `Txn.Snapshot`, `MemDB.Snapshot`, `Defer`, every read | writers change nodes in place while readers run; channels must close after the new root is visible, for every node replaced and for no other database; a commit must not undo another; the lock must come free |
| Row writes (`txn.go`) | the trees of a table | `Insert`, `Delete`, `DeleteAll`, `DeletePrefix` | several indexes must stay in step through updates that move keys, failing indexers, loops over an index being changed |
| Change tracking (`txn.go`, `changes.go`) | the list of changes | `TrackChanges`, `Changes` | the collapsed list is cached and appended to; the net effect must not change |
| Bitmap indexes (`bitmap_index.go`) | per table the map from primary key to row id, the row vector, the sets of ids in use and free, the counter; a bitmap per value | maintained by every write; `Where`, `WhereWatch`, `AllRows`, `RowSet` algebra | ids are reused; the bookkeeping is frozen and published with the trees; sets of different states must not be combined |
| Persistent bitmap and vector (`internal/bitmap`, `internal/pvec`) | tries whose nodes carry the epoch of their writer | `Set`, `Clear`, `Freeze`, `And`, `Or`, `AndNot`, iteration | in-place changes by epoch ownership; growing and shrinking at chunk boundaries |
| Watch sets (`watch.go`, generated `watch_few.go`) | a set of channels; per call goroutines and two channels | `Add`, `AddWithLimit`, `Watch`, `WatchCtx`, `WatchCh` | no wakeup lost, no goroutine left, timeout racing a close |
| Schema compilation (`schema.go`, `schema_compile.go`) | tables, indexes and slots, immutable; name tables sorted by length | `Validate`, `compileSchema`, `nameIndex.get`, `compiledIndex.keys` | counting sort and bisection at their boundaries; `_prefix` names; values and primary keys that run together in a key |
| Indexers and encoding (`index*.go`, `extract*.go`) | caches of field locations; sub-indexers compiled from a list the user may change | `FromObject`, `FromArgs`, `PrefixFromArgs`, each in a fast and a slow version | the two versions must agree; the order of encoded keys; racing caches |
| Typed API (`typed.go`) | the cached resolution of a key handle | typed indexers, key handles, wrappers of `Txn` | one handle used with several databases at once |
| Iterators (`filter.go`, `seq.go`) | none shared | adapters | - |
| go-juuri (dependency, not in `src/`) | the radix trees, the notifier | `Insert`, `Delete`, `Freeze`, `Commit`, `Notify` | modelled as far as this code relies on it |

Components interact by calls within the goroutine that owns a transaction, by the
root pointer and the writer mutex between goroutines, and by watch channels: a
commit closes them, a watch set waits for them.

## Modules

**`Store`** is the abstract specification of the database: versions, one open
write transaction per database that works on a copy, commits that replace the
version in one step, reads whose result never changes. No trees, locks or
notification.

**`MemDB`** is the transaction core. An index tree is its root node, a cell of
`heap` whose content is the number of the write that produced it; path copying
belongs to go-juuri, but *who may change a node in place* is decided here, and is
modelled: a node carries the transaction and epoch that made it, a write changes
it in place if both are the writer's, copies it otherwise, and `Freeze` starts a
new epoch. A node is also its watch channel. Goroutines run
`BeginWrite` - `Lock` - `LoadRoot` (memdb.go:108-116), then any of `Write`,
`InsertFails`, `DeleteMisses`, `TxnGet`, `TxnSnapshot`, `Defer`, and end with
`Abort` or with the steps of `Commit` in the order of txn.go:259-314: `Publish`
(or `CommitEmpty`), `NotifyOne` for each channel, `Unlock`, `RunDeferred`,
`CommitReturns`. `ReadTxn`, `Watch` and `Snapshot` may happen at any moment.
`RefinesStore` maps it to `Store`: a version is the content of a published root,
an open transaction the content of its trees, and the commit point is the store
of the root.

**`RowWrites`** is what the writes of one transaction do to the rows and indexes
of a table, with rows, keys and values as model values: `Insert` with its
position-by-position comparison of keys, `InsertFails` with its undo, `Delete`,
the loops `DeleteAll` and `DeletePrefix` one row per step, the bookkeeping of
bitmap indexes (`Rebitted` is `applyBitmaps`), and the list of changes. Scans
visit entries in any order, which covers every key order.

**`WatchSet`** is a watch set and the calls that wait on it: one select for a
small set (`Few`), and for a big one the early check, the goroutines per chunk,
the report channel of capacity one and the stop channel.

**`Bitmap`** and **`PVec`** are the persistent tries of `internal/bitmap` and
`internal/pvec` as operators on a heap of nodes: `Set` and `Clear` with growing,
copying, in-place changes by epoch and lowering; `Least` is the id that an insert takes
from the free ones. **`BitmapAlgebra`** makes bitmaps of others: `And`, `Or` and `AndNot`,
slot by slot, with the sharing of operand subtrees. **`BitmapOps`** visits all ids: the
iterator with its path of frames. An operation takes a heap and returns the heap it leaves, so an in-place change is
seen by whoever holds the node. A node's packed arrays are a set of bits and a
function from slots to children. `Bitmap`, `BitmapAlgebra` and `PVec` descend with recursive functions on
the height, which proofs can unfold, `BitmapOps` with recursive operators; `IsVec` says what a
vector is: a tree without shared nodes whose counts are exact and not zero.

**`RowSets`** runs them: databases that share nodes, each with at most one write
transaction. `Insert` and `UpdateOrDelete` are `applyBitmaps`; `Read` and `Take`
are `Where` and `AllRows` in a read and in a write transaction, the latter with
`freezeRows`; `Commit` and `Abort` end with `release`, which the pool of write states relies on. A version also carries, as a
ghost, the table it should describe, and a row set the ids and the table it was
made with. Node names are reused once nothing refers to a node, as the garbage
collector does, which keeps the state space finite. That the index trees hold the
bitmaps is `MemDB`'s and `RowWrites`' concern; here a version names them. **`RowAlgebra`** goes on with what uses
`BitmapAlgebra` and the recursive operators of `BitmapOps`: queries for several values, which are unions (`ReadPrefix`,
`TakePrefix`), and `Combine`, the algebra of `RowSet`, on row sets that readers keep while
the transactions of `RowSets` go on (`AlgebraSpec`).

**`Epochs`** is the abstract specification of what may be changed in place: nodes carry
the epoch they were made in, a writer changes only those of its own epoch and draws a
new one after each `Freeze`, and it is frozen before anybody else gets what it has
built. What nodes hold and how tries are built is left out. `KeepsEpochs` maps `RowSets`
to it twice, the nodes of bitmaps with `bmW` (`Bits`) and those of row vectors with
`vecW` (`Vecs`): what a version or a row set refers to is the set of nodes reachable
from it.

**`Caches`** is what goroutines share without a lock besides the root: the
resolution of a key handle (typed.go:488-511), and the two levels of field
locations, an entry per extractor and a process-wide table whose slots collide
(extract.go:264-310). A step is one atomic load or store together with the local
work after it; reflection and the compiled schema are functions given as
constants, because neither changes.

**`Names`** and **`Keys`** are pure. `Names` is the counting sort of `nameIndex`
(start, count, counted, place, done, in this order as in the code), its lookup
with the bisection of crowded lengths, and the rule for names with a suffix.
`Keys` makes keys of objects and arguments the slow way (`Slow`, `SlowArgs`:
index.go and the methods of typed.go) and the fast way (`Fast`, `FastArgs`:
extract.go), and `FromObject` and `FromArgs` are the exported methods, which try
the fast way first. Indexers are records in a heap that the user may change after
they were compiled; compounds name their sub-indexers in it.

**`Queries`** composes them: a schema is compiled, rows are inserted, replaced and
deleted, the user may change indexers before the first row, and queries are
operators on the state: `IndexValue` is `getIndexValue`, then `FirstRow`,
`LastRow`, `Get`, `LowerBound` and `ReverseLowerBound`. What they should return is
stated with values (`Tuples`, `ArgTuple`) instead of keys. How inserts keep
several indexes in step when one fails is `RowWrites`' concern; here keys have
their bytes.

**`MemDBProofs`**, **`CachesProofs`**, **`WatchSetProofs`**, **`RowWritesProofs`**,
**`EpochsProofs`**, **`PVecProofs`**, **`BitmapProofs`** and **`RowSetsProofs`** hold the
theorems. The `MC*` modules give the constants of the models small values.
Operators marked "Mutant" are wrong versions of the definition after them; no
specification uses them. With one of them in place of the definition a property
fails, which shows what the property is sensitive to.

## What TLC checks

| Run | Bounds | Shows |
|---|---|---|
| `memdb` | 2 goroutines, 2 transactions, 1 table with 2 indexes, a database snapshot | what readers hold never changes (`ViewsStable`), no wakeup is lost (`NoLostWakeup`) or useless (`WokenSeesNew`), no commit undoes another (`NoLostUpdate`), and `MemDB` implements `Store` (`RefinesStore`) |
| `memdb_live` | fair goroutines, `MaxTxns` 2 | commits return, waiting writers get the lock, stale channels close |
| `rows` | 3 primary keys, 7 objects, 3 indexes, 5 calls | the indexes, row ids and changes stay in step; deletes delete what they say; no assertion fails |
| `watch_set` | 4 channels, one per select and two per goroutine, 2 overlapping calls | results are true, and no channel is left without a goroutine |
| `watch_live` | the same with 1 call, fair goroutines | calls return and their goroutines end |
| `row_sets` | 2 databases, 5 row ids of which 4 in use, 1 value, 2 writes, 2 row sets; chunks, leaves and directory nodes of 2 | row sets never change, versions describe their table, counts of the vector are exact, sets of different states are told apart, and nodes are changed in place as `Epochs` allows (`KeepsEpochs`) |
| `row_sets_ops` | `RowAlgebra` with 1 database, 2 values, 1 write, 4 row sets | the algebra gives the right ids, exact counts, canonical heights and shared nodes; iterators return every id in order |
| `caches` | 2 goroutines, 2 schemas, 2 types, 2 field names that collide in a slot | a handle resolves to the index of its own schema, a field is read where its own type has it |
| `queries` | 474 states: 218 choices of names and six tables of rows; bytes below 6, integers of one and two bytes | names mean what a plain search says; the fast and the slow way agree on every object and argument; rows keep their entries apart; queries return exactly the matching rows, range scans in the order of values |
| `prefix_panic`, `prefix_dangling`, `reverse_bound` | as `rows` with 3 calls; as `queries` | the findings below |

The bounds let each interesting case happen: two goroutines with two transactions
contain every pair of racing commits (channels older than the version before the
last are covered by the theorems); two indexes or tables suffice for a
transaction that starts some trees and not others; two rows with three objects
each contain updates that move, swap, drop and repeat keys; four channels in
chunks of two contain full and partial chunks. The fifth row id is the first that
needs a second directory level, and removing it drops one; two writes of one
transaction with a row set between them, or of two transactions on shared nodes,
are the shortest way to a wrong in-place change. Combinations of combinations
meet equal, disjoint and contained operands of different heights. Index content is a counter and
row ids wrap at `IdSpace` for 2^32; `rows` has fewer ids than inserts, so they run
out, are given back and are used again.

`queries` scales numbers down and keeps their relations: a byte has `Base` = 6
values, so numbers of one and two bytes cross every byte and sign boundary; a UUID
has `UUIDLen` = 6 characters, two of which are hyphens, and two bytes; names are
bisected beyond `CrowdedLength` = 2, so that both sides of the threshold, sorted and
unsorted lengths and empty ones occur; the fast way takes compounds of at most
`MaxDepth` = 3 sub-indexers, so that some are declined. The tables hold texts that
begin one another, negative numbers, missing and repeated values, maps, compounds
of compounds, pointers and values, and arguments of the wrong type, width and
number for every indexer. Two kinds of data are left out of the *rows* (not of the
objects and arguments the two ways are compared on): text with embedded zero bytes
and UUIDs of full length with a hyphen missing, which are longer than 16 bytes. Both
make keys of which one begins another, in go-memdb as well, and no code guards
against them. Where an index allows values to be missing (`AllowMissing` of a
compound), rows have values of different lengths and a query for a short one also
finds the longer ones that begin with it, though the comment on `Get` speaks of exact
matches (txn.go:848-850); `GetExact` asks less of these. A table allows stored rows
to be replaced and deleted in any order.

*Fairness.* `FairSpec` of `MemDB` assumes that a goroutine inside the library
keeps running, that the writer mutex is starvation free (Go's hands over to a
waiter of 1 ms), which is strong fairness of `Lock`, and that callers end their
transactions, which the API requires of them. `FairSpec` of `WatchSet` assumes
running goroutines, and that the commit which closes the channel of a row
goes on to close that of the node above. Nothing outside is assumed: channels may
stay open, the context and the timer may never come. Deadlock is not checked for
`WatchSet`, where a wait for what never happens is legal.

## What is proved

Everything here is proved for any number of goroutines, tables, indexes, schemas,
types, slots, objects, keys, row ids, channels and any bounds, from the assumptions on
the constants that the models declare and, for `RowWrites`, the two named below.

**Isolation** (`MemDBProofs`).

- `TypeCorrect`: `Spec => []TypeOK`, and `Isolation`: `Spec => []ViewsStable`.
- Both follow from `Inductive`: `Spec => []IInv`. `ViewsStable` is not inductive: it
  has to be known that the nodes a writer changes in place are in no view. `IInv`
  adds that every node in use is in the heap (`HeapOK`), that serial numbers of
  running transactions are distinct and not exceeded by any node (`SerialsFresh`),
  and that a node of the current epoch of a transaction is in no published root,
  no other transaction and no view (`OwnedIsPrivate`). There is one lemma per
  group of actions and invariant part; `Freeze` preserves the last part because
  it moves the epoch before the node escapes.

**Updates and wakeups** (`MemDBProofs`).

- `NoUpdateLost`, `NoWakeupLost` and `WakeupSeesNew`: `Spec` implies
  `[]NoLostUpdate`, `[]NoLostWakeup` and `[]WokenSeesNew`.
- All three from `WInductive`, whose invariant `WInv` extends `IInv`. `LockHeld`: a
  transaction that has loaded the root holds the lock of its database. With it, the root
  cannot change under a writer, which is `NoLostUpdate`. `PublishedAccounted` and
  `OpenAccounted` say where nodes can be: one made by a published transaction is in
  the current version, closed, or in the notifier of a commit that has still to close
  it; one that an open transaction has made or started from is in its trees or in its
  notifier. The first is the second at the moment of `Publish`. The notifier is started only if the
  database is the primary one (`NotifierIdle`), and what it holds has been
  replaced (`NotifiesReplaced`), so a channel never closes early.

**Refinement** (`MemDBProofs`). `Implements`: `Spec => RefinesStore`. The
mapping is `AbsStore` (the content of each published root), `AbsPending` (what an open
transaction's trees hold, from the load of the root until the store of the next one)
and `AbsSeen` (what a view showed when it was taken). `Init` maps to `Store`'s initial
state, and each action to one step or to a stutter: `LoadRoot` to `Begin`, `Write` and
`InsertFails` to `Change` (the latter leaves the content as it was), `Publish` and
`CommitEmpty` to `Commit`; taking the lock, notification, deferred functions and the release of the lock change nothing. The
steps that read use `IInv`, because a view stays what it was.

**Caches** (`CachesProofs`). `TypeCorrect`, `HandlesAreSafe` and `FieldsAreSafe`, from
`Inductive`: whatever is in a cache, in a loaded pointer or about to be stored is
right for the schema, or the type and name, it carries. No cache has to be
current, only self-describing, which is why an overwritten entry does no harm.

**Watch sets** (`WatchSetProofs`). `TypeCorrect`, `ResultsAreReal` and `NoneForgotten`:
`Spec` implies `[]TypeOK`, `[]ResultIsReal` and `[]NoChannelForgotten`. The invariant
`IInv` follows the fan-out (`FanOut`): each channel of the set is still to be given to a
goroutine, or has one, or a report is on its way, and a call that waits has nothing left
to give. `Witnessed` adds that whoever reports has seen a channel of the set closed,
`Results` that a call without a result has not returned.

**Row writes** (`RowWritesProofs`). `EntriesReferToRows`, `RowsAreFound`, `RowIdsAgree`
and `NoOtherPanic` (`IndexSound`, `IndexComplete`, `RowIdsExact` and `NoPanic` always
hold), `DeletePrefixDeletes` and `DeleteAllDeletes`.

- In the middle of `DeletePrefix` no invariant of the table itself holds: the rows
  visited are still in the index that is going to be cut. The proof looks at the
  *settled* table (`SettledRows`, `SettledEntry`), which leaves them out. There a visit
  is a `Delete`, and the cut no step at all. `IInv` says that the settled table is
  `Whole` at all times, and where the loop is (`PrefixLoop`).
- `Whole` has two parts that each write keeps separately. `Indexed`: rows and entries
  agree (`IndexedStays`; `MovedIs` shows that the comparison position by position takes
  out the old keys and puts in the new ones). `Numbered` and `Counted`: the row vector
  and the ids are inverse to each other, and ids in use, free ids and bitmaps follow
  from the row vector (`NumberedStays`). A row that is there thus always has an id,
  which is `NoOtherPanic`.
- `PrefixAssumption`: `DeletePrefix` is used on the primary index or on indexes with at
  most one value for each row, and cuts where it scans or nowhere. Without it the
  theorems are false, as the findings show. `DeleteAllDeletes` also needs
  `OnceAssumption`: the query of a `DeleteAll` meets a row once. Otherwise it stops at
  the second visit, as documented. The queries of the run `rows` satisfy both.

**The list of changes** (`RowWritesProofs`).

- `TypesHold`: `Spec => []TypeOK` of `RowWrites`, with no assumption on queries.
- `ChangesExact`: `Spec => []ChangesAreNet`. What `Changes` returns has one change for each
  object that differs from when tracking began, with the right two values, and none for
  one that came and went, although the list it is computed from is itself collapsed,
  cached and appended to.
- It rests on `CollapsedIsExact`: collapsing any list that is *net* (`Net`: the changes of
  an object chain up, and lead from the rows at the start to those of now) gives the exact
  net effect. The positions of the collapsed list are counted off with cardinalities
  (`RankOfSome`), by taking the least counterexample where one would use induction. The
  invariant `LogNet` says that the list is net at all times, and of the *settled* rows:
  inside `DeletePrefix` on the primary index the changes are logged before the rows
  are cut (`IdLoop`).
- `CutAssumption` is weaker than `PrefixAssumption`: `DeletePrefix` on the primary index cuts
  where it scans or nowhere. Queries of the other indexes are free: with a multi-value
  index `DeletePrefix` leaves entries behind and may panic, but what it logs is right.

**Ownership of nodes** (`EpochsProofs`), for any databases, nodes and epochs.

- `KeptIsStable`: `Spec => []Stable`. What a reader keeps it sees unchanged.
- `OnlyPrivateChanges`: `Spec => ChangesPrivate`. A step changes in place only what one
  write transaction has made and nobody else can see.
- Both from `Inductive`: writers that own something have different epochs (`Distinct`),
  those of databases without a transaction own nothing (`Released`), and no version, row
  set or other transaction has a node of the epoch a writer is in (`OwnedIsPrivate`). All
  steps but `Write` are one lemma (`QuietStep`), whose hypothesis is what each call of
  `Freeze` is for: whoever gets to see nodes of a writer finds it frozen after the step.
- These are theorems about every system that follows `Epochs`. `RowSets` does
  (`WritersImplement`, below), with its bitmaps and with its row vectors.

**The row vector** (`PVecProofs`), for any sizes of nodes (`Sizes`: a leaf has a slot, a
directory node two), any height, index, value and finite heap without dangling children
(`Heap`, `Closed`).

- `SetIsUpdate`: if `v` is a vector (`IsVec`), `Set` returns a heap and a vector (`Updated`)
  such that `Get` finds the value at the index and elsewhere what it found before; the
  vector returned is whole, so every count is exact and no empty node is left; every other
  node of the heap is new, with the writer's epoch, or was there, and then it is the same
  unless it is a node of `v` of the writer's epoch.
- `SetIsPersistent`: a vector without nodes of the writer's epoch is what it was, whatever
  nodes it shares with `v`. With `Epochs` this is why a published version or a snapshot does
  not see a write.
- The argument is an induction on the height, on the statement `PutOk` (`PutIs`). A leaf is
  `LeafOk`, a directory node `InnerOk`. What makes the step work is that the write below one
  slot does not touch the nodes below the others: `FrameIs` says that a subtree none of
  whose nodes has changed has the values it had, and `Apart` in `Whole` that children have
  no node in common. The count is added up by cardinality: exactly one place below a node
  changes (`CountIs`), and a child that is shared between versions cannot be counted after
  the write (the mutant `SetInnerCountsAfter`). `GrowOk` shows that the levels put on top
  change no value.
- The library's induction takes an operator, which the provers cannot instantiate.
  `SetInduction` states it for a property given as a set of numbers, from the fact that `<`
  is well-founded; and `RecursionExists` that a function defined by recursion on the height
  exists, from the set of its approximations, so that the recursive definitions can be
  unfolded (`GetUnfold`, `NodesUnfold`, `WholeUnfold`, `PutUnfold`, `GrowingIs`).
- That the vectors of `RowSets` satisfy the hypotheses is `VectorsWellFormed` (the same
  `IsVec`), proved below.

**The bitmap** (`BitmapProofs`), for any sizes of chunks and directory nodes, any id,
epoch and finite heap of nodes whose children exist, are in slots and one level lower
(`Good`).

- `SetAdds` and `ClearTakes`: if `b` is a bitmap (`IsBitmap`), `Set` and `Clear` return a
  heap and a bitmap in which `Has` finds the ids of `b` with, or without, the one given.
  The heap is `Good` again, and nodes in it that differ are new or were nodes of `b` of the
  writer's epoch (`Comes`), so the theorems apply to any sequence of calls, from the empty
  heap and `Nil` on. `Low` in `IsBitmap` is that no level is to spare: the directory grows no
  higher than the id needs, and `Clear` drops the levels that only lead to child 0. That two
  bitmaps with the same ids have the same height, which `Or` relies on, follows from it.
- `SizeExact`: the count that `Len` reads is the number of ids that `Has` finds.
- `LeastIn`: if `b` has an id, `Least` is one that it has. The free ids an insert draws from
  are thus free.
- `OthersStay`: a bitmap without nodes of the writer's epoch keeps its nodes, ids and count,
  whatever nodes it shares with the one that is changed.
- `AlgebraExact`: `And`, `Or` and `AndNot` of any two bitmaps of a heap in which every node
  counts what is below it (`Sound`), whatever their heights and however they share nodes, have
  exactly the ids they should. The result is `Nil` or `Low`, its count is the number of its
  ids, the heap is `Sound` again, no node of it has changed, and the new ones have epoch 0,
  which is no writer's. The argument is an induction on the height for the two nodes in step
  (`Works`, `WorksAll`) and, inside a directory node, one on the slots, because the nodes made in
  one slot are in the heap of the next (`ChildrenMakes`). That a node which equals an operand's is
  replaced by it (`Built`) needs that nodes with the same children have the same ids.
  Operands of different heights are made equal first: `LowerIs` says what child 0 of
  child 0 keeps of a bitmap, `LiftIs` that levels on top change nothing.
- The proof does not repeat the one about vectors. A bitmap is a vector of marks: a heap of
  bitmap nodes stands for a heap of vector nodes (`AsHeap`), the chunk for the leaf that has
  `Yes` at its bits. `set` with `branch` is then the write of `Yes` and `clear` that of `No`,
  node by node and with the same new nodes, and so are the levels put on top. What is
  left to show about bitmaps themselves is that the two writers take the same branches (a
  node is empty exactly if the count of what was there is 1) and that `Canonical` stops at
  the lowest height that has the ids.

**Row sets** (`RowSetsProofs`), for any databases, values, numbers of rows and writes, sizes
of nodes, tables to start from and row sets kept. All properties of the run `row_sets` are
theorems about `Spec` of `RowSets`:

- `SetsAreStable`: `Spec => []RowSetsStable`. The ids and the rows of a row set stay those it
  was made with, and its count is theirs, whatever transactions of databases that share
  nodes with it go on to do.
- `VersionsAreExact` (`[]VersionsExact`): the bitmaps and the vector of a version describe
  exactly the rows of its table, also in the middle of a transaction; `VectorsAreWellFormed`
  (`[]VectorsWellFormed`), `SameIsSameState` (`[]SameMeansSameState`: row sets that pass for
  those of one state are of one table) and `TypesHold` (`[]TypeOK`).
- `WritersImplement`: `Spec => KeepsEpochs`. The nodes of bitmaps follow `Epochs`, and so do
  those of row vectors; `BEGIN`, a write, a read and so on each map to the action of `Epochs`
  of that name or to a stutter.
- All from `Inductive`: `Spec => []IInv`, where `IInv` is `StateInv`, which says that the
  heaps are well formed and that every version and every row set in reach is what its ghost
  says (`World`), and the invariant of `Epochs` for the nodes of bitmaps and for those of
  vectors, under the refinement mapping. `StateInv` alone is not inductive: that a write
  leaves alone what others hold is because nobody else has nodes of the writer's epoch
  (`OthersPrivate`), which is `EpochIsPrivate` of `Epochs`; and the steps of `Epochs` need
  `StateInv` in turn.
- The steps that only hand out references change no node that anybody holds. A write is
  taken apart as the code is: one bitmap (`ChangeMoves`, from `SetAdds` and `ClearTakes`),
  one after the other the bitmaps of a table that the write touches (`ChangesAre`), the row
  vector (from `SetIsUpdate`), and the version that comes of it (`AppliedOk`). Its frame is
  `OthersStay` and `SetIsPersistent`: row sets and other versions have no node that may be
  changed in place.
- Last, the garbage collector: nodes that nothing refers to go, and whoever is left sees the
  same (`SweepOk`); and the tables that the databases start from, loaded row by row, are
  such versions (`AllLoaded`).

Only model-checked: the liveness properties, which are beyond the prover, as are
`ENABLED` and fairness; `RowAlgebra`, that is, that row sets stay what they are while
combinations are kept beside them, and iteration (what a single combination returns is
`AlgebraExact`); and `Names`, `Keys` and `Queries`. The last two groups use recursive operators,
which no proof can go through.

## Findings

- `prefix_panic`: on a table with a bitmap index, `DeletePrefix` over a
  multi-value index panics in `applyBitmaps` (bitmap_index.go:276) when a row has
  two values under the prefix: it is visited twice, and the second visit finds
  its row id given back.
- `prefix_dangling`: `DeletePrefix` over a multi-value index leaves the entries
  of a deleted row that lie outside the prefix, because the index it cuts is the
  one it does not clean (txn.go:564, 571).

- `reverse_bound`: `ReverseLowerBound` is documented to begin with the rows whose
  value equals the bound (txn.go:920-922). In an index that is not unique it leaves
  them out, because their keys end with the primary key and are greater than the
  bound (txn.go:939, schema_compile.go:203-213). `LowerBound` includes them.

A remark without a run: `internal/bitmap/bitmap.go:25` says that a subtree of a
combination that comes out equal to an operand's is that operand's. The code compares the
children of the result with the operand's by identity (ops.go:109-119) and prefers
the first operand where both are equal, so the union of a set with a larger one is
a new node when the two have equal children that are different nodes.
`SharesOperand` states what holds: the subtrees of the first operand are shared.
Nothing but memory depends on it.

`DeleteAll` over a multi-value index stops at a row it has already deleted; that
is documented (docs/compatibility.md:45), and `DeleteAllDeletesAll` is checked for
queries that yield a row once.

## What is not modelled, and why

- What go-juuri does inside a tree: a dependency, not in `src/`. `MemDB` models the
  ownership of nodes and the notifier that this code relies on, `Queries` the order of
  iteration.
- Field access through reflection and `unsafe`: its subject is Go's memory layout.
  Nil objects and arguments, fields of a type the indexer rejects and custom
  indexers all end in the slow way, which is then the only one. Lowering is a map
  of bytes; Unicode case mapping is the standard library's.
- `LongestPrefix`, which its comment restricts to custom indexers; `FilterIterator`,
  `All`, `AllOf`, `Rows` and the methods of `Table`, which have no state of their own.
- `DBSchema.Validate`: checks of a value that does not change afterwards.
- The watch channel of a bitmap's tree entry: a channel of `MemDB`'s `Watch`.
- The boundaries at 2^32 of `internal/bitmap`; `pvec.Cursor`, which remembers a leaf
  of an immutable vector. The four words of a chunk are one set, and the steps of the
  iterator from word to word (bitmap.go:339-343) the choice of its lowest member.
- Indexer errors on a row that is stored already (txn.go:439-441, 447-449, 497-500,
  564-566): the row was stored because its indexers made keys of it, and in
  `RowWrites` an indexer is a function of the object.
- A node of a row vector that is left empty: the code empties it in place before it drops
  it (pvec.go:190-200, 212-220), the model only drops it. If it was the writer's own,
  nobody else has it. Likewise the counter of row ids has wrapped when the code panics
  for want of ids (bitmap_index.go:290-292), and has not in the model, which ends there.
- Tree transactions that a pooled write state might bring along (txn.go:127-141): the
  model loads all trees of a transaction with the root. That the notifier is cleared and
  the writers of bitmaps and vectors are frozen is modelled.
- The bookkeeping of bitmap indexes of a table that a transaction did not write:
  `RowSets` has one table.
- `DeletePrefix` cuts the index at the raw prefix, which may differ from the
  indexer's key (documented, docs/compatibility.md:41-44): `RowWrites` lets the cut
  miss every entry, which panics in the code as in the model; `NoPanic` allows that.
- Generators, benchmarks and scripts.

Two details of the keys that a caller should know, both as in go-memdb: the key of an
`IntFieldIndex` argument is as wide as the argument, not as the field
(index.go:331-351), so an argument of another width finds nothing; an `IntKey` encodes
at the width of its own type. `IntIndex` takes any width.
