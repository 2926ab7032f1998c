# A TLA+ model of the disk-based DBMS (ITE2038)

The program under `src/db_project/db` is a small database library in C++: tables
are files of 4 KiB pages holding a B+ tree, cached in a buffer pool, and accessed
by threads that run transactions with record locks.  These modules model its
concurrency control, its buffer manager, its disk space manager, the allocation of
pages through both, and its trees.  TLC checks all of them on small instances.  TLAPS
proves, for any number of transactions, records, sessions, frames and pages, the safety
of the lock table, the transaction table, the record operations, the buffer pool, the
disk space manager and the allocation of pages through both, the shape and the filling of
the B+ trees, and that the lock table and the buffer pool implement their abstract
specifications.

File names below are relative to `src/db_project/db`.

## 1. The system

| Component | Code | State | Operations |
|---|---|---|---|
| Lock table | `src/lock_table.cc`, `include/lock_table.h` | `lock_table`: (table, page) -> entry with `head_map` / `tail_map`, one list of `lock_t` per key; `lock_table_latch`; a condition variable per `lock_t` | `init_lock_table`, `lock_acquire`, `lock_release` |
| Transaction manager | `src/trx.cc`, `include/trx.h` | `trx_table`: id -> entry with the list of the transaction's lock objects; the counter `trx_id`; `trx_table_latch` | `trx_init`, `trx_begin`, `trx_commit`, `trx_add`; `is_deadlock`, `trx_abort` are stubs |
| Buffer manager | `src/buffer.cc`, `include/buffer.h` | control blocks (table, page, dirty, pins, next, prev) and frames; `entry_point`; `number_of_pages`; `buffer_mutex` | `init_buffer`, `buffer_read_page` (`read_new_page`), `buffer_write_page`, `unpin_page`, `buffer_alloc_page`, `buffer_free_page`, `flush_buffer`, `shutdown_buffer` |
| Disk space manager | `src/file.cc`, `include/file.h` | the table file: a header page with the head of the free list and the number of pages, free pages linked through their first word | `file_open_table_file`, `file_alloc_page`, `file_free_page`, `file_read_page`, `file_write_page`, `file_close_table_files` |
| Record access | `db_find`, `db_update` with a `trx_id`, `src/newbpt.cc` 1549-1758 | the copy of the leaf page a call works on | copy, lock, answer or write back |
| Index manager | `src/newbpt.cc` 1-1512, `include/newbpt.h` | the pages of the tree | `db_insert`, `db_find`, `db_delete`, splits, merges, redistribution |
| Page layout | `src/page.cc` | words, slots and values within a page | getters and setters |
| Others | `log.cc` (not built), `bpt.cc` and `main.cc` (in-memory B+ tree demo), `debug.cc`, tests (all commented out) | | |

How they interact: a client thread calls `trx_begin`, then `db_find` and
`db_update`, then `trx_commit`.  The two record operations take `buffer_mutex`,
walk the tree through `buffer_read_page` (which pins), copy the leaf, release the
mutex, and only then call `lock_acquire`, which may sleep.  `lock_acquire` calls
`trx_add` to put its object on the transaction's list; `trx_commit` walks this
list and calls `lock_release` for each object, with `trx_table_latch` given up
around the call.  The buffer manager calls the disk space manager to read,
write back, allocate and free pages.  `db_insert` and `db_delete` take no record
locks and no latch.

What is hard in it, with the line where it bites, is in `PROJECT.json` under
"hazards".  In short: the decision of `lock_acquire` depends on a flag
(`is_acquired`) that is not updated when an object is woken; only some releases
signal; a commit is interleaved with other threads; `trx_begin` and `trx_add` read
shared state without the latch; the LRU ring is relinked by index with the victim
possibly being its own entry point; a pinned page must not move; the header page is
kept twice; deletions merge and redistribute pages up to the root; the free list is
threaded through pages that hold something else once they are in use; record
operations work on a copy that is older than their lock.

What makes each component correct:

* lock table - excluding locks are never granted together; nobody is overtaken;
  a list of sleepers is never left behind without a signal; the two lists of an
  object agree, so a commit meets no freed object; locks are held until commit;
  waits end when clients cannot deadlock;
* transaction manager - ids identify transactions, entries live exactly as long
  as their transactions, no lookup fails for a valid id;
* buffer manager - the ring is whole, a page is in at most one frame, pins are on
  the frames they were taken for, a pinned page stays, a page that leaves the
  pool reaches the file, the replaced page is the least recently used unpinned one;
* disk space manager - every page is in use or on the free list, exactly once;
* page allocation - a page in use is never handed out again, although the header page
  has a copy in the pool and one in the file and the two are changed separately;
* index manager - an insertion makes its own key findable and hides no other, a
  deletion takes its own key away and no other (that it is one key is checked and proved,
  that it is the key of the call is proved, by `CallsKeepToTheirKey`), the tree stays balanced, with right
  parents, siblings and free space, and no page is lost or freed twice;
* record access - no dirty reads, no lost updates.

## 2. Modules

| Module | Models | Built on |
|---|---|---|
| `LockTable` | `lock_acquire`, `lock_release`, and the lock lists of `trx_add` and `trx_commit` | |
| `LockTableProofs` | proofs: `LockTable` is safe, who waits and holds what, and the refinement | `LockTableService` |
| `LockService` | abstract: record locks under strict two-phase locking | |
| `LockTableService` | the refinement mapping `LockTable` -> `LockService` | both |
| `OrderedClients` | clients that cannot deadlock, with fairness | `LockTable` |
| `RecordAccess` | `db_find` and `db_update` over the lock table | `LockTable` |
| `ClientsProofs` | proofs that ordered clients wait for others only, and about dirty reads and lost updates | `OrderedClients`, `RecordAccess`, `LockTableProofs` |
| `TrxTable` | the transaction table and its latch, in the steps between which other threads run | |
| `TrxTableProofs` | proofs about ids, entries and races | `TrxTable` |
| `BufferPool` | the ring, pins, replacement, write-back, shutdown | |
| `PageCache` | abstract: an LRU write-back cache | |
| `BufferPoolCache` | the refinement mapping `BufferPool` -> `PageCache` | both |
| `BufferPoolProofs` | proofs about the ring, the searches along it and the pins, and of the refinement | `BufferPoolCache` |
| `BPlusTree` | `db_insert` and `db_find` on the tree of one table | |
| `BPlusTreeDeletion` | `db_delete`, and the specification of the index manager | `BPlusTree` |
| `BPlusTreeProofs` | proofs about the shape of the tree and how full its pages are | `BPlusTreeDeletion` |
| `BPlusTreeOrderProofs` | proofs about the order of the keys, and of the refinement | `BPlusTreeProofs` |
| `Table` | abstract: a table of records with distinct keys; `BPlusTree` holds the mapping | |
| `DiskSpace` | the table file and its free list, as sequences of page writes | |
| `DiskSpaceProofs` | proofs about the free list, kills included | `DiskSpace` |
| `PageAlloc` | `buffer_alloc_page` and `buffer_free_page`: the free list, kept in the file and in the pool | `DiskSpace` |
| `PageAllocProofs` | proofs that no page is handed out twice | `PageAlloc`, `DiskSpaceProofs` |
| `MC*` | instances for TLC | |

Operators marked "Faulty" in a comment are not part of the model: each is a
variant of the definition below it with a plausible mistake, which shows that the
properties notice the mistake.

### LockTable

`queue[r]` is the list between `head_map` and `tail_map` of a record, in order.  A
lock object has its transaction, its place `nth` on the transaction's list, its
mode, `acquired` (`is_acquired`, set when the object is built and never again) and
`wait`, the state of its condition variable.  `trxLocks[t]` and `released[t]` are
the list of the transaction's entry and how far `trx_commit` has walked it.

`lock_acquire` and `lock_release` hold `lock_table_latch` from beginning to end, so
each is one action; `pthread_cond_wait` gives the latch up, so an acquisition that
waits is the request (`AcquireNew`), the signal (in `LockRelease`) and the return
(`WakeUp`).  `AcquireHeld` and `AcquireUpgrade` are the two early returns.
`trx_commit` gives `trx_table_latch` up around every `lock_release`: `CommitBegin`,
one `LockRelease` per object, `CommitEnd`.  `pthread_cond_wait` returning without
a signal is not modelled (see section 6).

### TrxTable

One action per critical section: `BeginLock` and `BeginInsert` are the part of
`trx_begin` under the latch, `BeginReturn` the return statement, which reads the
global counter after the unlock; `TrxAdd` the lookup of `trx_add`, which takes no
latch; `CommitBegin`, `CommitReleased` and `CommitEnd` are the stretches of `trx_commit`
between the places where it takes the latch or changes the map.  Two steps leave the
latch held: the one before `trx_begin` inserts its entry ("inserting"), and the one before
`trx_commit` erases its own and puts the id back with a null pointer ("erasing", lines
120-121).  A lookup without the latch that falls between them and their end reads the map
while it changes (a data race): it may find the entry, miss it, or follow a bad
pointer (`Lookup`).  The lookup and the use of the entry it finds are one step: only a
session with the same id, so after an overlap, can delete the entry in between.
`process` tells an `exit(1)` and a null, bad or freed pointer from normal running.  The
history variables `overlapped` and `raced` say whether calls of `trx_begin` have
overlapped and whether a lookup has raced with a change of the map, so that one run
shows what holds without them.

### BufferPool

`cb` are the control blocks with the frames' contents, `used` is
`number_of_pages`, `entry` is `entry_point`, `disk` the file, `held` the pins the
users hold.  `ReadHit`, `ReadMiss` and `ReadNoBuffer` are `buffer_read_page` with
`read_new_page` inlined, each one step, since its callers hold `buffer_mutex`;
`Relink` follows the order of the assignments, which matters when the frame taken
out is the entry point itself.  `db_find` and `db_update` call `buffer_write_page` and
`unpin_page` after they have released the mutex: such a call is `LookUp`, then
`Write` or `Unpin`, and reads of other threads come in between.  When one of them
has relinked the ring, the walk may have missed the page (`FramesOf`); when one has
pinned the same page, either change of the count may be lost (`PinsLeft`).  After a
step with such an outcome `raced` is set and the pool is followed no further.
`Cut` is the conversion of a page number to `uint16_t` at `read_new_page`.  The search for a
page starts from `entry_point`, which is -1 in an empty pool, and so the first call after every
`init_buffer` reads the control block before the first one: `ReadEmpty` is the outcome
in which the process does not survive that, `ReadMiss` the one in which it does (what was
read is not used).  `Shutdown` and `Crash` end the process and start it again;
`shutdown_buffer` writes the dirty frames in their order, and a kill may leave any number
of them written (`Flushed`).

`db_find` and `db_update` hold two pages (the header page and a leaf) while they wait
for a record lock, so enough of them pin every frame.  The history variable
`strained` says that the users have done this since the pool was opened, or have
asked for a page number that does not fit 16 bits; what is claimed of the ring, of
pins and of pages is claimed until then, and what is left of it afterwards is
`PinsConserved`.

### DiskSpace

`file` holds the two words of each page that the manager reads: the free page
number and the number of pages in the header; the next free page number, or in
the same place the parent page number of a tree page.  Each operation is written
as the sequence of its page writes; an operation that completes applies all of
them, one that is killed a prefix (`After`: of each page, the file then has what was
written to it last).  A read beyond the end of the file doubles it until the page is in
it, `ReadWrites`, as far as the bound `MayReach` allows.  `inUse` and `lost` are what the users know:
pages handed out and not given back, and pages whose number a kill made unknown.
`process` is "broken" after the three events from which the code does not recover
(section 6); nothing is claimed of such a file.

### PageAlloc

`disk` is the file of `DiskSpace`, whose `AllocPage`, `AllocWrites` and `FreeWrites` the
module takes over; `order`, `copy` and `dirty` are the pool, as `PageCache` describes it,
which `BufferPool` implements.  `Alloc` is `buffer_alloc_page`: `file_alloc_page`
pops the list in the file, and then the header page in the pool is made to follow,
from the first word of the page as the pool has it and from its number.  `Free` is
`buffer_free_page`, which pushes in the pool, and, when the pool has no header
page, in the file first.  `Read` and `Write` are what the tree does with its pages; a
page in use has its parent's number where a free page has the next one.  The history
variables `freed` and `replaced` say that in this session a page was freed, and
that the header page left the pool: `NeverTwice` is claimed as long as not both
have happened (section 6).  `Shutdown` writes all dirty pages.  `Crash` is a kill between two
calls, or one in the flush of `shutdown_buffer`: any of the dirty pages are in the file then,
since `order` does not say in which frames they are.  `torn` records that the header
page was among them and a page that was freed was not; `NeverTwice` does not claim anything
after that either (section 6).  A kill inside `buffer_alloc_page` or `buffer_free_page`, but
outside `file_alloc_page` and `file_free_page`, leaves the file as the whole call and then
`Crash` do, since the pool is lost; one inside these two is in `DiskSpace`.

### BPlusTree and BPlusTreeDeletion

`page[n]` is the page the buffer manager returns for number `n`, `root` the root page
number in the header page.  A leaf is its keys in slot order, its right sibling and
its amount of free space; an internal page its keys and children.  Values and
offsets move with their slots and are left out; sizes are kept, because they decide
what fits and where a leaf is split.  `db_insert` is one action per branch
(`InsertFirst`, `InsertPresent`, `InsertIntoLeaf`, `InsertSplitting`), each with all
it calls; the climb of a split from parent to parent is a fold of
`db_insert_into_parent` over as many levels as there can be, and `FindLeaf` goes down as many.
`EnoughPages` is a bound: an insertion that might need more pages than are free, where the
code would extend the file, is not followed.  `Int32` is the
parameter of type `int` of `db_find_leaf_page_number`.  `free` is the free list
that `buffer_alloc_page` pops and `buffer_free_page` pushes on, as it is when the
header page stays in the pool (`PageAlloc` is about when it does not).

`db_delete` is `DeleteAbsent` and `DeleteRecord`.  `DeleteEntry` is one call of
`db_delete_entry`: `RemoveEntry`, then `AdjustRoot`, nothing, or `Refill`, which merges
(`Coalesce`) or redistributes; a merge goes on in the parent, and `DeleteUp` folds
`DeleteEntry` over the levels.  Three steps lose records: removing the entry of a
merged page from an internal page whose search for the child's number ends somewhere
else; every redistribution of a leaf with its left neighbour; and one with its right
neighbour that takes more than one round.  They are modelled as the code does them,
and `damaged` records that one was taken.  A damaged tree is followed no further: the
searches of the code can then reach pages that were freed.  Everything else of
`db_delete` is checked against `Table` in trees that are not damaged.
`db_insert` and `db_delete` take no latch and no record lock, so one client is
modelled.

### RecordAccess

`CopyLeaf` is the part of `db_find` / `db_update` under `buffer_mutex`; `Acquire`
the call of `lock_acquire`; `Answer` and `WriteBack` what follows.  The copy is the
whole leaf page, so `db_update` writes back the other records of the page as they
were when it was made.  `page_mutex` is locked in a local copy of the control
block and keeps nobody out, so it does not appear.  A record's value is the
transaction that wrote it.

## 3. Runs

| Run | Instance | Shows |
|---|---|---|
| `lock_table` | 3 transactions, 2 records | `MutualExclusion`, `NoOvertaking`, `HeadGranted`, `ListsAgree`, `HeldUntilCommit`, the inductive `LockTableInv` and `WaitInv`, and that the lock table implements `LockService` |
| `ordered_clients` | 3 transactions, 2 records with integer keys | `WaitsForOthers` and the liveness property `EveryWaitEnds` |
| `trx_table` | 3 sessions, 5 transactions | ids are unique and fresh and entries are live as long as `trx_begin` calls do not overlap; nothing ends the process but overlaps and lookups that race with an insertion or an erasure; ids never go back, overlaps included; `TrxTableInv` is the inductive invariant |
| `buffer_pool` | 4 pages and 2 with numbers of more than 16 bits, 3 frames, up to 3 pages pinned, 2 pins each, 2 values, one call without the mutex at a time | the ring, the pins, pinned pages stay, no exit, no reading of a control block that is not there but in an empty pool, `PageCache` is implemented (kills within a flush included), all until the pool is strained or a data race lost something; `PinsConserved` also when it is strained; `PoolInv` is the inductive invariant |
| `disk_space` | 3 pages doubling to 6 | `FreeListExact`, with kills between any two writes of an allocation or extension |
| `b_plus_tree` | four trees, up to 6 keys an internal page and 3 levels, insertions and deletions | `ImplementsTableUndamaged`, `ShapeKept`, `OrderKept`, `FillKept` |
| `page_alloc` | a file of 2 pages that may double to 4, 2 frames | `NeverTwice`, `HeadersAgree`, with kills between any two writes of a flush |
| `record_access` | 3 transactions, 2 records on pages of their own | `NoDirtyRead`, `UpdatesStay`, the inductive `AccessInv` |
| `lock_upgrade` | 2 transactions, 1 record | violation: see 6.1 |
| `trx_concurrent_begin` | as `trx_table` | violation: see 6.2 |
| `lost_update` | records on one page | violation: see 6.3 |
| `delete_loses_records` | as `b_plus_tree` | violation: see 6.4 |

Bounds.  Three transactions give a holder, a waiter and a newcomer, and two
records an old and a new entry of a transaction's list and a deadlock; with
upgrades a list grows to two objects a transaction, so releases happen at its head, in the
middle and at its end.  Transactions do not repeat, which bounds the lists.  Five
transactions for three sessions let an id be given out after others have been
erased.  Three frames are the least for which a frame has two different
neighbours that are not each other, four pages the least to replace with all frames
in use, and the two others stand for numbers that are cut; two values tell a lost
write from a kept one.  `Followed` in `MCBufferPool` bounds what is combined: one page at
most is pinned twice, two frames at most are dirty (one, when a page is pinned twice), and
two pages at most are changed in the file; a strained pool is followed while no page is
pinned twice and nothing was written.  The proofs have none of these bounds.  Doubling from three to six
covers a read that grows the file and an allocation that does (one page growing to
four, two doublings in one call, was checked with the same module).  Two frames are
the least `buffer_alloc_page` works with, which pins two pages,
and then the header page is replaced as often as it can be; the same module with three
frames (1.3 million states) and with more pages was checked once.  A tree in which
internal pages merge has dozens of records, more than can be inserted in every
order; `MCBPlusTree` therefore has four scenarios, each a sequence of insertions that
builds a tree by `Insert` alone, followed by freely chosen insertions and deletions of
a few keys: an empty table with keys 1 to 8; a root that is full and splits, so that
its halves exchange children; and two in which one of four internal pages is merged
with its right or its left neighbour.  Internal pages hold at most six keys, the least with which
one can be merged without its parent being a root with one key.  Sizes are scaled so
that, as in the code, half a page takes two records of the largest size, a split leaves no page empty, and what it leaves free is under the
threshold of `db_delete_entry`.  Symmetry is used only in runs without liveness properties; the sets permuted appear in no
definition by name.

Deadlock checking is off: transactions and the counter of ids are finite, clients
may deadlock (the code detects none), and a process that has exited does nothing.

Fairness.  Only `OrderedClients` has any: weak fairness of `WakesUp` (a signalled
thread gets the latch back; the latch is held for a bounded time), of `Releases` and
`CommitEnd` (the loop of `trx_commit` goes on), and of `CommitBegin` (a client that is
not blocked commits in the end), one transaction at a time.  No fairness of
`lock_acquire` is assumed.  Strong fairness is not needed: a signal is not taken back.

## 4. Proofs

TLC shows a property of one small instance; the theorems below hold for every value of
the constants.  Their assumptions are the `ASSUME`s of the modules: at least one frame,
page numbers that `Cut` maps to page numbers, a mark for frames without a page (`NoPage`) that is
no page number, a new file of at least one page that is
within the bound on its growth, records that can be ordered (`OrderedClients` only: `ClientsProofs` cites
it in no proof about `RecordAccess`), an
initial value that is no transaction (`RecordAccess` only), and for the tree
the sizes the code fixes (`BPlusTreeAssumption`, `DeletionAssumption`): an internal page with room for
four keys, half a leaf with room for two records, and a threshold that neither half of a split leaf
is under.  Nothing is assumed finite but
what the code has a number for (frames, pages of the file); `Trx`, `Rec`, `Session`, `Page`
and `Value` may be any sets (one theorem, `PinsConservedHolds`, adds up the pins of all pages
and supposes that `Page` is finite, as the page numbers of the code are; the theorems about
the order of the keys in the tree suppose `KeysFit`, see there).

### The lock table (`LockTableProofs`)

`LockTableInvariant` is `Spec => []LockTableInv`, and `TypeCorrect`, `MutualExclusionHolds`,
`NoOvertakingHolds` and `HeadGrantedHolds` follow from it.  Mutual exclusion alone is not
inductive: a state in which the first object sleeps and the second is granted satisfies
it, and the next release grants an excluding pair.  `QueueInv`, one list at a time, adds
what the code relies on without saying so: an object with `is_acquired` never slept (so
a request that finds the tail acquired follows only granted objects); the granted
objects are a prefix; the head is granted; and of two objects of one transaction the
later is exclusive (so `SignalHead`, which stops at the first exclusive object, never
grants two objects of one transaction).  Each operation on a list - append, upgrade,
wake, release - has a lemma that it keeps `QueueInv`.

`ListsAgreeHolds` rests on `ListsInv`, which adds that a commit has not released more
objects than there are.  `WaitsOnOneLock` is the invariant `WaitInv`, inductive by itself:
the release of an object moves those behind it, and `OldPlace` and `NewPlace` follow an
object from one list to the other.  `HeldUntilCommitHolds` is an action property: a
step other than a commit's leaves every granted object of a transaction granted, in a
mode no weaker.

### The lock table is a lock service (`LockTableProofs`)

`LockTableImplementsService` proves that `LockTable` implements `LockService`.  A request maps
to a grant, when it is granted on arrival or served by an upgrade in place, or to a
wait; a release maps, with all the signals it sends, to one release that lets in the
requests it signalled; the return from `pthread_cond_wait` maps to no step.  The
abstract guards come from `LockTableInv` (what is granted together does not exclude
each other), `WaitInv` (a thread that waits asks for one lock, so the mapping of its
request is unique) and `ListsInv` (what a commit releases is what it holds).

### Clients (`ClientsProofs`)

`WaitsForOthersHolds`: a client that locks records in the order of their keys and never
upgrades has at most one object in each list (`OneLockEach`, inductive with `TypeOK` and
`ListsInv`), so what is in front of a sleeper is somebody else's.

`AccessDrivesLockTable` proves that `db_find` and `db_update` are clients of the lock table,
so all that is proved of it holds under them.  `AccessInvariant` (`AccessInv`): what a
leaf page or a copy holds of a record was written by a transaction that has begun to
commit or that holds the exclusive lock, also in a copy made before the lock was asked
for; a call past `lock_acquire` has an object that serves it.  From it,
`NoDirtyReadHolds`, for every layout of records on pages.  `UpdatesStayAlone` proves
`UpdatesStay` where each leaf page holds one record; the hypothesis is needed, since
`lost_update` refutes the property for two records on a page.

### The transaction table (`TrxTableProofs`)

`TrxTableInv` is `TypeOK`, `TableInv`, `SerialInv` and two of the properties.  `TableInv` has what
holds also when calls overlap (one change of the map at a time, no id above the counter);
`SerialInv` says that until two calls of `trx_begin` overlap, the one under way has the
counter to itself, so the value it reads after the unlock is still its own.
`UniqueIdsHold`, `EntriesAreLiveHolds`, `StaysUpHolds` and `TableTypeCorrect` are consequences;
`IdsNeverGoBackHolds` and `FreshIdsHold` are action properties.

### The buffer pool (`BufferPoolProofs`)

The properties of the pool hold each other up, and `RingInv` has them all at once: as
long as users leave a frame unpinned with the page they ask for in another, two frames are
unpinned when a page comes new into a full pool, so a victim other than the frame used
last is found; taking such a frame out of the ring and linking it in leaves a ring; so the search along the ring finds every page
that is in a frame; so no page is loaded twice and every pin goes to the frame of its
page; so a pinned frame has a page that somebody pinned, and by the pigeonhole
principle a frame stays unpinned.  The ring is given by a list `s` of all frames, each
once, in the order of `next` (`InOrder`); the lemmas say what the search (`FindIndex`) finds
in a ring in order, and how the list changes when a frame is touched or added.  The
recursive functions that walk the ring are computed by descent to a least
counterexample (`Smallest`), not by induction.  `TypeCorrect` also covers a pool that has
been strained, where the ring may be anything.

`PoolInvHolds` adds `CleanOnDisk`: a frame that is not dirty has what the file has.  This is
what the refinement needs besides, because a clean victim is dropped without being
written.  `PoolImplementsCache` proves that `BufferPool` implements `PageCache` under the
mapping of `BufferPoolCache`: the ring read backwards from `entry_point` is the order of
use, and the content of a page is in its frame if it has one, else in the file.  A hit
maps to `Touch`; a miss to `Load`, or to `Replace` of the page unused for longest of those
without pins; `Write` and `Unpin` to theirs, a shutdown to `Close`, a kill to `Crash` (each page on
disk is then as it was, or as it was written last, whichever frames a flush had got to), and a
look-up to no step.  As in the property TLC checks, steps of a strained pool and those in
which a data race loses something are excused.

`PinsConservedHolds` is about a strained pool as well, in which `RingInv` says nothing: the ring may
be broken and a page may be in two frames, but no step changes the sum of the pins other
than by the pin its user takes or gives back.  Its invariant, `Counted`, says that frames not yet
used have no page, that calls between their two halves have found frames in use, and that
the two sums agree.  The sums are folds over sets whose elements `CHOOSE` takes in an order that says
nothing (`Round`); that such a fold exists, and that changing one term changes it by the difference
(`TotalChanges`), is induction over the size of the set.  The induction is over a set of numbers
that has 0 and with every number the next, which is all of `Nat` (`Counting`), so no theorem
with an operator as its parameter is needed.

### The disk space manager (`DiskSpaceProofs`)

`FreeListExact` follows the list in the file with a recursive function; its inductive form
is `DiskInv`, which says instead that there is a list of all pages that are neither in
use nor lost, each once, linked from the header on (`Sound`).  `ListStays`, `ListPops`,
`ListPushes` and `ListGrows` give the list after each kind of change.  What is hard is
the kills: `ChainFile` describes the file after any prefix of the writes of an extension,
and since the header comes last, every proper prefix leaves the old list (`GrownFile`).
A read may double the file many times over, each round with a prefix of its own;
`RoundsKeepList` goes through the rounds by a least counterexample.  The one step that
damages the list, a kill between the two writes of `file_free_page`, ends in "broken", as
does an unfinished creation.  `FreeListExactHolds` then computes the recursive function
along the list (`FreeAtIs`) and bounds its length (`ListFits`).

### Allocation through the pool (`PageAllocProofs`)

There are two free lists: the one in the file, which `file_alloc_page` pops, and the one a
client reads through the pool, where a page has the content of its frame if it is in one and
that of the file otherwise (`View`).  `NeverTwice` says that the list in the file ends and has no page in use,
and is not inductive, since the pool's header is written over the file's when it is replaced
or the pool is shut down.  `AllocInv` says of the file's list that it has no page in use and,
but for the header, none in the pool, so `file_alloc_page` may write the page it pops behind the
pool's back; of the list in `View`, that it has no page in use, since a shutdown makes it the
list of the file; that a clean copy is what the file has, so that dropping it changes nothing;
that until a page is freed or a flush is torn the two headers are the same, so following the one in the file is
right; and that afterwards the header page stays in the pool, which is the part the code does not
guarantee (`replaced`).  A flush that is killed leaves the old list of the file as long as the
header page is not written and the list of `View` once it is (`FlushedSound`), unless a page that was
freed comes after the header, which is the other part the code does not guarantee (`torn`).  `Within` and `Numbered` bound the numbers in both.  A list is `Sound` of
`DiskSpaceProofs`, instantiated for the file and for `View`, so the lemmas on lists that stay,
are popped, pushed and grown are shared with the disk space manager; what is added are the
lemmas on what a read, a replacement and a write do to `View` (`Loads`, `Vacates`, `Written`).
`AllocTypeCorrect`, `HeadersAgreeHolds` and `NeverTwiceHolds` are consequences of
`AllocInvariant`, for pools of any size from two frames on and files of any size.

### The B+ tree (`BPlusTreeProofs`)

`TreeInvariant` is `DeletionSpec => []TreeInv`; `ShapeKeptHolds` and `FillKeptHolds` follow from it.
`TreeShape` says that all leaves have the same `Depth`, which is counted from the root by a recursive
function over parent words and changes everywhere when the root does.  The inductive form,
`Whole`, says instead that there are levels `lev`, counted from the leaves, such that the
children of a page are exactly the pages that name it as their parent, one level below it
(`Linked`); that leaves are the pages of level 0, and each page agrees with itself and is full
enough (`Stocked`); and that the free list has every other page once.  A split adds a page to one
level, a new root one level; nothing that was there changes its level.

An insertion or a deletion is a climb, a fold of one call per level, and the tree in the
middle of it is not whole.

* In the climb of a split, `Hangs` says that one page, the one split off, has a parent that
  does not know it, that it stands beside the page it came from on the level `i`, and that the free list
  has a page for every level above and one for a new root, as `EnoughPages` asks.
  `IntoNewRoot` and `IntoInternal` end the climb with a whole tree; `SplitInternal` hands on a page that hangs
  on level `i + 1`.
* In the climb of a deletion, `Lean` says that one page, from which an entry was removed, may
  be too empty by that entry.  The root may lose its last key, and then the tree a level
  (`AdjustRoot`).  A merge frees a page and leaves its parent to be cut (`Without`), and
  `RemoveFromInternal` either finds the child to remove, and the parent is the lean page of
  level `i + 1`, or does damage.  A redistribution ends the climb: with one child moved over
  between internal pages, or one round between leaves.  Whatever does damage sets
  `damaged`, no later step of the climb takes it back (`Hurt`), and the theorems claim nothing of that tree.

The fold has as many rounds as there are page numbers.  That the climb has ended by then is
part of what is proved: each level of a tree has a page of its own, so there are fewer levels
than pages (`FewLevels`).  The same bound makes the recursion of `Depth`, of `FindLeaf` and of the
binary search in `PointerIndex` end; `Counting` is the induction over numbers for all of them.

`FillKept` asks of an internal page one key less than `db_delete_entry` does, and
this is what the code keeps: `insert_into_node_after_splitting` leaves the left page with
`MAX_KEY_NUMBER / 2 - 1` keys.  A page below that takes an entry of its neighbour or is
merged with it, and the neighbour that gives one still has half, since the two did not fit into one page
(`Fits`).  For leaves the same argument is about bytes, and `DeletionAssumption` is what it needs: the
largest record, taken from a leaf that is too full to be merged, or put on either side of a
split, leaves no page with `THRESHOLD` bytes free.

### The order of the keys (`BPlusTreeOrderProofs`)

`OrderInvariant` adds the keys to `TreeInv`: until a deletion damages it, the tree holds some set of
records `R` (`Holding`).  From it `OrderKeptHolds`, and `ImplementsTableUndamagedHolds`, the
refinement of `Table`.  `Table` does not say which call a step belongs to;
`CallsKeepToTheirKey` does: what `db_insert(k)` adds and `db_delete(k)` takes away is `k`.

`OrderKept` speaks of leaves and their right siblings (neighbours are in order, no two leaves have the same
right sibling, and exactly one has none), and the refinement of what `db_find`
finds; neither says anything of an internal page, so neither is inductive.  What is, is that every page has an
interval, from `lo[n]` on and below `hi[n]`, where 0 stands for no bound (`InOrder`).  The keys of a page
are in its interval, and its separators cut the interval into those of its
children (`At`, `Parts`); the root has all keys; the right sibling of a leaf is the
leaf whose interval begins where its own ends, and only the last has none (`Chain`); and `R` are the keys in the
leaves (`Records`).  Of two pages of one level, the interval of one is before that of the other (`Before`), so a descent for a key ends in
the one leaf whose interval covers it, and finds the key if it is in `R` (`FoundIs`, `StoredIs`).

The climbs carry this up as they carry the shape.

* In the climb of a split, the parent still sees the page that was split and the one split off as
  one page, with the interval of both (`Sees`).  Entering the new page's first key or the key pushed up
  into the parent ends that, at the place where the two meet (`CutsChild`).
* In the climb of a deletion, a page has been cut of a key and a child, or of a record,
  and the tree is in order when that is done (`DueInOrder`).  A merge gives the left page the
  interval of both and the parent one separator less (`Widened`, `JoinsChild`), a redistribution moves
  the bound between two pages to the key the code writes into the parent (`TurnsAt`).  That this key
  is the right one is what the three redistributions that do no damage share, and it
  is where the fourth, from a left neighbour between leaves, does damage.

`KeysFit` is the hypothesis of these theorems: `db_find_leaf_page_number` does not change a key by taking
it as an `int` (`newbpt.cc` 656).  It is satisfied by every key below 2^31 and is needed: without it the
refinement is refuted (section 6).  The shape and the filling are proved without it.

### Only model-checked

* `EveryWaitEnds`: liveness under fairness is beyond the proof system.
* `DeletionTypeOK`, since it also says what the pages of a damaged tree are: the deletion
  that did the damage goes on in pages `Whole` says nothing of.  Until then `TreeInv` has
  the type of every page of the tree.
* The four violations, which are counterexamples in small instances.

## 5. Plan

Next modules, the most important first:

1. `RecordAccess` over `BufferPool`, with pins held while a thread sleeps.
2. Two calls at a time without `buffer_mutex`, and the copying of page contents in
   steps.

Next theorems: `DeletionTypeOK` beyond the first damage, and with `RecordAccess` over `BufferPool`, that a
sleeping thread's page stays in its frame.

## 6. Deviations from what the documents say

Each of the first four is a run that TLC refutes; the text quoted is in
`PROJECT.json` under "findings".

1. *Upgrade sleeps for ever* (`lock_upgrade`).  A transaction that holds a shared
   lock others share and asks for an exclusive one sleeps behind its own shared
   object.  When the others have released, the head is that object, which is
   acquired, so `lock_release` signals nobody (`lock_table.cc` 254).
2. *Two transactions with one id* (`trx_concurrent_begin`).  The return value of
   `trx_begin` is read from the global counter after the unlock (`trx.cc` 75).
3. *Lost update* (`lost_update`).  `db_update` writes its old copy of the leaf
   back (`newbpt.cc` 1727).
4. *A deletion loses other records* (`delete_loses_records`).  When the two leaves
   under a root are merged, `db_remove_entry_from_node` looks for the child to remove
   by a binary search (`newbpt.cc` 1477) which ends before the last child: it removes
   the first one, and the page that was freed becomes the root.  In larger pages the
   search may miss as well, since children are not sorted by page number.

Seen in the code while modelling, without a run of their own:

* When the only unpinned frame is the one used last, `read_new_page` links it in after
  itself, and its neighbours lead past it (`buffer.cc` 201-213); `RingIntact` does
  not claim the ring for a strained pool.
* The first call after every `init_buffer` reads `page_buffer_control_block[-1].next`
  (`buffer.cc` 69), since `entry_point` is -1 until a page is in the pool; the value is not
  used (`ReadEmpty` in `BufferPool`).
* A kill in the flush of a shutdown (`buffer.cc` 436-441) may come when the header page has
  been written and a page that was freed has not: the free list in the file then runs on
  through the old parent word of that page, through pages in use (`torn` in `PageAlloc`;
  without the second disjunct of `NeverTwice` it takes an allocation, the freeing of the
  page, and the kill).
* `redistribute_nodes` takes the first record of the left neighbour and drops its last
  (`newbpt.cc` 1133), so that one record is there twice and one is lost; with either
  neighbour it repeats its rounds with the numbers of keys from before the first one
  (lines 1129, 1179), so that a second round overwrites the first.  It also pins the
  parent once a round and unpins it once.
* A page can be handed out twice, or be lost, when the header page is replaced in a
  session that frees pages.  Handed out twice: `buffer_free_page` pushes a page in the
  pool, and the header page is written back before that page is; the next
  `file_alloc_page` takes the page and follows the word it has in the file, the
  number of its old parent, which is in use (`PageAlloc` without the first
  disjunct of `NeverTwice` shows it).  Lost: a page that was pushed on the pool's header is
  off the list when an allocation makes that header follow the file.
* `buffer_free_page` goes on after `file_free_page`, and makes the page it freed the one
  after itself (`buffer.cc` 267).
* `read_new_page` takes the page number as a `uint16_t` (`buffer.cc` 121): a page of
  number 2^16 or more is not found after it was read, and the process exits
  (`Cut` in `BufferPool`).
* `db_find` and `db_update` unpin pages after they have released `buffer_mutex`
  (`newbpt.cc` 1622, 1729): a pin can be lost, so that the page is replaced while it is
  in use or never again, and a search along the ring can miss the page, after
  which `page_buffer_control_block[-1]` is changed (`raced` in `BufferPool`).
* `db_find_leaf_page_number` takes the key as an `int` (`newbpt.cc` 656): a record with a
  key of 2^31 or more is not found any more once its leaf has been split (`BPlusTree`
  with an `Int32` that wraps around shows it with six records).
* `pthread_cond_wait` is called once and outside a loop (`lock_table.cc` 173): a
  return without a signal, which POSIX allows, grants an excluded lock.
* `trx_add` and the return statement of `trx_begin` look an id up without the latch
  (`trx.cc` 155, 75) while another `trx_begin` inserts (64) or a `trx_commit` erases and
  inserts (120-121); `TrxTable` models this race, and `StaysUp` holds only as long as no
  lookup has raced (`raced`).
* `db_find` answers from the copy made before its lock was granted (`newbpt.cc`
  1617): a second read in the same transaction may yield another value.
* `file_free_page` writes the header before the page it points to (`file.cc` 275); a
  kill in between leaves a free list that runs on through a parent page number
  (`KilledFree`).
* A file whose creation was killed before its header was written is opened as
  complete (`KilledCreate`).
* `file_write_page` of a page beyond the file does not leave its loop, since the
  bound is not updated (`file.cc` 513, `WriteBeyond`).
* `buffer.h` 20-21 call the entry point the oldest page; it is the one used last.

## 7. Not modelled

* A page that is copied while it is written: `buffer_write_page` without `buffer_mutex`
  fills the frame byte by byte, and a reader may see half of it.
* What a tree does after it was damaged, and a pool after it was strained beyond
  `Followed`.
* `is_deadlock` and `trx_abort`: stubs that nothing reaches.
* Failing system calls (`pread`, `pwrite`, `fsync` returning an error or fewer bytes):
  the operations return, with the file as after a kill at the same place.
* When the record removed is the last of its leaf, `db_remove_entry_from_node` reads the slot
  after it and copies a value from the offset found there (`newbpt.cc` 1405-1412).  What it
  copies is not used.
* The loops that extend a file compute the place of a page as a product of two `int`s
  (`file.cc` 184, 358, 467), which overflows from page number 2^19 on, at 2 GiB.
* Power failure: writes since the last `fsync` that are lost or reordered.  A kill
  leaves the writes made so far.
* `log.cc` is not built and not called; `bpt.cc` and `main.cc` are a demo that shares
  no state with the database; `debug.cc` prints; every test is commented out.
