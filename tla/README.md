# TopN in TLA+

A verification project for this repository: the NAT log analyzer (`analyzer`),
its containers (a slab cache, a threaded AVL tree, a bounded sorted container, a
hash table, a list), the prefix merger `combiner`, the logger, and the files it keeps from run to run. TLA+ modules model the code,
TLC checks them on small instances, and TLAPS proves what is said below under
"What is proved". Paths are relative to the repository; `src/src/x.cpp` is written
`x.cpp`.

`PROJECT.json` holds the same project as data: components, runs, the mutants that
show that each property depends on the code, the map from definitions to source
lines, findings, hazards and theorems.

## 1. Inventory

The program reads a connection log, sums up traffic and connections per foreign
address in four maps (port 80, 443, 8080, and all ports together), which it loads from
four list files before and dumps, sorted, into the same files after. Each run so
continues the history of the runs before it. A second program, `combiner`, merges lists
of prefixes. Both are single-threaded; what is hard about them are pointer structures
under long sequences of calls, arithmetic at the ends of the address space, and the
replacement of four files that belong together. The logger and the registry of caches
underneath are written for several threads.

| Component | State | Operations | Interacts with | Hard behaviour | Correct when |
|---|---|---|---|---|---|
| memcache (`memcache.cpp`) | list of slabs, one slab in reserve, per slab a chain of free indexes; a registry of all caches | create, alloc (grow and retry), free, destroy, dump | everything allocates from it | objects given back in any order; malloc failing half-way; reciprocal division; a slab that just became empty; a dump of all caches while other threads use them | no two live objects overlap, the chain of a slab is exactly its free objects, no slab is lost, alloc ends |
| tree (`tree.cpp`) | nodes with child pointers or threads, balances, count | insert/replace, remove/steal, lookup, first/last, next/previous, traversals, remove all | memcache; used by topn, seg_tree | threads and balances through rotations; removal of inner nodes; which key object is destroyed; neighbour read after removal | it is an ordered map, balanced, threads lead to the neighbours |
| seg_tree (end of `tree.cpp`) | a tree of disjoint intervals | insert, traversal | tree; used by combiner | removing what a new interval covers | the union of intervals is kept, disjoint |
| topn (`topn.cpp`) | tree, capacity, `min_key` | insert with eviction or refusal, traversal | tree; used by `sort_list` | `min_key` taken before the insertion; ties; capacities 0 and 1 | keeps the greatest, loses nothing when large enough |
| hash_table (`hash_table.cpp`) | arrays of hashes, keys, values (keys and values may be one array), counters | insert/replace, remove/steal, lookup, foreach, foreach_remove, remove_all, resize, free | used by caches_maps | unbounded probe loop, tombstones, rehashing, reserved hash values | it is a dictionary, searches end |
| list (`list.cpp`) | doubly linked nodes, a cache per list | append, prepend, insert, remove, concat, reverse, duplicate, find, foreach | memcache; a.list | links in both directions | sequence semantics both ways |
| caches_maps (`caches_maps.cpp`) | the four record maps, w/b list map, a.list | record2map, build_wb_list, build_a_list, sort_list, dump_list | hash_table, topn, list, memcache, ipmask | four maps that must agree; traffic cut to megabytes | sums are exact, a dump loses no record |
| clist_parser (`clist_parser.cpp`) | none | parse_c_list, build_map_from_c_list | caches_maps | must read what dump_record wrote | round trip |
| nat_log_parser (`nat_log_parser.cpp`) | none | parse_log | a.list | which end is ours, which port, which bytes | fields as in the line |
| analyzer (`analyzer.cpp`) | the lists and their `.orig`, options | main: check_files, build maps, process_logfile, output | all of the above, the file system | a kill or a failed write between renames, rewriting and removals; repeated runs | the history survives |
| touch (`touch.cpp`) | none | is_addr_reachable | network | timeouts | a bounded wait |
| ipmask (`ipmask.cpp`), combiner (`combiner.cpp`) | the last interval seen | mask/interval conversions, merging of sorted intervals into prefixes | seg_tree | boundaries at 0 and 2^32-1 | the same set of addresses |
| log (`log.cpp`) | loggers, their mutexes, a global default | new, write, set level, free | all | threads; replacement of the default log | one writer at a time, one default log, no use after free, calls return |
| cmdparse, types, macros | none | argument parsing, comparison functions | analyzer, combiner | | |
| scripts (`src/scripts`) | log files | rotation, running the programs from cron | the programs | | |

The hazards of each are listed in `PROJECT.json` at their lines, with the
properties aimed at them.

## 2. Plan

Order: the containers first, because everything rests on them, then the program
over the file system; then the remaining containers, the second program, and what is
shared between threads.

| Step | Modules | State |
|---|---|---|
| 1 | `ObjectPool` (abstract), `MemCache` refines it, `MemCacheProofs` | done |
| 2 | `TreeBalance`, `TreeOps` (the tree as a value), `Dictionary` and `OrderedMap` (abstract), `Tree` refines `OrderedMap`; `TreeShapeProofs`, `TreeProofs` | done |
| 3 | `TopN` on `TreeOps`; `TreeProofs` | done |
| 4 | `HashTable` refines `Dictionary`, `HashTableProofs` | done |
| 5 | `NatLog`, `Touch`, `Analyzer` with failing calls and kills, `AnalyzerProofs` | done |
| 6 | `IpMask`, `SegTree` on `TreeOps`, `Combiner`; `AddrLists`, with `AnalyzerProofs` | done |
| 7 | `List` with its memory caches, `ListProofs` | done |
| 8 | `Log`, `CacheRegistry` with threads, `CacheRegistryProofs` | done |

`Numbers` holds the arithmetic that several of the proofs share.

Left: proofs about the interval tree (`SegTree`, `Combiner`), which would start from
`TreeShapeProofs` as those about `TopN` do. Lists named on the command line could be
added to `Analyzer`.

## 3. What the modules model

Conventions. Names are those of the source. One action is one call of the
API, from its first line to its return, because nothing else runs in between; in
`Analyzer`, where the outside world can interfere, one action is one system call; in
`Log` and `CacheRegistry` one action is one access to memory that threads share.
A definition marked "mutant" is not part of a model: it is the definition after
it with a plausible bug, used to show that a property notices.

**ObjectPool** is what a caller of a cache may rely on: an object handed out
overlaps no object he holds. **MemCache** has the code's state one to one: `list`,
`wait_for_free`, per slab `inuse`, `obj_free`, `obj_ctl`. `mem_cache_alloc` is split at
its label `re_alloc` (pc `"rescan"` means that cache_grow has returned), so that the
retry loop is visible. malloc may fail at either call; a header whose second block
failed is in `lost`. `ObjToIndex` is the code's multiplication with a reciprocal, in a
word of `Word` values in place of 2^32.

**TreeOps** writes each function of `tree.cpp` as an operator on a tree value (node,
root, nnodes; each node with left/right, thread flags and balance), rotations from
**TreeBalance**. **Tree** is the state machine over it: every public operation, the
outcome (`ret`: what was returned, and what was passed to the destroy functions), and
`crashed` for a null pointer that is read. A node is named by the rank of its key,
which is sound as equal keys share one node; ranks are integers and no null pointer
(`RankAssumption`), and a value is no key object (`ObjectAssumption`), so that what is
freed can be told apart. `Dictionary` is the abstract map with
key objects (equal keys are different objects, so that it matters which is kept and
which is freed); `OrderedMap` adds removal at the ends.

**TopN** is `topn.cpp` on the same tree operators, with the comparison that never
returns 0. Items are no null pointers (`ItemAssumption`). The code's `tree` is `topn_tree`
there, and its operations are named `TopNInsert` and so on, as one proof module extends it
together with `Tree`. In **TopN** and **HashTable** a container that is freed is followed
by a new one (`TopNFree`, `Free`).

**HashTable** has the code's arrays and counters, the prime modulus and the
triangular probe sequence. A probe loop is expressed by the first round at which it
stops. `aliased` says that keys and values are one array. Hash functions are a
constant. Sizes are powers of two up to 2^30, the greatest that an int holds; `Rank` is
assumed to have fewer than half as many keys (`RankAssumption`), beyond which the code's
sizes overflow. Callers' contracts are in the guard of `Insert`: a key object is passed once,
and in set mode (value = key) an equal key is replaced rather than inserted.

**List** is `list.cpp` over several lists, each with the memory cache its nodes
come from, because `list_concat` moves nodes but not their memory. `contents` is what
`list.h` says is in a list. Three history variables name the calls after which that may
be wrong: `loose` (nodes whose prev `list_prepend` did not set, lines 82-100), `bent`
(lists that lost or disordered nodes: a loose node removed or inserted before;
`list_reverse` of several nodes, which swaps head and tail only, lines 304-315; a list
that holds nodes of a list which was freed) and `miscounted` (`list_concat` leaves
list2's length, lines 162-183; `list_duplicate` copies the length and then counts every
node again, lines 322-342). `list_insert_sorted` inserts before the first smaller element
and so keeps descending order (`DescendingKept`), although `list.h:59-67` says before the
first greater one, and ascending (`AscendingKept`, a finding); no code calls it.

**IpMask** is the arithmetic of `ipmask.cpp` for words of `Width` bits; `shl[n]` is
`1 << n`, and shifting and masking are written with `\div` and `%`. What
`get_ip_seg_from_mask_str` returns is a set, because of two kinds of lines. One that is
empty or has only slashes (`NOTHING`) has no result: `strtok_r` returns NULL and `strncpy`
reads it (`ipmask.cpp:30`). An address of fifteen characters (`Long`) fills `ipstr`
without a terminator, which the comment on line 31 announces but no code writes, and
`inet_pton` takes or refuses it as the byte behind has it: two results. **SegTree** is the interval tree on `TreeOps`,
with `key_equal` as the comparison, including the removal of what a new interval covers
as the code does it, from `rm_start_node` where `rm_end_node` is meant. **Combiner** is
`combiner.cpp`: one action per line read, one per node of the walk. **AddrLists** is
loading of `w.list`, `b.list` and `a.list` by `caches_maps.cpp`: one action per line,
and for the first two one per address of the line's block, so that a loop whose counter
wraps is visible. `build_wb_list` and `build_a_list` pass blank lines on, which kills the
program (`ReadNothing`); combiner skips them, but not lines of slashes. `wb_named` and
`a_named` are history, the addresses the lines read stand for, and `wb_sure` and `a_sure`
those of lines whose address is shorter than fifteen characters.

**NatLog** says which log lines count, for whom, and what of a record survives
being written and read back. **Touch** is the wait for a peer's web port. **Analyzer**
runs main repeatedly over the four lists: check_files, loading, one action per log
line, then output: four renames, four dumps, four removals or four renames back, each
one action. Any dump may fail to open its file; any rename or removal may fail
unnoticed (`BackupFails`, `CallFails`); a write may be short unnoticed (`DumpShort`); and
the process may be killed between any two (`Crash`; a list that is being written is
then cut short). `MaxFaults` bounds the last four. `fresh`, `committed`, `total`,
`outputs`, `unbacked`, `unrestored`, `spoilt` and `harm` are history variables: they record
what a reader of the lists may expect and do not influence any action. `ABSENT` is assumed to be
no list (`AbsentAssumption`), and the traffic of a line not to be negative
(`TrafficAssumption`: the fields are unsigned).

**Log** is the logger for several threads: the default log that is looked at without a
lock and created under one, each log's own mutex, `log_set_level`, and the replacement
of the default log as `log.h:28` shows it and `analyzer.cpp` does it. **CacheRegistry**
adds the list of all caches with its lock: `mem_cache_create`, `mem_cache_destroy` and
`mem_cache_dump_all`, which logs while it holds the lock. It composes the two: a thread
inside `dump_all` goes through all labels of `log_str` and comes back (`back`). For every
cache the dump walks the slabs, one log call for each (`Visit`, `VisitSlab`, `NextSlab`,
`VisitReserve`), while the thread that uses the cache links slabs (`Grow`) and unlinks and
frees them (`Shrink`) without a lock; what objects a slab holds is left to `MemCache`, so
that a slab may become full or empty at any time. Reading freed memory or a null log sets
`fault` and ends the behaviour. Four variables are history: `stale`, a walk began at a
head that was changed before the lock was taken; `lost`, a cache was unlinked as the head
although others had been pushed in front of it; `replaced`, the default log was replaced
while another thread was inside a call; `shrunk`, a slab was unlinked while a dump stood
on it.

### Left out on purpose

* Formatting and line splitting; a log line is a record of its fields, a list line a
  record. Lines no dump writes (unparsable ones) do not occur in the four lists, nor
  does a failure to parse that would stop loading. A killed process may in reality
  leave the last line torn; the model cuts between records.
* `cmdparse.cpp`: one pass over argv without state that outlives it; its result is the
  input of `Analyzer` (`TimeoutOption`). Lists named on the command line.
* Widths of `count` (32 bits) and `bytes`: runs stay far below them. `flag` keeps its
  16 bits, `tv_usec` its 32.
* memcache objects of one byte (the reciprocal wraps) and slabs beyond 2^32 bytes:
  excluded by `SizesAssumption`, no cache of the program is like that.
* `seg_tree_free`, which no program calls; hash functions (a constant); debug printing; comparison functions and macros; the shell
  scripts, which only run the programs in turn.
* Set mode insertion of an equal key with `hash_table_insert`: it would destroy the
  key that it stores as value; nobody does it.
* tree_remove_first/last_node on a tree of one node, except in the run about it
  (`FewestNodes`): it reads a null pointer.
* Memory that is freed is not handed out again in `List`, `Log` and `CacheRegistry`: a
  use of freed memory is always visible as such. `mem_cache_dump`, which logs one cache and
  has no caller. A thread that uses a cache in `CacheRegistry` is not inside another call,
  and nobody uses a cache that is being destroyed: those are callers' errors.
* `list.cpp` with a destroy function: the only caller passes null. Searches in a list
  that is already `bent`, and growth of it, are not explored (`MayGrow`).

## 4. Runs

| Run | Bounds | Shows |
|---|---|---|
| memcache_pool | 3 slabs of 2 objects of 3 bytes, 3-bit word, symmetric slabs | `FreeChainSound`, `LiveBacked`, `SlabsAccounted`, `NoIdleSlab`, `GrowthMakesRoom`; refinement of `ObjectPool` |
| tree_shape | 12 keys | every tree over 12 keys: nothing lost, balances and threads exact |
| tree_calls | 4 ranks, 2 key objects each, 2 values; the container: 7 items, two pairs of equal weight, capacities 0-4 and 7 | refinement of `OrderedMap`, with the objects freed; a dump is complete and descending; evictions are smallest; `min_key` lags by at most one item; only capacities below 2 crash |
| tree_last_node | trees of one node | finding: null pointer |
| topn_refusal | capacity 3 | finding: a greater item is refused |
| hash | 5 keys, one with 2 key objects, tables of 2 to 16 slots | searches end, counters exact, every entry found; refinement of `Dictionary`, with the objects freed |
| list | 2 lists, 3 nodes, 2 data | `KeepsPromise`, `LengthExact`, `FreedNodesUnread`: what `list.h` promises holds up to the calls named above |
| list_sorted | 1 list, 3 nodes, 2 data | finding: two sorted insertions leave descending order |
| prefixes | 3-bit addresses, every block, 5 odd lines (among them one without an address), 2 addresses of fifteen characters, 2 intervals in a.list | combiner: `SegmentsOrdered`, `InsertExact`, `PrintsLargestPrefixes`; analyzer's lists: `ListsExact`, `LoadingEnds` |
| threads | 2 threads, 2 calls each, 3 caches, 2 levels; 2 slabs that are linked or unlinked up to 4 times, with 3 calls in all | `OneWriter`, `RegistryLocked`, `OneDefaultLog`, `RegistryExact`, `FaultNeedsRace`, `CallsReturn` |
| analyzer_runs | 3 runs, 2 log lines each of 5 kinds, 2 faults, 3 time-outs, 4 bytes to the megabyte | `NothingLost`, `FailureRestores`, `HistoryAccounted`, `CommonDominates`, `PeersAnswered` |
| analyzer_flag | 3 runs of up to 6 lines | finding: the flag of a record with 10 connections |

Why the bounds are enough. *memcache*: three slabs are needed to unlink one from the
middle of the list while another is in reserve; with two objects a slab is full,
partly used and empty, and objects return in both orders. Longer chains are covered
by the proofs. *tree*: a removal that rotates at two levels needs a tree of height 5,
whose smallest has 12 nodes. *topn*: an eviction needs capacity + 1 items, a wrong
refusal two more. *hash table*: `MinShift` is 1 instead of 3, so that few keys fill,
grow and shrink it; hashes include both reserved values and three that collide.
*list*: three nodes have a first, a middle and a last; two lists can be concatenated,
duplicated and freed in either order. *prefixes*: three bits give blocks of four
sizes, nested three deep, with one at each end of the address space; a merged interval
takes up to four prefixes to print. The larger the words, the more segments, but the
cases of `seg_tree_insert` are told apart by two neighbours. *threads*: the races are
between two threads; a third adds waiting, which the proofs cover. Two calls are needed
to replace a log that the other thread has read and to destroy a cache created before.
For slabs three calls are enough: create, dump, and one more that logs or destroys;
two slabs and four moves let one be linked, made the reserve and freed when the other
is. All three races happen, each with a fault, and so does the loss of a cache.
*analyzer*: the second run reads what the first wrote and the third what came out of
that; two faults, because a failing rename can meet a kill. `MAX_LINE_COUNT` is the
code's bound made small.

The cases that the bounds are to let happen do: each property is violated, in its own
run, by a definition with a plausible bug (`mutants` in `PROJECT.json`).

Deadlock checking is off where the system stops: in `TopN` a null pointer may
have been read, in `Analyzer` the last of `MaxRuns` runs has ended, in `prefixes` the program
has come to its end, in `threads` all calls have returned or a fault has happened, in
`list` a freed node has been read, in tree_last_node the process is dead. That
threads do not wait for each other for ever is therefore `CallsReturn`, not a deadlock
check. tree_shape takes one of the calls that differ in
`ret` only (`ShapeSpec` in `MCTree`; tree_calls has them all). Views (`ShapeView`,
`TableView`, `MCView`) leave out what no action reads: `ret`, the time-out and line
count once the log has ended, and the sums of the lines once `harm` is done. Symmetry is over slabs and over lists, which the
models do not distinguish; no run with a liveness property uses it.

### Fairness

Two parts of the code can wait or loop without a bound visible in the state.
`CacheRegistry` assumes weak fairness of each thread's next step inside a call
(`Continue`): a thread that is not waiting for a mutex is run again by the scheduler.
It need not start another call, and nothing is assumed about who gets a mutex. That this
suffices for `CallsReturn` rests on `MaxCalls` and `MaxMoves`: with endless calls of others
a thread might be overtaken for ever, as POSIX mutexes promise no order, and a dump might
follow slabs that are linked again and again. `AddrLists`
assumes weak fairness of the loop's next round, that is, that the process runs.
Everything else is safety: that `mem_cache_alloc`'s retry and the probe loops end is
stated as a bound on them (`GrowthMakesRoom`, `SearchEnds`).

### What some properties do and do not say

`NothingLost`: through a whole output, failed or not, and through failing calls and a
kill at any point of it, each list exists in its last complete version under its own
name or as `.orig`. It is said list by list, so that damage to one does not excuse
another. Excepted are a list that could not be renamed and is rewritten in place
(`unbacked`), and the lists in `spoilt`: one whose short write counted as success, and one
that a fault had left out of its place when *a run follows*: check_files of that run finds
it absent, creates it empty, and output renames the empty one over the `.orig`. A list is
in `spoilt` until the next output that is complete. No document promises recovery, so
this is not a finding; the exception makes it visible, and it is the reason why an
operator has to look for `.orig` files after a kill. `FailureRestores`, `HistoryAccounted`
and `CommonDominates` are about runs without spoilt lists (`harm = "safe"`), for the four
lists have to agree in them.

`PeersAnswered`: `touch.cpp:68-69` waits for the whole time-out as microseconds and for its
seconds once more. Up to 999 ms, 300 among them, the wait is what `analyzer.cpp:43`
promises; from a second on it is up to twice as long, and `Deadline` is that bound. An
answer within it is accepted.

`InsertExact`: an interval that contains a stored one may make the tree lose segments
behind it, may not be stored, or may read a null pointer (`tree.cpp:1007`); nothing
else does, and no address appears that was not read. `PrintsLargestPrefixes`: address 0
as a segment of its own is not printed, as `g_end == 0` stands for nothing yet.

`ListsExact`: an address of fifteen characters may be taken or refused (see **IpMask**), and
the block 0.0.0.0/32 is taken for a malformed line. A line without an address, such as a
blank one, crashes the program: what was read before it is as it should be, and nothing
is said of what follows. `LoadingEnds`: a
block that ends at 255.255.255.255 in w.list or b.list is never left.

`FaultNeedsRace`: freed memory is used only after one of three races the code leaves
open: `memcache.cpp:110` and `:247`, where `head` is read before the lock; the
replacement of the default log under other threads; and `memcache.cpp:254-258`, where the
dump stands on a slab that `mem_cache_free` of another thread unlinks (it is freed by a
later call, line 202). With them it does happen, although `log.h:6` calls its functions
thread-safe; the programs themselves have one thread.

`RegistryExact`: a stale head alone does not make the list of caches wrong: the walk still
finds its cache, or nothing. It goes wrong when a cache that *was* the head is unlinked
as the head (`memcache.cpp:116`) although another was pushed meanwhile, which drops what
was pushed. This is the condition `~lost`.

## 5. Findings

| Run | Where | What |
|---|---|---|
| tree_last_node | `tree.cpp:888` | removing the only node reads `NULL->key`; documented to return NULL |
| topn_refusal | `topn.cpp:56` | `min_key` is not the minimum after an eviction; larger items are refused |
| list_sorted | `list.cpp:109` | `list_insert_sorted` keeps descending order; `list.h:59-67` says ascending |
| analyzer_flag | `clist_parser.cpp:72` | the flag of a record is read from inside a count of two digits |

Other disagreements met on the way have no run of their own: a cache of size 0,
documented as "use a default", grows until malloc fails (`memcache.cpp:193`; the theorem
`OneGrowthSuffices` has to exclude it); a port that begins with 80, 8080 among them, is
taken for 80 (`nat_log_parser.cpp:68`); `hash_table_foreach` ignores the callback's
result, which `hash_table.h:119` says stops it (`hash_table.cpp:503`; sort_list depends
on it not stopping); reachability detection is off by default although the help text
names 300 ms (`analyzer.cpp:43`, `:57`); a blank line in w.list, b.list or a.list crashes
analyzer (`ipmask.cpp:30`); the comment on `ipmask.cpp:31` has no code; and the facts about `list.cpp` in section 3.

## 6. What is proved

`MemCacheProofs`, for every set of slabs, every object size of at least two bytes,
every slab size of at least one object that the word can address:

* the inductive invariant `MemCacheInv` (`MemCacheInvariant`): `TypeOK`, the
  accounting of slabs, the chain of every slab in the list or in reserve, and, after a
  growth, room in the first slab. The chain property alone is not inductive: to push a
  freed object one needs that it is in no chain yet, which needs that live objects are
  aligned and lie in listed slabs; to take an object one needs that a slab with room has
  a non-empty chain, which ties `inuse` to the length of the chain. A chain is stated by
  the existence of an injective function that lists it (`IsChain`), so that a step
  gives the new function explicitly (`ChainFresh`, `ChainPop`, `ChainPush`) and no
  recursion is needed;
* from it `ChainsSound`, `LiveObjectsBacked`, `OneGrowthSuffices`, `SlabAccounting`,
  `IdleSlabs`, `TypeCorrect`;
* `CacheImplementsPool`: each step of the cache is a step of `ObjectPool` or a stutter.
  Its arithmetic core is `IndexRoundTrip`: multiplication with the rounded reciprocal
  gives back the index for every object of a slab.

They assume `SizesAssumption`, `NullAssumption` and `CacheSize > 0`; with a size of 0
`GrowthMakesRoom` fails.

`TreeShapeProofs`, for trees of any size, any keys and any comparison that their order
directs: what searches, walks and insertions of `TreeOps` do to the shape of a tree. `Holds(t, D, pos)` says
that the nodes of `t` are `D`, in the order of the numbers `pos`, with exact balances
within -1 .. 1 and threads to the neighbours. It hides four functions that the code does
not store, per node: the two nodes between which its subtree lies (`lo`, `hi`), its parent
(`up`) and its height (`h`). With them order, threads and balances are conditions on each
node and its children alone (`Placed`, `Level`), so that a rotation is a change at three
nodes and no induction over a tree is needed; that a path goes down from the root and
meets no node twice follows from the heights, and what a loop computes from an induction
over the nodes of lower height.

* `RotateLeftHeights` to `DoubleRightBalances`: the balances that the code stores after a
  single or double rotation are the actual differences of height, and the cases in which
  `tree_node_balance` rotates leave all nodes involved balanced;
* `RestoreKeeps`: the loop up the path, which insertion and removal share. Its invariant
  (`Climbing`) is that at most one node is unsettled: its subtree is one higher or lower than
  the balances above it say (`Unsettled`);
* `FindNodeFinds`: a search finds the key exactly if it is there, because what was passed
  on the way bounds where it can be (`Bracketed`); `ForeachVisitsAll`: the walk along the
  threads misses no node;
* `InsertKeeps`: an insertion, of a new key and of one that is there.

`TreeProofs` first goes on with removal: `RemoveKeeps`, in all the cases of a leaf, one child
and two, and `RemoveFirstKeeps` and `RemoveLastKeeps` for the two ends. The hard case is a
node with two children, when the successor moves into its place and a thread is
redirected: the tree is shown to be the tree without the successor, with that node's name
put in the place of the removed one (`Renamed`, `Reordered`), so that the cases of a leaf
and of one child need not be repeated.

Then, for any ranks, key objects and values, from `RankAssumption` and `ObjectAssumption`:

* the inductive invariant `TreeInv` (`TreeInvariant`): the tree holds its nodes in the order
  of the ranks, and every node has an entry of its rank;
* `HoldsChecked`: in such a tree `RealHeight` and `Subtree`, which `tree_node_check` computes
  by going down from the root, agree with the balances and reach all nodes. From it
  `NeverLosesNodes`, `BalancesStayExact` and `ThreadsStayExact`: `NothingLost`, `BalancesExact`,
  `ThreadsExact`;
* `TreeIsOrderedMap`: every call is a step of `OrderedMap`, with what is returned and freed;
* `TwoNodesNeverCrash`: `NeverCrashes` when the ends are only removed from trees of two nodes
  or more (an assumption on `FewestNodes`); with one node the run tree_last_node shows the
  null pointer.

At last **TopN**, for any items, weights and capacities, from `CapacityAssumption`,
`WeightAssumption` and `ItemAssumption`. The comparison of `topn.cpp` is no order: of two items
of equal weight each is less than the other. So the tree is not a search tree of weights
and `InsertKeeps` does not apply as it stands. `Ordered` says instead that there are
positions, in the order of the tree, along which weights do not fall. To insert an item
the positions are chosen anew (`Repositioned`, `PlaceBetween`), with a gap between the lighter
items and the others, and an insertion that the gap directs goes the same way as the
code's, because only signs matter (`SignsDecide`).

* the inductive invariant `TopNInv` (`TopNInvariant`): `Ordered`; what was offered is there
  unless more was offered than there is room for (`Room`); `min_key` is kept and at most
  one item is lighter (`Alive`). The last survives an eviction because the new `min_key` is
  least in what is left before the one new item comes;
* from it `NothingIsDropped`, `CrashesOnlyTiny`, `MinKeyStaysAlive`, `MinKeyStaysNear`,
  `EvictionsDropLightest` and `DumpsDescend`: `NothingDropped`, `CrashOnlyTiny`, `MinKeyAlive`,
  `MinKeyNearMinimum`, `EvictsSmallest` and `DumpDescending`. The last needs that the walk
  back along the threads falls and meets each node once (`ReverseFalls`).

`CacheRegistryProofs`, for any number of threads, calls, caches and slabs, from
`LevelAssumption`, `NullAssumption`, `BoundAssumption` and `SlabAssumption`:

* the inductive invariant `IInv` has these parts. `Mutexes` says where a thread is when
  it holds which mutex (`OneWriter`, `RegistryLocked`), and that a thread past a null
  check has a pointer (`PlacesOK`, `SlabPlaces`). `LogsSafe`: as long as the default log was
  not replaced under another thread, logs in use are not freed and the default log is the
  only one. `OwnersDistinct`: nobody else creates or destroys the cache of a call.
  `RegistrySafe`: until the list was cut (`lost`), pointers lead from listed cache to listed
  cache, no two to one and none to the head, and a walk has met listed caches or freed
  ones. `HeadsCurrent`: as long as no walk began at an old head, the list was not cut
  either, and a walk stands on a listed cache with `pr` right before `pc`. `SlabsSound`: the
  linked slabs of a cache lead to linked slabs of the same cache, not in a ring, and the
  reserve is none of them, so that nothing leads to the slab that is freed. `DumpsSafe`: without the
  races, a dump stands on a slab that is linked. `FaultNeedsRace` follows and is carried
  along;
* the list needs its three clauses together: unlinking a cache may leave no second
  pointer to it, which is injectivity, which a push preserves because nothing points
  to the head;
* `AllReached`: until the list was cut, it reaches all linked caches: every set of
  them that has the head and with every cache the next one is all of them. Stated so it
  needs no path and no induction over one. From it `RegistryKept`: `RegistryExact`;
* from the others `WritersExclusive`, `RegistryExclusive`, `DefaultLogUnique`,
  `FaultsAreRaces` and `Typed`.

`HashTableProofs`, for all keys, hash functions and least sizes, from
`HashAssumption`, `ShiftAssumption` and `RankAssumption`:

* `ProbeDistinct`: the first 2^n probes of a search meet 2^n different slots. That the
  steps grow by one each time makes the offsets triangular numbers, and two of them
  that agree modulo 2^n have a product of an odd and a small factor divisible by it
  (`OddProduct` in `Numbers`);
* the inductive invariant `IInv`: both counters are exact, fewer slots are occupied than
  there are, and every entry lies on the probe sequence of its hash before any unused
  slot (`Sound`). Counters and free slots need each other: a search ends because
  `noccupied` is below the size, and this holds after an insertion because the resize
  that follows counts it exactly. For `hash_table_resize`, a fold over the old slots,
  the loop has an invariant of its own (`Halfway`);
* from it `SearchesEnd`, `CountersExact`, `EntriesAreFound` and `TableIsDictionary`: each
  call does to the mapping what `Dictionary` says, and frees what it says.

`ListProofs`, for any number of lists, nodes and values, from `DataAssumption` and
`NullAssumption`:

* the inductive invariant `IInv`: each list that is not `bent` is the chain of its
  promised sequence, both ways but for `loose` nodes; two of them share no node; its
  length is right unless `miscounted`; and there is a set of nodes closed under `next`
  and `prev` that holds all that `bent` lists reach and nothing of the others (`Apart`).
  Without the last, a removal from a damaged list could change a sound one;
* from it `PromiseKept`, `LengthsRight`, `FreedStaysUnread`; and `OrderKept`, that
  `list_insert_sorted` keeps the descending order of a list that is not `bent`
  (`DescendingKept`): what the code does in place of what `list.h` promises.

`AnalyzerProofs`, for any lists, lines, answers and time-outs and any number of runs
and faults:

* `ListsKept`: `NothingLost`. The invariant `FilesInv` says, by phase and step of
  output, which lists have been dealt with (`Dealt`), and for each where its committed
  version is (`ListsPlaced`): before the backup in the file, then in `.orig`, after the
  last dump in the file again. It says so of every list that is not spoilt, and that none
  is while `harm` is safe. `NothingLost` alone does not tell at which of the
  two places, so a rename over one of them could not be shown to be harmless;
* `FailedOutputUndone`: `FailureRestores`, from the same invariant and `Undone`, that what
  the restoring loop has passed has no `.orig` left;
* `BooksBalance`: `HistoryAccounted`, and `CommonCoversPorts`: `CommonDominates`. Neither is
  inductive. Both need what the maps say while a run adds lines: the common map is what
  was loaded plus the lines of this run (`Merged`), what was loaded is the ledger of the
  earlier runs cut to megabytes (`Ledger`), and the three ports stay below the common map
  both in the maps and in what the next run would load (`Dominates`), because cutting to
  megabytes is monotone and superadditive. `AnalyzerInvariant` has all parts together;
* `UnansweredLeftOut`: `PeersAnswered`, from `WaitBounded`, which bounds the wait
  in spite of the 32 bits; and `WaitInFull`, that while a thousand times the time-out fits
  in 32 bits the wait is not shorter than asked for, and below a second not longer.

`AnalyzerProofs`, last part, about `IpMask` and `AddrLists`, for words of any width, from `WidthAssumption` and `TextAssumption`
(a text is an address, none or nothing at all, with a number or none):

* `MaskLongest`: the binary search of `get_ip_mask_from_ip_seg` finds the longest prefix
  that the two ends share. Its loop invariant is that the ends agree from `end` on and,
  unless `begin` is 0, not from `begin` on; the search is a recursive function, shown to
  exist because each round narrows the range;
* `PrefixRoundTrip`: the mask of the block of a prefix is that of the prefix;
* `LookupsExact`: `ListsExact`. While the loop over a block runs, what is missing is the
  rest of the block (`Pending`), except for a block at the end of the address space, which
  the loop never leaves.

`Numbers`: induction and the least element, stated with a set instead of a predicate so
that they can be cited; recursive doubling defines a function, and its values are powers
of two with unique quotients.

Only model-checked: liveness (`CallsReturn`, `LoadingEnds`), which is beyond the prover;
and what stands on the interval tree (`SegmentsOrdered`, `InsertExact`,
`PrintsLargestPrefixes`): `Combiner` computes what it prints with a RECURSIVE operator
(`Cut`), which the prover does not accept, and no proof about `SegTree` has been tried.
