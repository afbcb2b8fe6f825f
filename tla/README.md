# GlusterFS 3.0.2 in TLA+

GlusterFS is a cluster file system built from *translators*: every translator
implements the file operations (`fop`s), winds them to its children and unwinds
the answers to its parent. A volume is a graph of translators, half of it in the
client process and half of it in the server processes (bricks), joined by
`protocol/client` and `protocol/server`.

This project models the translators whose correctness depends on the order of
events: callbacks that arrive in any order, threads that interleave between two
critical sections, links that break in the middle of a call, clients that die,
requests that fail after others have succeeded. Paths below are relative to
`src/`; those of translators to `src/xlators/`.

1. [The system](#1-the-system)
2. [Modules](#2-modules-and-how-they-correspond-to-the-code)
3. [Runs](#3-runs)
4. [Proofs](#4-proofs)
5. [Where the code deviates](#5-where-the-code-deviates)
6. [Not modelled](#6-not-modelled)

## 1. The system

A typical volume, from the application down:

```
client   mount/fuse
         performance/quick-read, stat-prefetch, write-behind     caches, queues
         cluster/dht | nufa | switch | stripe                    distribution
         cluster/afr | ha                                        copies, paths
         protocol/client                                         one per brick
 ------- network
server   protocol/server                                         requests, descriptors
         performance/io-threads                                  worker threads
         features/locks                                          inodelk, entrylk, fcntl
         storage/posix                                           system calls
```

| Part | State | Hard behaviour | What makes it correct |
|---|---|---|---|
| `features/locks`: inodelk, entrylk | lists of granted and blocked locks, refkeeper | the mutex is dropped between removing a lock, the grant loop and the answers | exclusion, no lost wakeup, no overtaking, every request answered |
| `features/locks`: fcntl locks | list of ranges | split and merge, blocked locks, a close that overtakes a lock | owners exclude each other on every byte |
| `protocol/server` | transports, connections, descriptor tables, inode table, lock table | a client goes away in the middle of a call; answers overtake each other | nothing of a dead client stays, names resolve to their files |
| `performance/io-threads` | queues of workers that exit and restart | an idle worker exits while a request comes | order per inode, no request left |
| `storage/posix` | descriptors, generations, counters | one system call of several fails; two threads in one directory | a failure is taken back, descriptors are closed once |
| `libglusterfs`: call stubs, descriptor table | owned arguments, free list | forty-five kinds of call, four switch statements each | everything stored is passed on and released once |
| `protocol/client` | saved frames, two connections, timers, descriptors to reopen | a timeout races a late reply; a link breaks unnoticed; a reconnect that is only half | each call answered once, handles of the right session, the link is tried again |
| `cluster/afr`: transactions | changelogs, locks, `afr_local_t`, `afr_fd_ctx_t` | children fail between any two steps, crash, concurrent writers, changelog left open on the descriptor | differing copies are recorded, no good copy is accused, writers exclude each other |
| `cluster/afr`: self-heal | pending matrix, sources, sinks, loops that copy | heals and writes at once, a source that is lost, clients that die | what is trusted is the latest, nothing is left locked |
| `cluster/dht`, `nufa`, `switch` | layouts, link files | partial failure of a rename or a mkdir, two clients | layouts cover the hash ring, no file is lost |
| `cluster/stripe`, `cluster/ha` | counters per call, paths | one of several children fails | one answer per call, what was written reads back, executed once |
| `performance/write-behind` | queue, window, aggregate, remembered error | several threads process the queue, buffers are merged | order against other calls, errors reported, calls answered |
| `performance/stat-prefetch`, `quick-read` | cached entries and contents, calls that wait in a context | a cache that is filled while it is invalidated, an open that is put off | own changes seen, nothing reaches an inode or descriptor the volume has not seen, no waiter forgotten |

How they interact, as far as a property of one part rests on another:

- AFR locks, marks, writes and unmarks through `protocol/client`, `protocol/server`
  and `features/locks`. `ClientProtocol` shows what AFR assumes of a connection:
  a call is executed at most once and answered once (`RemoteCall`). `LockDomain`
  with `Remote = TRUE` shows what it may assume of the locks: two *clients*
  exclude each other, two transactions of one client do not always (section 5).
- When a connection breaks, the client's calls fail, AFR is notified
  (`CHILD_DOWN`), and the server cleans up: `Server` closes the descriptors,
  `LockDomain` drops the locks.
- `storage/posix` relies on operations on one open file not being concurrent
  (`lseek` and `read` are two system calls): `IoThreads` shows the order kept
  (`OrderKept`), and `Posix` takes it as its guard.
- `stat-prefetch` and `quick-read` answer lookups and opens the volume has not
  seen. That is sound only if every later call is preceded by the real one
  (`LookedUpFirst`, `OpenedFirst`).

`PROJECT.json` lists all parts of the repository with their status, and under
`hazards` the lines at which the hard behaviours bite.

## 2. Modules and how they correspond to the code

| Module | Code | Used by |
|---|---|---|
| `LockDomain` | `features/locks`: `inodelk.c`, `entrylk.c`; lock table in `protocol/server`: `server-helpers.c` | `MCLockDomain`, lock proofs |
| `PosixLocks` | `features/locks`: `posix.c`, `common.c` | `MCFeatures` |
| `Server`, `ServerFops`, `FdTable` | `server-protocol.c`, `server-helpers.c`, `libglusterfs/src/fd.c` | `MCBrick` |
| `ServerResolve` | `server-resolve.c`, `libglusterfs/src/inode.c` | `MCFeatures` |
| `IoThreads` | `performance/io-threads` | `MCBrick` |
| `CallStub` | `libglusterfs/src/call-stub.c` | `MCBrick` |
| `Posix`, `PosixFops` | `storage/posix` | `MCBrick`, `MCFeatures` |
| `ClientProtocol`, `RemoteCall` | `protocol/client`; what it promises | `MCClientProtocol`, client proofs |
| `AfrTransaction`, `AfrSources` | `cluster/afr`: `afr-transaction.c`, `afr-inode-write.c`, `afr-open.c`; the pending matrix in `afr-self-heal-common.c` | `MCAfrTransaction`, `MCAfrHeal`, AFR proofs |
| `AfrFops`, `AfrFopTable` | `afr-dir-write.c`, `afr-inode-write.c`, `afr-inode-read.c`, `afr-dir-read.c`, `afr.c` | `MCAfrHeal` |
| `AfrHeal` | `afr-self-heal-common.c`, `-metadata.c`, `-data.c`, `-algorithm.c`, lookup in `afr.c` | `MCAfrHeal` |
| `AfrHealEntry` | `afr-self-heal-entry.c`, opendir in `afr-dir-read.c` | `MCAfrHeal` |
| `DhtLayout`, `DhtDir` | `dht-layout.c`, `dht-selfheal.c`, directories in `dht-common.c` | `MCClusters` |
| `DhtFile`, `DhtFops` | files in `dht-common.c`, `dht-rename.c`, `dht-linkfile.c`, `nufa.c`, `switch.c` | `MCClusters` |
| `Stripe`, `StripeFops` | `cluster/stripe` | `MCClusters` |
| `Ha`, `HaFops` | `cluster/ha` | `MCClusters` |
| `WriteBehind` | `performance/write-behind` | `MCWriteBehind` |
| `StatPrefetch`, `SpFops` | `performance/stat-prefetch` | `MCFeatures` |
| `QuickRead` | `performance/quick-read` | `MCFeatures` |

Definitions keep the name of the C function they translate; `map` in
`PROJECT.json` gives the lines. Where many fops share one shape, a table module
(`...Fops`, `...FopTable`) has one definition per fop that says how the fop
differs (which children it is wound to, what it locks, what its callback does),
and the component's actions interpret the table. Definitions commented
*Mutation* or *Variant* are plausible faults of the definition that follows them
and are used to show that each property can fail.

`MCBrick`, `MCFeatures`, `MCClusters` and `MCAfrHeal` check several components in
one run: `part` is chosen in `Init` and says of which instance the behaviour is,
`Next` is that instance's, and the variables of the others stay `0`. A property of
such a module is a conjunction of the components' own properties; their names
and comments are in the component modules.

### LockDomain

`inodelk_list` and `entrylk_list` are sets, `blocked_inodelks` and
`blocked_entrylks` sequences of a `pl_dom_list_t`. `work[w]` is the call a server
thread is in and `mutex` the holder of `pl_inode_t.mutex`. A lock request is one
critical section (`pl_inodelk`, `pl_entrylk`); an unlock is one critical section
followed by the grant loop, which runs under the mutex (`grant_enter`, one step
per blocked lock, `grant_exit`), and by the answers to the granted requests
(`unwind_granted`). Other threads run between removing a lock and the loop, and
between the loop and each answer. `server_connection_cleanup` takes the lockers
of a dead connection one by one. `Remote` selects whether the caller reaches the
translator through `protocol/server` (one stack per request, its address reused)
or in the same process (the stack outlives the lock): lock owners are stack
addresses and the two differ in what that identifies.

Two places of the C code read memory of the wrong type or the wrong list; they
are translated as they are. `__blocked_lock_conflict` tests the wrong list for
emptiness, and `__owner_has_lock` reads entry locks as inode locks, whose outcome
is therefore any Boolean.

### PosixLocks

`ext_list` is the list of `posix_lock_t` of one inode, held and blocked, in the
order of the C list; `call[i]` a call that is in the translator, at the step
between two critical sections it has reached. `subtract_locks`,
`add_locks` and `__insert_and_merge` are functions on locks and lists. `held` is a
history: what each owner was told it holds, byte by byte; `tangled` names the
owners whose blocked lock was merged with another of theirs, after which the code
no longer answers truly (section 5) and the properties say nothing.

### Server, ServerFops, FdTable, ServerResolve

`Server` has transports that come and go, the connection object that the
transports of one client process share, requests between their handler, the
resolution and the callback, and `fd_t` with its reference count. `FdTable`
translates the free list in an array of `fd.c` as functions. `ServerFops` says for
every protocol operation which resume function it ends in, what it winds, which
callback answers and how the reply is named.

`ServerResolve` has the directory `"d"` below the root, which can itself be made
and removed, and the names in it. A request names a file by its directory and the
entry, or by its own number and generation and the path. It is resolved from the inode table (`resolve_entry_simple`,
`resolve_inode_simple`), and if that fails by lookups in the volume, component by
component, followed by a second try. Files have generations and their numbers are
used again, so the table can hold another file under the number a handle has;
`table.attic` has the files such a one pushed out of the hash. Answers of the
volume change the table when they arrive, which may be in another order than the
volume made its changes; `table.late` and `misled` record what came of that.

### IoThreads, CallStub, Posix

`IoThreads`: queue, state and thread of each worker, and the worker an inode is
associated with. One step per critical section under `qlock`.

`CallStub`: for every kind of stub the set of owned fields that making, resuming,
destroying and unwinding handle; `stub` is one stub through its life with the
references it holds.

`Posix`: an operation is the sequence of its system calls (`PosixFops`), each of
which may fail; what the operation does on failure is part of the table. `entry`
is the directory, `file` the inodes, `desc` the open descriptors of the kernel,
`fd` the `posix_fd` of the translator, `janitor` the descriptors handed to the
janitor thread.

### ClientProtocol and RemoteCall

`cl` is the state of one `protocol/client`: per connection its saved frames,
`connected`, reconnect and ping timers; per socket its state, among them *dead*
(the peer is gone and the socket does not know) and *shut*; calls with the state
of their message; descriptors with the session of the server that issued their
handle. Handlers are functions of that record, written with the names of the C
functions (`protocol_client_xfer`, `client_start_ping`, ...), and actions apply
them for one of the threads: a caller per call, the event thread `ev`, the timer
thread `tm`. A step is what a thread does under one mutex. What runs under no
mutex and races another thread is split: `conn->connected = 0` and the read of
`conn->reconnect` in `notify` are two steps that may happen in either order.

`RemoteCall` is the promise: a call is taken, executed at most once, answered
once, well only after it was executed. `Promise` instantiates it with
`phase <- Phase` (a call that is chosen or saved is pending) and
`effect <- Effect` (its message was executed).

### AfrSources and AfrTransaction

`changelog[c][d]` is the data count of the pending xattr that child `c` holds
against `d`. A copy holds, per block, the number of the last modification that
reached it. `local[f]` is the `afr_local_t` of the call in frame `f`: its phase
(`pc`), the children it considers up, the state of the call to each child
(`"none"`, `"sent"`, `"done"` at the child, `"lost"`) and what the phases
remember (`lock_count`, `locked`, `pending`). `fd_ctx` is the `afr_fd_ctx_t`:
where the descriptor is open, where a pre-op has been done and not undone, and
the children that failed since.

`NoLocks` and `NoXattrop` are the children without the locks translator, which
answer ENOSYS, and those without extended attributes, which answer ENOTSUP: the
first ends the transaction in the lock phase, the second skips the write.

One step per callback, one for what the last callback goes on to do, one for the
child carrying a call out. So a connection can break, and the client crash,
before a child has done what it was asked, between that and its reply, and
between two callbacks. Locks are held by the client's connection to the child and
vanish with it.

`AfrSources` translates `afr_sh_build_pending_matrix`, the classification into
innocent, fool and wise nodes and `afr_sh_mark_sources` for data, and the choice
in `afr_sh_data_fix`. It is used by the heal that a writer performs, by
`AfrHeal`, and by the properties, which ask what a heal started now would choose.

The heal of the up flush copies the blocks of the source that are not holes, cuts
the sinks that are longer, takes no notice of a cut that failed, and erases the
changelog (`sh_block`, `afr_sh_data_trim_sinks`, `afr_sh_data_erase_pending`).

`valid[b]` is a history: the contents of block `b` a reader may be given, that is
the last acknowledged modification and those that failed or whose outcome was
never known since. `spoilt` is one too: the stale copies against which an up flush
took back the last count, and the children to which a post-op added what it should
have taken back.

### AfrFops, AfrHeal, AfrHealEntry

`AfrFops` interprets `AfrFopTable`: entry operations (one or two names to lock),
metadata operations, reads that fail over, calls sent to all children, and `lk`.
A child may fail a request with any error, ENOSYS to a lock and ENOTSUP to the
pre-op among them.

`AfrHeal` starts from copies whose contents and changelogs are those some history
of writes leaves (`Histories`: a stale copy, a missing one, every copy accusing
itself, split brain, ...). A heal makes missing files, heals metadata, then data
by one of two algorithms, with a window of blocks under way, and erases the
changelog. A copy that was made belongs to the caller until a `setattr` that nobody
waits for gives it its owner (`owning`). Histories name what can go wrong with the
copies of a heal: `misowned`, `unlisted` and `mixed` in `AfrHeal`, `orphan` in
`AfrHealEntry`. `AfrHealEntry` does the same for a directory: expunge, impunge and the
merge that a differing checksum at opendir forces.

### DhtLayout, DhtDir, DhtFile

`DhtLayout`: layouts, their anomalies and how a new one is computed, as functions
over a small hash ring with the code's unsigned arithmetic. `DhtDir`: the copies
of one directory on all subvolumes and the calls of several clients that look it
up, make, heal and remove it. `stale` says that a subvolume came up since the
layout of the inode was made (`layout->gen < conf->gen`); it goes only with that
layout, so a failed lookup leaves it, and a layout made before such an event is
stale when it is set. `DhtFile`: the entries of one directory on all
subvolumes, data files and link files; a call is a chain of requests that goes on
in callbacks; `Scheme` chooses between `dht`, `nufa` and `switch`.

### Stripe and Ha

`Stripe`: one file in pieces on the children, fan-out of every fop with its
counter, and the arithmetic of reads and writes on bytes. The callback of a write
compares its count and reads `unwind` outside the lock, which is two steps
(`stripe_writev_cbk`, `writev_cbk_end`) with rounds of `stripe_writev` in between. `Ha`: several paths to
one storage; a link that breaks before or after a call was executed looks the
same to the translator.

### WriteBehind

`request` is `file->request`, `req[c]` the `wb_request_t` of call `c`, `file` the
`wb_file_t`. A thread is the sequence of pieces of work it still has to do:
`wb_process_queue` is one critical section that computes what to unwind, resume
and wind, and pushes these onto the thread; all other threads may run between two
pieces. That `wb_stack_unwind` answers a write and then drops its reference is two
pieces. `conf` holds what is chosen once per behaviour (`Settings`): flush-behind,
the size of an aggregate, how many calls the application has open at a time, and
whether the child carries out its calls in order.

### StatPrefetch and QuickRead

`StatPrefetch`: `cache` is the entries kept with an open directory, `ictx` the
context of an inode with the calls that wait for its first real lookup, `known`
what the translators below have seen, `resuming` the callbacks that have given up
the context's lock and still have calls to resume. `QuickRead`: `qfile` is the cached contents
with the time they were validated, `fdctx` the descriptor context with the open
that is put off or in transit and the calls that wait for it. In both, another
client may change the volume and time passes in whole seconds.

## 3. Runs

A bound is a constant of the module that has it, and its value is in the `.cfg`
or, for the combined runs, in the `INSTANCE` of the MC module. State counts are
distinct states.

### Locks

| Run | Instance | Checks |
|---|---|---|
| `locks_local` | 3 transactions of 2 clients, 2 threads; a read and a write range that share exactly one byte; a name; caller in the same process | `InodelkTxnExclusion`, `HeldIsListed`, `EntrylkNoOvertaking`, `EveryRequestAnswered` |
| `locks_remote` | one range, a name and all names, through `protocol/server`, stacks reused, disconnect at any point and reconnect, inodes without a path | `InodelkClientExclusion`, `EntrylkExclusion`, `NoLostWakeup`, `RefkeeperPins` |

Three transactions are the fewest with which a holder, a waiter and an overtaker
exist; two threads the fewest with which one runs between two critical sections
of another; the third frame address lets a stack be reused while two are live.
Transaction exclusion is checked for the local caller only: through
`protocol/server` two transactions of *one* client can be taken for one owner
(section 5).

### Replication

| Run | Instance | Checks |
|---|---|---|
| `afr_return` | 2 children, 2 blocks, 3 modifications, one call at a time (write, truncate, ftruncate), refused writes and cuts, a child that is disconnected and comes back while the file is open; 2,390,493 states | `HealSourceIsCurrent`, `NoFalseAccusation` |
| `afr_two_callers` | 2 children, 2 concurrent writes to one block on one descriptor, locks on both, refused writes, disconnect, crash; 317,956 states | `DivergenceRecorded`, `CopiesAccounted`, `NoConcurrentFops`, `EveryCallEnds` |
| `afr_up_flush` | one write at a time, a child that comes back while the file is open | `DivergenceRecorded`, violated |
| `afr_heal` | below; 1,255,093 states | `HealKeepsLatest`, `FopsAccounted`, `EveryoneReleased`, `RemovesOnlyDead` |

At most one child is ever faulty (`MaxFaulty = 1`): with all copies failing in
turn there is no current copy, and the changelogs honestly show split brain. In
`afr_two_callers` children come back only when the file is closed
(`UpWhileOpen = FALSE`), because of the deviation `afr_up_flush` shows. In
`afr_return` a child can miss the first of three modifications, come back and be
given the second after a heal, and the third shows what the heal and its flush
left; two blocks are the fewest for a truncate that keeps one and a hole. A heal
from a stale copy does occur there: `HealSourceIsCurrent` allows it when the up
flush of that heal, or one before it, took back the last count against that copy
(`<<"erased", c>>` in `spoilt`), and in no other case.

`afr_heal` has four instances of `AfrHeal` (one healer and all histories, two
healers, three children, a heal with writes in between), three of `AfrHealEntry`
(all histories, two clients, three children), five of `AfrFops` (each fop with a
fault, pairs of entry operations on two lock servers, two creates with a fault, two
`setattr` with a fault, `lk`) and three of `AfrTransaction`: three children, of which
two are current and must not accuse each other; a child without locks; a child
without extended attributes. The frames of `AfrFops` are interchangeable, which the
run uses as a symmetry.

### Client and write-behind

| Run | Instance | Checks |
|---|---|---|
| `client_descriptors` | both links up; one call after another opens, uses and closes a descriptor; links break, noticed or not; frame timeout; one reconnection; deadlock is checked; 1,193,368 states | `StepsOfRemoteCall`, `FramesAccounted`, `DescriptorsTracked`, `LinkWatched` |
| `client_calls` | from start-up, with the ping timer and without the frame timeout; 90,113 states | `ImplementsRemoteCall` |
| `write_behind` | 3 calls, 1 or 2 open at a time, a call thread and a reply thread, window 1, page 2, first unit synchronous, one failing write; writes that are gathered (aggregate 2), and writes sent one by one to a child that answers in any order; with and without flush-behind, O_DIRECT, disabled; 426,187 states | `CountersMatchQueue`, `OthersSeeEarlierWrites`, `AnsweredOnce`, `SyncCoversWrites`, `EveryCallAnswered` |

One reconnection is enough for a handle of the old session to meet the new one,
for a reopen to race the close of its descriptor, and for a reconnection of one
link only. With window 1 and aggregate 2 the second write exceeds the window and
fills an aggregate; with page 2 and writes of 1 two writes are merged and a third
is not. `AnsweredOnce` names the applications it holds for. `EveryCallAnswered`
says that there is always a later time at which every call is answered, but for
the calls that were forgotten in one of the three ways it names, which the history
records as they happen (`stranded`, `lost`): section 5 has them.

### Brick, features, clusters

| Run | Instances | Checks |
|---|---|---|
| `brick` (225,871 states) | every kind of call stub; io-threads with 2 requests on 1 inode and 1 to 2 workers; server with 2 sockets, 2 connections and 2 requests, with every fop, and with one request for liveness; every storage operation with one failing system call and two starts | `NothingLeaks`, `ServedTruly`, `StepsTakeBack`, `EverythingSettles` |
| `features` (1,278,687) | resolution of 2 names by two requests at a time, and of 1 name by a longer sequence, numbers used again; storage operations two at a time; fcntl locks of 2 owners on 3 bytes, and 3 owners that lock and unlock 1 byte; stat-prefetch: one process and all fops, two processes, shared inode, renames of two names known from the cache; quick-read: one descriptor, two writers, truncating opens | `NamesResolved`, `RacesHarmless`, `RangesHeld`, `CacheHonest` |
| `clusters` (779,030) | HA with two and three paths; stripe arithmetic on all portions of a small file and every fop; directories on 2 and 3 subvolumes; files under dht with two clients, with one client and all calls, nufa, switch, and without the search on all subvolumes | `FanOutSound`, `LayoutsPartition`, `FilesKept`, `FanOutAnswered` |

Each property is a conjunction over the instances of that run. What its
conjuncts say:

| Property | Conjuncts |
|---|---|
| `NothingLeaks` | a stub's references are returned once (`RefsReturned`); the references of an `fd_t` are those of table and callers (`RefAccount`), a number stands for one descriptor (`FdNumbersSound`), no transport is bound to a connection that is gone (`NoStaleConn`); every kernel descriptor has one owner (`DescriptorsOwned`) |
| `ServedTruly` | `OrderKept`, `NeverLeftBelowMin` (io-threads), `AnsweredAsAsked` (server), `GenerationsDiffer` (posix) |
| `StepsTakeBack` | `ResumesWithAll` (stubs), `CleanupOnlyWhenAllDown` (server), `FailureTakesBack` (posix) |
| `NamesResolved` | a request that ran alone is not refused with ENOENT for a file the volume has, unless an answer applied late put another file under its number (`NoFalseEnoent`); the table names only inodes it holds, and holds those in use (`EntriesKnown`) |
| `RacesHarmless` | increments of concurrent xattrops add up; reads and writes are at their offset |
| `RangesHeld` | `LocksExclude`, `GrantedIsHeld`, `WaitsInTheList`, `NoLostWakeup`, `ReleasedHoldsNothing` |
| `CacheHonest` | `OwnChangesSeen`, `LookedUpFirst`, `WaitsForLookup`, `AnsweredOnce` (stat-prefetch); `WaitsForOpen`, `OpenedFirst`, `OwnWritesSeen`, `ConfirmedContents`, `ReadExact` (quick-read) |
| `FanOutSound` | the last answer unwinds; each child is asked once, but for a create with three children, a call is executed once and given up only after all paths (ha); created files are whole, opened by index, read back what was written, and a lost child is reported (stripe) |
| `LayoutsPartition` | a lookup or mkdir that was alone leaves a partition of the ring; revalidation detects a broken layout; rmdir is all or nothing |
| `FilesKept` | data nobody asked to remove is kept; a lookup finds it; calls take effect; listings have each name once; a fop goes to its file, never to a link file |
| `HealKeepsLatest` | what a heal would trust holds the last acknowledged write and the right owner; split brain is not resolved by losing one side; a heal heals; the same for directories, where a copy that impunge has made is accused until it is filled |
| `FopsAccounted` | copies that differ are accused; a call is answered truly; a read tries every child; `lk` is held on all or none |
| `EveryoneReleased` | one answer; no lock left; callers never all wait for each other |

The numbers of calls, faults and clients are the smallest at which each handled
case occurs, and each combined run was chosen so that it ends within minutes.
Larger instances of the same modules were run once while they were written,
without violation: `Posix` 1.2 million states, `DhtDir` 0.6, `DhtFile` 1.8,
`AfrHeal` 1.1, `AfrHealEntry` 0.5, `AfrFops` 3.4, `StatPrefetch` 0.8, `PosixLocks`
5.2, `QuickRead` 4.7, `ClientProtocol` 2.2, `AfrTransaction` with three children
0.8.

### Fairness

- `LockDomain`: weak fairness of each server thread's steps (threads are
  scheduled), and strong fairness of giving a held lock back: the lock's user
  ends its transaction, or learns that the connection is gone. Strong because an
  unlock needs a free thread, which others may occupy again and again.
- `AfrTransaction` (`FairSpec`): weak fairness of the steps of a call under way, of
  the children carrying out what they were sent, of the notification of a broken
  connection and of the reopening of descriptors. New calls, failures, crashes and
  reconnections are never forced. That every call to a child ends, by a reply or
  by an error, is `ImplementsRemoteCall`.
- `ClientProtocol`: weak fairness of callers, timers, the server while its connection
  lasts and the event thread's work in hand; strong fairness of serving a reply and
  of a socket that was shut, because the event loop is busy with one socket at a
  time and comes back to each. Links that break, peers that return and handshakes
  that succeed are never forced; a call over a link that is silently dead is ended
  by the ping timer.
- `WriteBehind`: weak fairness of the steps that go on with work in hand, taken
  together: some thread's remaining work, or an answer of the child. The work in hand is
  finite when no call is made, so this is as much as fairness of each thread would
  give. The application need not call again.
- `IoThreads`, `Server`, `Posix`: weak fairness of the worker threads, of the
  child's answers, of the cleanup of a connection and of the janitor thread.
- `Ha`, `Stripe`: weak fairness of the children's answers.

Deadlock is checked in `client_descriptors` and `client_calls`. The other systems
stop when the bounded number of calls has been made, and so they should; the
liveness properties cover what a deadlock would break.

## 4. Proofs

TLC checks the instances above. The theorems below are proved with TLAPS for
every number of clients, transactions, threads, children, calls, descriptors,
blocks, regions and names, and for every value of the bounds.

| Theorem | Module | States |
|---|---|---|
| `ClientExclusion` | `LockExclusionProofs` | `Spec => []InodelkClientExclusion` |
| `LocksTyped` | `LockExclusionProofs` | `Spec => []TypeOK` of `LockDomain` |
| `EntryExclusion` | `LockExclusionProofs` | `Spec => []EntrylkExclusion` |
| `InodePinned` | `LockExclusionProofs` | `Spec => []RefkeeperPins` |
| `WakeupsKept` | `LockExclusionProofs` | `Spec => []NoLostWakeup` |
| `TransactionExclusion` | `LockPlaceProofs` | `~Remote => (Spec => []InodelkTxnExclusion)` |
| `NoOvertaking` | `LockPlaceProofs` | `~Remote => (Spec => EntrylkNoOvertaking)`, an action property |
| `HolderKeepsLock` | `LockHolderProofs` | `~Remote => (Spec => []HeldIsListed)` |
| `TypeCorrect` | `AfrTransactionProofs` | `Spec => []TypeOK` of `AfrTransaction` |
| `WritesExclude` | `AfrTransactionProofs` | with writes only, as long as some lock server has not failed and no child was reported down, `NoConcurrentFops` |
| `ClientTyped` | `ClientProofs` | `Spec => []TypeOK` of `ClientProtocol` |
| `FramesKept` | `ClientProofs` | `Spec => []FramesAccounted` |
| `RefinesRemoteCall`, `StartsAsRemoteCall` | `ClientProofs` | `Spec => StepsOfRemoteCall`, `Init => Promise!Init`: the client implements `RemoteCall`, liveness aside |
| `LinkKeptWatched` | `ClientLinkProofs` | `Spec => []LinkWatched` |

The assumptions are the named `ASSUME`s of the modules: that bounds are naturals,
that a region has a type and a start not after its end, that `NoFd`, `NoTxn` and the
like are none of the values they stand apart from, that a transaction has a client, that there is at least
one child, and that only a remote client can disconnect (`LocalAssumption`).
The runs evaluate all of them.

### Locks

**`ClientExclusion`, `EntryExclusion`.** The invariants are inductive by themselves
once the steps are summarised: `InodelkSteps` and `EntrylkSteps` show that each step
leaves the list of held locks alone, shrinks it, or adds one lock that conflicts
with none of it. Inode locks are compared by owner, and a lock of another client
always has another owner, whatever the stack addresses, so for two clients not
conflicting means not clashing. Entry locks are compared by name alone.

**`LocksTyped`.** `TypeOK` contains that the mutex is held exactly by the thread in
a grant loop, which the theorems below rest on.

**`InodePinned`.** `RefkeeperInv`: either the reference is right, or a thread that
will update it is under way (`Updating`). A blocked inodelk call leaves without
updating, and the grant loop it ran may have granted a lock, so this is not
inductive. What is missing: while nobody holds an inode lock and somebody
waits for one, a thread that will update is before or in its grant loop; and
during a grant loop, whatever is back in the blocked list waits for a lock that is held.

**`WakeupsKept`.** `InodelkWakeup` and `EntrylkWakeup`: either every blocked lock has
to wait for a held lock or an earlier blocked one, or a thread is on its way to
the grant loop of that kind. The grant loop re-establishes the first alternative
one lock at a time, and a granted lock only adds reasons to wait.

**`TransactionExclusion`, `NoOvertaking`.** Two transactions that conflict need not
have different owners for `pl_inodelk`, and `entrylk.c` lets an owner pass a waiter
(`__owner_has_lock`). `PlaceInv` shows that neither matters for a caller in the
same process: the owner is the transaction, and the lock of a transaction is
either listed or at one place of one blocked list, the one in the hands of a grant
loop included (`Distinct`, `Apart`, `InodeWaiter`, `EntryWaiter`). `ListInv` adds that
a transaction has one lock at a time. `~Remote` is needed: through
`protocol/server` an owner is the address of a freed stack (section 5).

**`HolderKeepsLock`.** `pl_inodelk` looks for the lock to remove by its bounds and
never by its owner, so another reader's unlock can remove a reader's entry. The
invariant therefore is that there is a one-to-one map from the transactions that
hold a lock, or will be told so, to listed locks of the same type and bounds
(`InodeHeld`, `Deals`). For a write lock the entry dealt is its own, by
exclusion. For names, `EntryHeld` says so directly.

### Replication

**`TypeCorrect`.** `TypeOK` is not inductive: a heal that copies blocks reads
`data` at its source, and `TypeOK` allows "no source". `TypeInv` adds `LocalOK`: a
call that copies, or is about to erase the changelog, has chosen an existing child. One lemma per group
of actions (calls, execution at the children, callbacks, phases, flush, heal,
connections). That `Lowest` and `size`, defined by `CHOOSE`, are what their names
say is proved from well-foundedness of the naturals.

**`WritesExclude`.** `ServerInv(c)` says, of a lock server `c` that has not failed:
it is connected and every descriptor in use is open on it; the locks on it are
pairwise disjoint; and every call that is past `c` in its lock phase, or beyond
that phase, has its lock there (`InFrame`). The last part needs that a call locks
children in order, one at a time, and that `lock_count` never exceeds the index,
so that no call stops before it reached `c`; a call that a child without locks
refused goes on to unlock and has no fop (`ExclusionCallbacks`). `ExclusionInv` is `TypeInv` with
`ServerInv(c)` for every `c` that is `Serving`; `Monotone` shows that `Serving` is
never regained, so that its loss ends the obligation.
Two hypotheses are needed and neither is for convenience. Once a child was
reported down, `lock_count` is carried over from the flush and a write may take no
lock at all; and a truncate locks the bytes it keeps, not those it changes
(section 5, Replication).

### Client

`IInv` strengthens `FramesAccounted` by the type, by what the message of a call can
be in each of its states (`CallInv`), and by where a thread may have frames in its
hands (`ThreadInv`). `Fits` summarises what every step does: the state keeps its
type, at most one call acts, in one of six ways, every other call is `Still`, and a
saved frame has a socket or the thread that unwinds it. `ClientLemmas` has one lemma
per helper of `client-protocol.c` (frame lookup, mark-bad, destroy, reopen, reply,
send, loss of a connection), `ClientSteps` and `ClientProofs` show `Fits` of each action.

**`FramesKept`** and **`ClientTyped`** are that `IInv` is kept. **`RefinesRemoteCall`**
reads each of the ways a call acts as a step of `RemoteCall`: taken, sent,
executed, answered; all else is a stutter. It does not use fairness, so it is the
safety part of `ImplementsRemoteCall`.

**`LinkKeptWatched`.** `LinkWatched` is about an idle event thread. `LinkInv` says
what is true on the way: between the store to `conn->connected` and the event that
tells of it (`stored`, `tell` with a stale read, `reopen`) the parents' view may be
behind, and at no other time.

### Only model-checked

- Liveness (`EveryRequestAnswered`, `EveryCallEnds`, `ImplementsRemoteCall`,
  `EveryCallAnswered`, `EverythingSettles`, `FanOutAnswered`): fairness and `ENABLED` are out of the prover's reach.
- `WriteBehind`: its counters are sums over the queue, and a sum over a sequence needs
  induction over data, which the installed provers cannot do.
- The combined runs: their properties join many components, several of which use
  `RECURSIVE` operators.
- The changelog properties of `AfrTransaction` (`HealSourceIsCurrent`,
  `NoFalseAccusation`, `DivergenceRecorded`, `CopiesAccounted`): they hold only for the
  instances their runs name (section 5 has the deviations outside), so there is no
  statement for every value of the constants.
- `DescriptorsTracked` of `ClientProtocol`.

## 5. Where the code deviates

One run ends in a counterexample, against a sentence of the repository's own
documentation, which `findings` in `PROJECT.json` quotes: `afr_up_flush`.
`afr-transaction.c:725` counts a returned child as successful and erases the
record of what it missed.

More was met while modelling. No run is kept for these; most are in the modules as
the code has them, and the properties name the condition under which they hold
(the history variables `spoilt`, `tangled`, `overlap`, `wrong`, `merged`, `late`,
`stranded`, `lost`, `raced`, `misowned`, `unlisted`, `mixed` and `orphan`). For the
modules that have a configuration of their own, the constants are those that
reproduce it.

**Locks.**

- `inodelk.c:164` tests the entry lock list before it searches the waiting inode
  locks, so a request passes a conflicting one that waits.
- `server-helpers.c:517` releases only entry locks for a locker on a directory: an
  inode lock of a dead client stays.
- `inodelk.c:573`: through `protocol/server` the owner of an inode lock is the
  address of a stack that is freed with the request; a later request of the same
  client with that address is the same owner (`InodelkTxnExclusion` in
  `MCLocksRemote.cfg`).
- `server-helpers.c:648`: a client that dies while its request waits, or is granted
  and not yet answered, is in no lock table yet; the request or the lock stays.
- Read locks with equal bounds: an unlock is matched by its bounds, it can remove
  the entry of another reader; `HeldIsListed` says so.
- fcntl, `common.c:687`: `__insert_and_merge` does not skip blocked locks, so a
  blocked lock of the same owner is merged: its call is never answered, or it is
  held without having been tested. A new read lock stops at another owner's read
  lock and is inserted without merging the owner's later ones.
- fcntl: `__grant_blocked_locks` uses `first_overlap`, which finds any overlap
  (its comment says "the first lock that conflicts"), so an upgrade or a
  compatible read may wait for ever. `pl_getlk` reports it too, also an own
  lock, without the mutex.
- fcntl: `pl_flush` drops blocked locks without an answer; a lock call overtaken by
  the flush is granted after it and stays until release. Mandatory locking is
  documented and never enabled (`posix.c:1418`).

**Server, io-threads, call stubs, storage.**

- `server-protocol.c:4634`: `fentrylk` resumes as `finodelk`; `:3488`: `fsetxattr`
  is answered as `setxattr`; `:2030`, `:2125`: the descriptor enters the table before
  it is referenced; `active_transports` is raised and lowered under different
  mutexes (`server-helpers.c:883`, `:662`); a fop before the handshake is not answered.
- `fd.c:144`: taking all descriptors out does not reset `first_free`.
- `server-resolve.c`: answers that overtake each other leave a stale dentry; a
  revalidating lookup keeps the inode of a replaced file; a request racing a rename
  may see a false ENOENT. An answer that is applied late can link the file that had a
  number before: the generation check then refuses the file that has it now, also
  for requests that run alone (`misled` in `ServerResolve`).
- `io-threads.c`: a worker that exits idle does not look at the queue after its
  timed wait, so a request is left until the next one comes.
- `call-stub.c`: `call_resume_unwind` releases fields of `mkdir`, `lookup`,
  `checksum` and `fxattrop` which `call_stub_destroy` releases again;
  `fop_fgetxattr_cbk_stub` has the kind of `getxattr`; `fop_fsetattr_cbk_stub`
  writes into the fields of `setattr`. No caller in the tree reaches them.
- `posix.c:1314`, `1841`, `1969`, `2064`: of two calls that make the same name, the
  loser's clean-up removes the winner's file. `:2328`, `:2209`: after a late failure
  an open answers with the result of an earlier `lstat`, and the descriptor is
  closed twice. `fsetattr` with times answers ENOSYS after it has changed mode and
  owner. `unlink` and `rmdir` fail when only the `lstat` after them failed.

**Client.**

- A ping timer survives the disconnect of its connection and can shut the next one.
- When one of two connections is lost and set up again the server keeps the
  session; when both are lost but set up one by one, handles of the old session are
  used in the new one (`half` in `ClientProtocol`).
- `client-protocol.c:1489` reads `remote_fd` without the mutex of the reopen.
- A handshake that is refused or times out is not retried while the link is up; a
  reopen that times out leaves the descriptor bad until the next disconnect.
- `connected` and `reconnect` are read and written under different mutexes; the
  chain of reconnections can be lost (`LinkWatched` names the cases).
- The activity test of the ping timer uses `||` and one time for both connections.

**Replication.**

- `afr-transaction.c:1115` finds `lock_count` still set by the up/down flush; the
  write after it takes no lock. `afr-inode-write.c:532` locks the bytes that a
  truncate keeps.
- `afr.c:1358`: the flush of a close clears the mark of a child that returned
  meanwhile. `afr-transaction.c:888`: a child that refuses the lock or the pre-op is
  left out of the write and not remembered as failed. `:1426`: a failed ftruncate is
  not remembered in the descriptor. `:360`: two first writes on a descriptor both do
  the pre-op, one post-op undoes it. `:1274`: with one lock server its loss in the
  middle of a write lets a second writer in. `:752`, `:223` and `afr-open.c:427`:
  stale `pre_op_done`.
- In the heal of an up flush a stale copy can be the source, when that flush took back
  the last count that was held against it (`spoilt` in `AfrTransaction`): the child
  that had missed a write is taken for current, and its contents replace the good ones.
- `afr-transaction.c:911`: a child without extended attributes lets the transaction
  skip the write and go on to the post-op, whose counts still have the sign of the
  pre-op: on the other children they are added a second time. `:1109`: a child without
  the locks translator ends the transaction in the lock phase, an up/down flush
  included, and the counts it was to take back stay.
- With three children, or two callers, a child that returns while the file is open
  breaks `CopiesAccounted` and `DivergenceRecorded` as in `afr_up_flush`.
- Fops: any error of a child counts as failed (`afr.h:570`); `setxattr` and
  `removexattr` mark nobody; `setdents` always fails (`afr-transaction.c:1226`);
  `link` locks the parent of the old name (`afr-dir-write.c:1076`); `readdir` does not
  fail over; re-locking in `lk` releases an earlier lock when it fails.
- Self-heal: `afr-self-heal-data.c:1039` sends all locks to the first child;
  `afr-self-heal-algorithm.c:312` two loops may both complete the heal; `:646` a
  failed read of the diff algorithm is not recorded; a failed trim is ignored; the
  copies made for missing entries are accused by nobody; `op_failed` is never reset;
  a heal without active sinks hangs. The owner of a copy that was made is set by a call
  nobody waits for (`afr-self-heal-common.c:927`): the metadata heal that follows can take
  the caller as the owner from it. Sinks nobody accused, among them the copies just
  made, are not marked before they are filled: when the heal is cut short, or a write
  comes between the metadata unlock and the data lock, a copy of the right size with
  wrong contents is trusted.
- Directories: when the request that accuses a copy impunge has made fails, or the
  client dies before it, the copy stays empty and trusted (`orphan`); failures of impunge
  and expunge are ignored; the trash directory is
  found by name in the inode table (`afr-self-heal-entry.c:716`) and made in a race
  (`:616`); a merge forced by the checksum brings removed names back;
  `afr-dir-read.c:120` assigns `op_errno` to `op_ret`.

**Distribution.**

- DHT layouts: an entry without interval holds hash 0 (`dht-layout.c:175`); any
  anomaly re-lays out the whole directory; two clients that heal, or a mkdir and a
  lookup, interleave; a failed setxattr keeps the interval in memory.
- DHT files: the unlink of a stale link file is not waited for and may hit a new file
  (`dht-common.c:450`); `create` on an existing link file opens it; a broken rename
  leaves two data files; `unlink` succeeds if either part did; with the hashed
  subvolume down a lookup answers ENOENT (`dht-common.c:108`); `nufa.c:221` and
  `switch.c:294` drop a reference twice.
- Stripe: a write that fails on one child is reported as short
  (`stripe.c:3029`); reads of sparse pieces are concatenated (`:2854`); `opendir`
  answers with the last reply; the index of an open is off by one (`:2218`);
  `:3039` tests the count and `unwind` outside the lock while `:3129` still counts
  portions up, so a write can be unwound early, and then fails, or twice. What the late
  callbacks do to the frame that is gone is not modelled, what their children do is.
- HA: `create` with three children asks the last one twice and may be answered while a
  request of it is out (`AsksAgain` in `Ha`); `lk` always answers ENOTCONN
  (`ha.c:3234`); a call whose reply was lost is executed again.

**Caches and queues.**

- Write-behind: `:1499` answers one write with no room in the window; `:2060` with
  flush-behind and two callers a flush is answered twice; `:2064` without it a lost
  increment leaves the flush unanswered; `:1584` a call behind a write whose last
  reference is dropped by its answer waits for some other event, also that of an
  application with one call at a time; `:1508` when the last reply makes room, one write
  more than fits is answered and those behind it wait for a reply that does not come;
  `:1388` two acknowledged writes to the same bytes can reach the child in the wrong
  order.
- Stat-prefetch: a rename both of whose inodes are unknown sends two lookups whose
  callbacks look into the context of the old name (`:2784`, `:273`), so that it hangs; one
  whose first stub is resumed before the second is queued is resumed in vain (`:2768`);
  when both lookups are answered before either callback resumes it, it is wound twice
  (`:2672`). That the frame and the paths are freed by then is not modelled;
  `rewinddir` does not flush (`doc/stat-prefetch-design.txt:33`); `create`, `link` and
  `mknod` keep a stale entry; only the cache of the calling process is invalidated.
- Quick-read: when the path of a descriptor cannot be made (its parent was renamed)
  the fops loop, and `readv` answers and strands its stub; `qr_time_elapsed` returns
  a `char`, so that 128 to 255 seconds are negative and stale contents fresh; the
  reply of a lookup overtaken by an own write caches the old contents; a change
  within one second is not seen; fops that waited for an open that failed are wound
  on the unopened descriptor.

## 6. Not modelled

Within the modelled parts: allocation failures (but where the code takes the same
path for another error), several lock domains and inodes (they share only the
refkeeper), `dht_rename_dir`, revalidation in AFR's lookup, the lru and purge lists
of the inode table, writes of several vectors, option parsing and statistics.

Candidates for later: `performance/io-cache` and `read-ahead` (pages with waiters),
`features/quota` (a counter), the lists of the inode table. Left out:
`storage/bdb`, `mount/fuse`, `libglusterfsclient`, `booster` (conversions between
interfaces), `transport/*` beyond what `ClientProtocol` has of a socket,
`cluster/unify` (superseded by `dht`), `cluster/map`, `features/trash`, `filter`,
`path-convertor` (stateless rewriting), schedulers, authentication, start-up and
tools. `components` in `PROJECT.json` is the full list.
