# A TLA+ verification of rust-bitcoinkernel

`rust-bitcoinkernel` (`src/src`) is a safe Rust interface to `libbitcoinkernel`,
Bitcoin Core's validation engine, through its C API
(`src/libbitcoinkernel-sys/bitcoin/src/kernel/bitcoinkernel.cpp`). The crate's own
logic is about ownership, lifetimes, callbacks and the meaning of return values;
what those are about is the state machine of block validation behind the C API
(`validation.cpp`, `node/blockstorage.cpp`, `logging.cpp`). This project models both
sides where they meet: a definition's source lines are in the `map` of
`PROJECT.json`, and are Rust where Rust decides and C++ where the library does.

## Inventory

| Part | State | Operations | What makes it hard |
|---|---|---|---|
| Logger (`log/logging.rs`, `LoggingConnection`, `BCLog::Logger`) | connections, callbacks, buffering mode, early-line buffer, categories | `Logger::new`, drop, `disable_logging`, category setters, logging from any thread | two locks, of which `disable_logging` takes only one; several critical sections per call; a bounded buffer |
| Block processing (`state/chainstate.rs`, `ProcessNewBlock`, `AcceptBlock`, `ActivateBestChain`) | block tree, failure flags, unlinked blocks, candidates, active chain, coins view, best header | `process_block`, `process_block_header`, `Context::interrupt` | threads interleave between `cs_main` sections; blocks out of order; reorganisations that fail half way; system errors at every step; callbacks must agree with the chain |
| Reading (`state/chain.rs`, getters of `chainstate.rs`) | a height or an entry read earlier | `tip`, `at_height`, `height`, iterator, `get_block_tree_entry`, `read_block_data`, `read_spent_outputs` | two `cs_main` sections per call; entries outlive the block's stay on the active chain |
| Lifetimes (`state/context.rs`, builders, `notifications/*`) | who holds a registry, a context | building, failing to build, dropping, calling back | no Rust lifetimes between the objects; reference counts in C++, boxes handed across the boundary; destruction order |
| Wrapper types (`core/*`, `state/chain.rs`) | handles and references into them | accessors, iterators, copies, drops | lifetimes around raw pointers; which C functions return views and which new handles |
| Script verification (`core/verify.rs`) | none | `verify` | not modelled: a pure function of the library |
| Iterator lengths, parsing and encoding, chain parameters, conversions, errors | none | pure functions | not modelled, see below |
| Data directory (`node/blockstorage.cpp`, `txdb.cpp`, `FlushStateToDisk`, `node/chainstate.cpp`) | block and undo files, block tree and coins databases, what of them is synced | creating and destroying a manager, flushing, `import_blocks`, `wipe_db` | a kill or a power loss between any two writes, also within the repair of an earlier one; batches that are partly written; files that are synced only when left |
| Bindings, build script, examples, fuzz targets | none | | generated code, or users of the crate |

The parts meet in few places. A manager is built on a context and calls its
registries (`Lifecycle`). Block processing calls the same callbacks and is watched by
readers (`ChainReader` extends `Chainman`). `Storage` is the disk under it, with the
threads and the rules left out: one process at a time works on a directory, and all
blocks in it are valid. The values readers return are wrapper types (`Handles`). The
logger shares only `cs_main` with the rest, which nothing in `Logging` waits for while
holding the logger's own mutex.

## Modules

| Module | Models | Configurations |
|---|---|---|
| `Logging` | the logger | `MCLogging` |
| `LoggingProofs` | theorems about it | |
| `BestChain` | abstract: what a manager promises about the active chain | |
| `Chainman` | block processing and chain activation; implements `BestChain` | `MCChainman` with `MCChainman.cfg`, `…Rules`, `…HeaderTip`, `…Rejected` |
| `ChainmanProofs`, `ChainmanMostWork`, `ChainmanProgress` | theorems about it, each module extending the one before | |
| `ChainReader` | readers composed with `Chainman` | `MCChainReader` with `MCChainReader.cfg`, `…Tip`, `…Lookup` |
| `ChainmanClients` | theorems about what callers and readers are told; extends `ChainReader` and `ChainmanProofs` | |
| `Storage` | the data directory, incidents and recovery | `MCStorage` |
| `StorageProofs` | theorems about it | |
| `Lifecycle` | registries, contexts, managers | `MCLifecycle` |
| `LifecycleProofs` | theorems about it | |
| `Handles` | wrapper values and library handles | `MCHandles` with `MCHandles.cfg`, `…Leak` |
| `HandlesProofs` | theorems about it | |

### Logging

One action is at most one section of the logger's mutex `m_cs`; `cs_main` is the
variable `csMain`, held by `Logger::new` and by the drop over several actions and not
taken by `disable_logging`. `NewPush`, `NewCount`, `NewStart`, `NewDone` are the
constructor of `LoggingConnection`; `DropBegin` to `DropFree` its destructor;
`DisableCheck` and `DisableStart` the two halves of `disable_logging`; `LogPrint` a log
line, which is buffered (`Evicts`, `Usage`: the memory limit) or delivered. Lines are
numbers in the order they were logged. A failed `assert` sets `process` to aborted and
nothing moves after it.

### Chainman

A block is an element of `Block` with a parent, work and a `Verdict`: the first stage
of validation whose rules it breaks: proof of work, the header's context, `CheckBlock`,
`ContextualCheckBlock` before and after its witness check (`context`, `weight`), or
`ConnectBlock`. A submitted copy may besides be damaged (merkle root or witness
commitment does not match); a copy that is both damaged in its witness data and too heavy
is refused as mutated, one that breaks a rule of `context` as invalid. The rules themselves are thus inputs; all
control around them is kept: which stage is reached, what is stored, flagged, announced
and returned, and in which order. A `cs_main` section is one action, except the two
with loops, which are one action per turn with the lock held: linking stored blocks
(`Link`) and the inner loop of `ActivateBestChain` (`Find`, `DisconnectTip`,
`ConnectTip`, `ConnectInvalid`, `Connected`). `LeaveIdle`, `LeaveMoved`, `Flush` are the
places where it gives up its locks. Callbacks run synchronously, because `Context` uses
`ImmediateTaskRunner`; what a listener knows is in `lsTip`, `tipSeen`, `heard`,
`announced` and `lastNotified`. `WriteFails`, `StepFails`, `FlushFails` and
`CoinsMismatch` are the system errors, admitted by the constant `Faults`.

### BestChain

The abstract specification: a manager has stored blocks, a visible active chain and a
status. The chain moves in one step (`Activate`) to another chain of valid stored blocks
with at least as much work; `Fail` is the fatal error after which the promise about work
ends. `Chainman` maps `have` to `stored`, `shown` to `active` (the tip whenever `cs_main`
was free last) and its two flags to `status` (`Promise`). A reorganisation with all its
disconnects, connects and retreats is thus one step or a stutter. `FairSpec` adds that a
better chain does not stay inactive.

### ChainReader

Each call into the C API takes `cs_main` once. `tip`, `at_height` and the iterator make
two, and the writers of `Chainman` move in between. `KeyPassed` is what
`get_block_tree_entry` passes to the library. `seen` records the tips that were visible
during a call, which is what linearizability is stated with.

### Storage

`blk` and `rev` are the data in the block and undo files, pairs of a block and a file
number; `blkSafe` and `revSafe` the part that is synced. `tree` and `coins` are the two
databases, `treeSafe` and `coinsSafe` what a power loss leaves of them (`Unsynced`: a
write that is not synced may or may not have got to the disk). `mem`, `best` and `view`
are the block index and the coins cache of a running manager. `Create` to `Activated`
are `btck_chainstate_manager_create`: load the index, the genesis block, replay an
interrupted flush (`RollBack`, `RollForward`), load the tip, verify the last blocks
(`VerifyBlock`), activate. `Flush`, `WriteBlockIndexDB`, `WritePartialBatch` and
`WriteLastBatch` are `FlushStateToDisk` in its order. `ImportBlocks` to
`ImportInterrupted` are a reindex. `Kill` and `PowerLoss` may come between any two
actions, and `Create` may wipe. A coins database in transition has two heads, `old` and
`new`, and any mixture of their coins.

### Lifecycle

Every shared pointer is a membership: `inOptions` and `inContext` hold registries;
`handle`, `inMgrOptions` and `inMgr` hold contexts. `Release` is the end of some of
them, with the destructors that follow; `frees` counts how often each registry was
freed, separately for Rust's drop and for the library's `user_data_destroy`. The
destruction of a manager takes three actions, in the order of the C++ code: the flush,
the release of `m_context` (declared last, destroyed first), the destructor of
`ChainstateManager`. A callback is a span of two actions, so that anything can be
dropped while it runs.

### Handles

A variable holds an owned value, with a handle of its own, or a reference, with a
pointer into the memory of another's handle. The tables `BlockMethods` to
`BlockTreeEntryMethods` record for every accessor that returns a handle, a reference or a
slice of the library's memory (`as_bytes` of a script) what the C function returns (a view
or a new handle), what Rust makes of it (owned or reference) and what its signature ties
the result to: `&self`, or the lifetime `self` itself carries. Accessors that return
numbers or copied bytes are left out. `alloc` records for each handle its kind and the
kind of value it was got from, which tells the header of a tree entry from that of a block
and from a copy. `BlockValidationState` and `PrecomputedTransactionData` are owned values
that can only be cloned and dropped (`OwnedOnly`); `BlockValidationStateRef`, which exists
only during a callback, is left out, as are contexts, registries and Loggers, which have
modules of their own. The only rule on the program is rustc's (`Borrowed`, external): a
borrowed variable is not dropped.

## Runs

| Run | Instance | Shows |
|---|---|---|
| `logging` | 2 threads, 3 Loggers, 4 lines, a buffer that holds 2 | handlers are called exactly while alive; no line lost, repeated or out of order; discarded lines are counted; only `disable_logging` can lead to an abort |
| `chainman_fork` | 2 threads, branches of 2 and 3 blocks, the longer invalid in its second block, a header ahead of its block | validity of the chain, the best chain is active when calls have returned, listeners in step, best header, one `NewBlock` per block, the visible tip never gets worse, the candidates' order is stable, failure flags are exact, also for blocks stored before the parent that fails, some call can always go on, every step of `ActivateBestChain` advances, calls return; `BestChain` is implemented with its fairness: a better stored chain becomes active |
| `chainman_rules` | 2 threads, blocks refused at each stage, damaged copies, headers alone, every system error and an interrupt | a refused call gives a reason that is true of the block and told `block_checked`, or was itself cut short by a notified fatal error; failure flags are exact and a damaged copy condemns nothing; no assert fails without a reported fatal error; block processing implements `BestChain` |
| `storage` | two branches, files of 2 blocks, 2 outpoints, 2 incidents of any kind | the coins of a running manager are exact; the index on disk names no block data that can be lost, the coins no block that is not indexed; a manager comes back; interrupted flushes are finished |
| `readers` | a reader against a writer with five blocks, a reorganisation to a shorter chain with more work and blocks that cannot be read included | `at_height` is linearizable; `tip` is right while the chain only grows; data of entries stays readable |
| `lifecycle` | 2 contexts, 3 managers | callbacks find their registry alive; each registry is freed once, after failed builds too; contexts in use are intact |
| `handles` | 5 variables, 3 handles, the wrapper types of the tables | no dangling reference, no double destroy, nothing leaks but the headers `BlockTreeEntry::header` returns |
| `rejected_valid`, `header_tip_missed`, `tip_null`, `lookup_misses`, `header_leak` | parts of the above | the disagreements below |

Why the bounds suffice. The hazards are about two parties: a second thread, Logger or
branch is the interesting one, a third repeats it (three managers are used since two of
them may share a context while the third does not, and three Loggers so that one is
created after another was dropped while the third is kept). A branch of three against one of two
has every kind of step of a reorganisation: disconnect, connect, meet an invalid block
after progress and without, return. `MaxMsgs = 4` overflows the buffer, starts, stops
and starts again. Five variables hold an owner, an iterator, its item, a copy and a view
of the copy, or a block, its transaction, an output, the script and its bytes. Two incidents are a crash and another one in the middle of the repair;
three and five were explored apart from the run and showed nothing new. With `FileCap =
2` the blocks span two files, so that one is left while the other is written; with
`CheckDepth = 1` verification undoes a block and restores it. Threads, slots, handles,
contexts and managers are interchangeable, and symmetry is used in the runs without
liveness properties. `CHECK_DEADLOCK FALSE` is used where a program may come to its end:
all objects dropped, or the process aborted.

**Fairness.** `Chainman` assumes strong fairness of a thread inside a call,
because a thread waiting for a mutex is enabled again and again and not continuously:
the operating system lets a thread that waits for a mutex released infinitely often have
it at last. It does not assume that a program makes calls.

## What disagrees

- `rejected_valid`: `chainstate.rs:67` says of `Rejected` that "the block violated one or
  more consensus rules". A block submitted before its parent's header is known is
  `Rejected` too, and so is one whose processing met a system error. `RefusalsAreTrue`
  is about the reason and what `block_checked` is told, and counts a missing parent as a
  true reason; this run is about the result.
- `header_tip_missed`: a copy of a block with bad witness data, submitted before its
  header is known, makes that header the best one and returns before `NotifyHeaderTip`;
  `header_tip` is not called, although `context.rs:592` says it is for a new best header.
- `tip_null`: `Chain::tip` reads the height, then the entry at that height, and does not
  test the pointer. After a reorganisation to a shorter chain in between it is null.
- `lookup_misses`: `get_block_tree_entry` passes the address of the Rust struct and not
  the pointer inside it; the library looks up bytes of an address.
- `header_leak`: `BlockTreeEntry::header` wraps a newly allocated header as a reference
  that nothing destroys.

Seen while modelling and not made a run:
- `FlushStateToDisk` says "First make sure all block and undo data is flushed to disk"
  (`validation.cpp:2794`), but only the files of the cursor are synced there, and the undo
  data of an earlier file only when the highest block of that file is connected. The index
  on disk can name undo data of an older block, connected by a reorganisation, that a power
  loss takes. Hence `IndexedDataSafe` is about block data only, and this is the exception
  in `ComesBack`.
- `bitcoinkernel.h:932` promises "A new kernel logging connection, or null on error"; after
  `disable_logging`, `Logger::new` aborts in `assert(m_buffering)` of `StartLogging`, on one
  thread and without a race. `AbortOnlyAfterDisable` excepts it.
- `Duplicate` is returned for a stored block whether or not it was found invalid later.
- A `ChainIterator` used across a reorganisation continues on the new branch.
- `TxOutIter::size_hint` counts inputs.

## Proofs

All are for every value of the constants that satisfies the `ASSUME`s: any number of
threads, readers, blocks, outpoints, contexts, managers, variables and incidents; any
tree, verdicts and sizes; any set of faults. Every invariant and action property that a
passing run checks is also a theorem, `NewBestHeaderNotified` under an assumption (below).
The pattern is the same throughout: an inductive invariant, checked with TLC before it
was proved, with one lemma per action or group of actions and a frame lemma that reads
off the actions which change what; and theorems that follow from it.

- **Logging** (`LoggingConstants`). `CallbacksSafe` alone is not inductive: the drop
  decides by `NumConnections() == 1` and acts on it in a later section. `CallInv` says
  that the decision still holds, which rests on `LockInv`: only the holder of `cs_main`
  changes the callbacks. `BufferInv` relates the mode to the connections while
  `disable_logging` was never called, and gives `AbortFree`. For the lines `LinesInv`
  joins the two properties (`LinesInOrder`, `NoLineLost`) with `NewestInv`, the buffer is
  the last lines logged, and `FreshInv`, a handler whose logging has not started has
  received nothing. `BufferBounded` needs what the eviction loop computes: `Usage` is a
  recursive function, and `UsageGrows` (a longer sequence uses no less) is proved by the
  least counterexample, through the well-foundedness of the naturals.
- **Chainman** (`TreeConstants`, `WorkBounded`). `IInv`: the active chain is valid
  because a block is connected only if it is stored and `ConnectBlock` accepts it (`TipInv`); that it is
  stored needs `LinkedInv`, closed under ancestors, which needs `QueueInv` and
  `UnlinkedInv`: a block waits in exactly one of the two, once, and its parent is linked
  exactly in the first. The same facts give `OrderStable`: a block gets its sequence
  number before it is a candidate. `FlagInv` adds to the exactness of the failure flags
  that only indexed blocks are flagged. On top of `IInv`:
  - `BestHeader`: `BestInv`, for the search for a new best header may fall back to the
    tip, which is indexed because it is stored.
  - `HeaderTips`: `HeaderTipInv`, a new best header was announced or a call is on its way
    to `NotifyHeaderTip`. It assumes `CopiesWhole` (no copy damaged in its witness data,
    no failing block write), and without that it is false: `header_tip_missed`.
  - `StoredOnce`: `PendingInv`, the call that stored a block is the only one that will
    return `NewBlock` for it, and `AnnouncedInv`.
  - `Refusals`: `ResultInv`, and that each reason is true when it is given and stays so.
    Only the call that met a system error itself is excepted, and for it `fatal_error` was
    notified; the errors of other calls are not an excuse.
  - `VisibleTip`: `VisibleInv`. A reorganisation passes through worse tips and may fail;
    that it ends no worse than it began needs the old tip to stay a candidate until the
    chain is better (`KeptInv`, `ThreadInv`), across the sections in which other threads
    store and flag blocks.
  - `Refinement`: from `VisibleInv`, each step of `Chainman` is a step of `BestChain` or
    a stutter.
  - `MostWorkChain`: `HeldInv`, no stored block is forgotten (a block with all ancestors
    stored is linked, by induction on work); `ServeInv`, for every linked block a call is
    still to run `ActivateBestChain`, or the one that runs it has a target no worse.
  - `Asserts`: `CandidatesInv`, a linked valid block is a candidate or a better one is,
    and `CoinsInv`. `Listeners`: `SyncInv`, which says of a reorganisation in progress
    which part of it the listener knows.
  - `NoneStuck` and `Advancing` are what remains of termination when fairness is taken
    away: `NoCallStuck`, while a call is under way some call is enabled, and
    `ActivationAdvances`, a measure that every step of `ActivateBestChain` decreases.
    The measure is lexicographic: blocks not yet linked or flagged, the set of blocks
    between the tip and the target (`Way`), the places before the next step (`Onward`);
    it is stated with sets, so that no counting is needed. `Variant` turns it into three
    natural numbers for a finite tree (`ActivationEnds`): they fall in lexicographic order
    with every step the thread takes inside `ActivateBestChain`, unless the program
    aborts, so no call stays there for ever taking steps. The measure rests on
    `ReachInv`: the target is ahead of the tip wherever the loop goes on, so a turn is never empty; it is
    no worse than the tip the section began with, so it does not lie on the part that is
    disconnected; and no ancestor of it is flagged, so a block that fails was not flagged
    before. That the step has a next block is `NextOnWay`, by the least counterexample,
    and `StageInv`: only blocks that `ConnectBlock` decides on are stored. That the search
    has one best candidate needs `SeqInv` and `WorkBounded`. None of the three excepts
    fatal errors: `CandidatesInv` holds after them too. They are the part of `CallsReturn`
    that does not depend on fairness; the step from them to `CallsReturn`, with strong
    fairness of a thread in a call, is not proved.
- **ChainReader**. Readers change nothing (`ReadersChangeNothing`: a behaviour of
  `ReaderSpec` is one of `Spec`), so all of the above holds with readers. `AtFacts`: in a
  chain a height singles out a block, proved by `TreeInduction`. `ReadInv` says that the
  tip now visible is among those a call has seen, and that none of them has more work
  (from `VisibleTip`). `AtHeight` and `TipInGrowth` follow; a fatal error may cut the
  chain short, and `TipIfOnlyGrowth` excepts it because the attempt to prove it without
  failed on that case. `EntriesStayReadable` needs `UndoInv`, the active chain has its
  undo data on disk.
- **Storage** (`TreeAssumption`, `HeightAssumption`, `CoinAssumption`,
  `BoundAssumption`). `CoinInv`: a coins database is at rest with the coins of its best
  block, or in transition with each coin as after the old or the new head, and a replay
  has each coin as after the block it stands at or the new head. It gives `CoinsAreExact`
  and `FlushesFinish`. `DataInv`: a block that was written is synced or in the file of the
  cursor (`WrittenInv`), which gives `DataIsSafe`; `TypeCorrect` completes the types. For
  the recovery `StructInv` says that the indexes are closed under ancestors and their undo
  data written, and `HeadInv` that the blocks the coins name were connected; hence
  `CoinsAreIndexed`, and, since each way for `create` to fail contradicts one of these,
  `ManagerComesBack`.
- **Lifecycle** (`ContextAssumption`). `PlaceInv` gives the place of a registry by the
  state of its builder, `ShareInv` says that a context has its registries exactly while
  something holds it, `FreeInv` that a registry was freed exactly when nothing owns it,
  `MgrInv` which shares a manager has at each point of its life. All four properties of
  the run follow.
- **Handles** (`RootsAssumption`). `RefInv`: the memory of a reference belongs to one of
  the variables it borrows, or to nobody. `MethodsSound` is what is used of the tables:
  what Rust owns was newly allocated, what it borrows is tied, only types that are
  references hand on their own lifetime, and only the header of a tree entry is newly
  allocated and not owned.

Only model-checked: the liveness properties `CallsReturn` and `ImplementsFairBestChain`,
which need fairness and `ENABLED` and are out of the prover's reach (the safety part of
the argument is proved: above); and the properties of the violation runs, which are false.

## Not modelled

Parsing, encoding, hashing, script execution and the consensus rules are pure functions
of the library; the models take their verdicts as inputs. Pruning, assumeutxo snapshots,
fork warnings and progress reports touch none of the state the properties speak of, as
does the import of files other than the manager's own. A full disk or a read error while
loading is left out of `Storage`, and so is a sync that fails: `FlushStateToDisk` ignores
a failing `FlushChainstateBlockFile` and writes the index all the same
(`validation.cpp:2795-2799`), and `FindNextBlockPos` and `WriteBlockUndo` only log one, so
`IndexedDataSafe` and `ComesBack` hold for disks whose syncs succeed. System errors of a running manager are in `Chainman`.
What callbacks and log handlers do is the program's: in the models they return and do not
call the library.

## Plan

1. Done: the modules above, their runs, and theorems for all their safety properties.
2. Next: pruning in `Storage`; the composition of `Storage` with the threads of
   `Chainman`; the order of `header_tip` callbacks; `contains` and `best_entry` in
   `ChainReader`; iterators with `len` and `size_hint`; the argument checks of `verify`.
