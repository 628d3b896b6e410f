------------------------------- MODULE Storage -------------------------------
(***************************************************************************)
(* What a chainstate manager keeps on disk, and how it comes back: the     *)
(* block files and the undo files (node/blockstorage.cpp), the block tree  *)
(* database, and the coins database (txdb.cpp), written by                 *)
(* FlushStateToDisk and read by btck_chainstate_manager_create.            *)
(*                                                                         *)
(* A process may be killed between any two writes, and the machine may     *)
(* lose power, which also loses what was not synced.  One process uses the *)
(* directory at a time, and every step holds cs_main.  All blocks are      *)
(* valid: how others are refused is in Chainman.                           *)
(***************************************************************************)
EXTENDS Integers, FiniteSets

CONSTANTS
    Block, Genesis, NoBlock,
    Prev, Anc, Work,   \* as in Chainman
    Coin,              \* the outpoints
    Value, Spent,      \* what an unspent output holds, and the mark of no coin
    UTXO,              \* the coins after each block
    Touch,             \* the outpoints a block creates or spends
    FileCap,           \* bound: the blocks in a file (MAX_BLOCKFILE_SIZE)
    CheckDepth,        \* how many blocks VerifyDB goes back
    Incidents,         \* among "kill", "power" and "wipe"
    MaxIncidents       \* bound: how many of them

ASSUME TreeAssumption ==
    /\ Genesis \in Block /\ NoBlock \notin Block
    /\ Prev \in [Block \ {Genesis} -> Block]
    /\ Anc \in [Block -> SUBSET Block] /\ Anc[Genesis] = {Genesis}
    /\ \A b \in Block \ {Genesis} :
          b \notin Anc[Prev[b]] /\ Anc[b] = Anc[Prev[b]] \cup {b}
    /\ \A b \in Block : Genesis \in Anc[b] /\ \A a \in Anc[b] : Anc[a] \subseteq Anc[b]
    /\ Work \in [Block -> Nat]

\* Every block has a height.
ASSUME HeightAssumption == \A b \in Block : Cardinality(Anc[b]) \in Nat \ {0}

\* A block changes the coins it touches, and the genesis block none.
ASSUME CoinAssumption ==
    /\ Spent \notin Value
    /\ UTXO \in [Block -> [Coin -> Value \cup {Spent}]]
    /\ UTXO[Genesis] = [c \in Coin |-> Spent]
    /\ Touch \in [Block -> SUBSET Coin]
    /\ \A b \in Block \ {Genesis} : \A c \in Coin \ Touch[b] :
          UTXO[b][c] = UTXO[Prev[b]][c]

ASSUME BoundAssumption ==
    /\ FileCap \in Nat \ {0} /\ CheckDepth \in Nat \ {0} /\ MaxIncidents \in Nat
    /\ Incidents \subseteq {"kill", "power", "wipe"}

VARIABLES
    blk, blkSafe,       \* <<b, f>>: the data of b is in file f; synced
    rev, revSafe,       \* the undo data, likewise
    tree, treeSafe,     \* the block tree database; what a power loss leaves
    coins, coinsSafe,   \* the coins database, likewise
    pc,                 \* where the process stands; "off" and "null": nowhere
    resume,             \* where it goes on after FlushStateToDisk
    wiping,             \* wipe_chainstate_db
    halfWiped,          \* history: the block tree was wiped, the coins not yet
    mem,                \* the block index in memory; reindex: not m_blockfiles_indexed
    undoHeight,         \* undo_height of the cursor
    best, view,         \* CoinsTip: its best block and its coins
    at,                 \* where ReplayBlocks and VerifyDB stand
    scanned,            \* the files ImportBlocks has read
    imported,           \* history: the blocks a reindex found in the files
    incidents           \* history: how many incidents there were

files == <<blk, blkSafe, imported, rev, revSafe>>
treedb == <<tree, treeSafe>>
coinsdb == <<coins, coinsSafe>>
memory == <<mem, undoHeight, best, view, at, scanned>>
wipes == <<wiping, halfWiped, incidents>>
control == <<pc, resume, wipes>>
vars == <<files, treedb, coinsdb, memory, control>>

MaybeBlock == Block \cup {NoBlock}
View == [Coin -> Value \cup {Spent}]
Index == [pos : [Block -> Nat], undo : SUBSET Block, reindex : BOOLEAN]
Coins == [best : MaybeBlock, new : MaybeBlock, old : MaybeBlock, view : View]

NoCoins == [c \in Coin |-> Spent]
NoIndex == [pos |-> [b \in Block |-> 0], undo |-> {}, reindex |-> FALSE]
EmptyCoins == [best |-> NoBlock, new |-> NoBlock, old |-> NoBlock, view |-> NoCoins]
CoinsAfter(b) == IF b = NoBlock THEN NoCoins ELSE UTXO[b]

TypeOK ==
    /\ blk \subseteq Block \X Nat /\ blkSafe \subseteq blk
    /\ imported \subseteq Block
    /\ rev \subseteq Block \X Nat /\ revSafe \subseteq rev
    /\ tree \in Index /\ treeSafe \in Index /\ mem \in Index
    /\ coins \in Coins /\ coinsSafe \in Coins
    /\ pc \in {"off", "null", "flag", "index", "genesis", "coins", "replay",
               "tip", "verify", "boot", "ready", "abc", "import", "treedb",
               "batch", "halted"}
    /\ resume \in {"off", "tip", "boot", "abc", "import"}
    /\ wiping \in BOOLEAN /\ halfWiped \in BOOLEAN
    /\ undoHeight \in Nat /\ scanned \in Nat /\ incidents \in 0 .. MaxIncidents
    /\ best \in MaybeBlock /\ view \in View /\ at \in MaybeBlock

Blank ==
    /\ mem = NoIndex /\ undoHeight = 0 /\ best = NoBlock /\ view = NoCoins
    /\ at = NoBlock /\ scanned = 0

\* An empty directory.
Init ==
    /\ blk = {} /\ blkSafe = {} /\ imported = {} /\ rev = {} /\ revSafe = {}
    /\ tree = NoIndex /\ treeSafe = NoIndex
    /\ coins = EmptyCoins /\ coinsSafe = EmptyCoins
    /\ pc = "off" /\ resume = "off"
    /\ wiping = FALSE /\ halfWiped = FALSE /\ incidents = 0
    /\ Blank

-----------------------------------------------------------------------------
(* The block index, the files and the coins.                               *)

Height(b) == Cardinality(Anc[b]) - 1
Indexed(m) == {b \in Block : m.pos[b] # 0}
InFile(f) == {b \in Block : mem.pos[b] = f}

\* MaxBlockfileNum: the file of the cursor.
LastFile(m) ==
    CHOOSE f \in {m.pos[b] : b \in Block} \cup {1} :
        f # 0 /\ \A b \in Block : m.pos[b] <= f

\* h is the nHeightLast of file f.
HeightLast(f, h) ==
    /\ \A b \in InFile(f) : Height(b) <= h
    /\ h = 0 \/ \E b \in InFile(f) : Height(b) = h

ReadBlock(b) == <<b, mem.pos[b]>> \in blk

\* Mutant: the undo data is sought in the file of the cursor.
ReadUndoAtCursor(b) == b \in mem.undo /\ <<b, LastFile(mem)>> \in rev
ReadBlockUndo(b) == b \in mem.undo /\ <<b, mem.pos[b]>> \in rev

\* Mutant: the file is not synced.
NotSynced(written, safe, f) == safe
\* FlatFileSeq::Flush of file f.
Synced(written, safe, f) == safe \cup {x \in written : x[2] = f}

\* Data in file f that the index does not know: FlatFileSeq::Flush cuts it
\* off, and the next block is written over it.
Stale(f) == {x \in blk : x[2] = f /\ mem.pos[x[1]] # f}

\* Mutant: a file that is left is synced before it is cut.
SyncedThenCut(f) == Synced(blk, blkSafe, f)
\* FlushBlockFile with fFinalize: what is safe when file f is left.
Finalized(f) == Synced(blk \ Stale(f), blkSafe \ Stale(f), f)

\* DisconnectBlock: what b touched is as before b.
Undone(b, v) ==
    [c \in Coin |-> IF c \in Touch[b] THEN UTXO[Prev[b]][c] ELSE v[c]]
\* ConnectBlock and RollforwardBlock.
Applied(b, v) == [c \in Coin |-> IF c \in Touch[b] THEN UTXO[b][c] ELSE v[c]]
\* DISCONNECT_OK: the coins are those b left.
Clean(b, v) == \A c \in Touch[b] : v[c] = UTXO[b][c]

Incident(i) ==
    i \in Incidents /\ incidents < MaxIncidents /\ incidents' = incidents + 1

\* A write to a database that is not synced: the system may write it back, and
\* all before it, or not, which matters while there is power to lose.
Unsynced(old, new) ==
    IF "power" \in Incidents /\ incidents < MaxIncidents THEN {old, new} ELSE {new}

\* FindNextBlockPos: the cursor's file is full, the file of the next block, and
\* a file that is left is synced, its undo file only if the undo data keeps up.
FileFull == Cardinality(InFile(LastFile(mem))) >= FileCap
FindNextBlockPos == IF FileFull THEN LastFile(mem) + 1 ELSE LastFile(mem)
LeaveUndoFile ==
    /\ revSafe' = IF FileFull /\ HeightLast(LastFile(mem), undoHeight)
                     THEN Synced(rev, revSafe, LastFile(mem)) ELSE revSafe
    /\ undoHeight' = IF FileFull THEN 0 ELSE undoHeight
LeaveBlockFile ==
    IF FileFull THEN [kept |-> blk \ Stale(LastFile(mem)), safe |-> Finalized(LastFile(mem))]
    ELSE [kept |-> blk, safe |-> blkSafe]

\* WriteBlock, and the position in the index m.  The genesis block begins the
\* first file: written again, it is the same bytes.
WriteBlock(b, m) ==
    LET f == FindNextBlockPos
    IN  \E lost \in SUBSET (Stale(f) \ {<<b, f>>}) :
            /\ blk' = (LeaveBlockFile.kept \ lost) \cup {<<b, f>>}
            /\ blkSafe' = LeaveBlockFile.safe \ (lost \cup ({<<b, f>>} \ {<<Genesis, 1>>}))
            /\ LeaveUndoFile
            /\ mem' = [m EXCEPT !.pos[b] = f]
            /\ imported' = imported \ {b}
            /\ UNCHANGED rev

\* WriteBlockUndo, unless the undo data is there.
WriteBlockUndo(b) ==
    LET f == mem.pos[b]
    IN  IF b \in mem.undo THEN UNCHANGED <<rev, revSafe, undoHeight, mem>>
        ELSE /\ rev' = rev \cup {<<b, f>>}
             /\ revSafe' = IF f < LastFile(mem) /\ HeightLast(f, Height(b))
                              THEN Synced(rev', revSafe, f)
                              ELSE revSafe \ {<<b, f>>}
             /\ undoHeight' = IF f = LastFile(mem) /\ Height(b) > undoHeight
                                 THEN Height(b) ELSE undoHeight
             /\ mem' = [mem EXCEPT !.undo = @ \cup {b}]

-----------------------------------------------------------------------------
(* btck_chainstate_manager_create.                                         *)

Gone ==
    /\ mem' = NoIndex /\ undoHeight' = 0 /\ best' = NoBlock /\ view' = NoCoins
    /\ at' = NoBlock /\ scanned' = 0

\* A step of create fails: the manager is dropped and null returned.
ReturnsNull ==
    /\ pc' = "null" /\ wiping' = FALSE /\ resume' = "off"
    /\ Gone /\ UNCHANGED <<files, treedb, coinsdb, halfWiped, incidents>>

\* The options, and the databases that are opened in the constructor.
Create(wipeTree, wipeCoins) ==
    /\ pc \in {"off", "null"}
    /\ wipeTree => wipeCoins          \* set_wipe_dbs
    /\ IF wipeCoins THEN Incident("wipe") ELSE UNCHANGED incidents
    /\ wiping' = wipeCoins /\ halfWiped' = (halfWiped \/ wipeTree)
    /\ IF wipeTree THEN /\ tree' = NoIndex /\ treeSafe' = NoIndex
                        /\ pc' = "flag"
                   ELSE pc' = "index" /\ UNCHANGED treedb
    /\ UNCHANGED <<files, coinsdb, memory, resume>>

\* The constructor of BlockManager after a wipe; there is nothing to load.
WriteReindexing ==
    /\ pc = "flag"
    /\ tree' = [tree EXCEPT !.reindex = TRUE]
    /\ treeSafe' \in Unsynced(treeSafe, tree')
    /\ mem' = [mem EXCEPT !.reindex = TRUE]
    /\ pc' = "coins"
    /\ UNCHANGED <<files, coinsdb, undoHeight, best, view, at, scanned, resume,
                   wipes>>

\* OpenBlockFile finds no file: a power loss may take one with all its data.
FileMissing == \E b \in Indexed(tree) : \A x \in blk : x[2] # tree.pos[b]
\* The index of another network.
GenesisMissing == Indexed(tree) # {} /\ tree.pos[Genesis] = 0

LoadBlockIndexDB ==
    /\ pc = "index" /\ ~GenesisMissing
    /\ mem' = tree
    /\ pc' = IF ~tree.reindex /\ tree.pos[Genesis] = 0 THEN "genesis" ELSE "coins"
    /\ UNCHANGED <<files, treedb, coinsdb, undoHeight, best, view, at, scanned, resume,
                   wipes>>

LoadGenesisBlock ==
    /\ pc = "genesis"
    /\ WriteBlock(Genesis, mem)
    /\ pc' = "coins"
    /\ UNCHANGED <<treedb, coinsdb, best, view, at, scanned, resume, wipes>>

\* Mutant: a first flush, from no block, is not taken for interrupted.
InterruptedFromOld(d) == d.new # NoBlock /\ d.old # NoBlock
\* GetHeadBlocks: the database is in transition.
Interrupted(d) == d.new # NoBlock

\* InitCoinsDB and the beginning of ReplayBlocks.
InitCoinsDB ==
    /\ pc = "coins"
    /\ wiping' = FALSE /\ halfWiped' = (halfWiped /\ ~wiping)
    /\ IF wiping THEN coins' = EmptyCoins /\ coinsSafe' = EmptyCoins
                 ELSE UNCHANGED coinsdb
    /\ IF ~Interrupted(coins') THEN pc' = "tip" /\ UNCHANGED <<at, view>>
       ELSE /\ {coins.new, coins.old} \ {NoBlock} \subseteq Indexed(mem)
            /\ at' = IF coins.old = NoBlock THEN Genesis ELSE coins.old
            /\ view' = coins.view
            /\ pc' = "replay"
    /\ UNCHANGED <<files, treedb, mem, undoHeight, best, scanned, resume, incidents>>

\* A block of the old branch is rolled back.
RollBack ==
    /\ pc = "replay" /\ at \notin Anc[coins.new]
    /\ ReadBlock(at) /\ ReadBlockUndo(at)
    /\ view' = Undone(at, view)
    /\ at' = Prev[at]
    /\ UNCHANGED <<files, treedb, coinsdb, mem, undoHeight, best, scanned, control>>

\* RollforwardBlock of the next block towards the new tip.
RollForward ==
    /\ pc = "replay"
    /\ \E b \in Anc[coins.new] \ {Genesis} :
          /\ Prev[b] = at /\ ReadBlock(b)
          /\ view' = Applied(b, view)
          /\ at' = b
    /\ UNCHANGED <<files, treedb, coinsdb, mem, undoHeight, best, scanned, control>>

\* The replayed coins go to the database, in batches.
Replayed ==
    /\ pc = "replay" /\ at = coins.new
    /\ best' = at
    /\ pc' = "batch" /\ resume' = "tip"
    /\ UNCHANGED <<files, treedb, coinsdb, mem, undoHeight, view, at, scanned,
                   wipes>>

LoadChainTip ==
    /\ pc = "tip"
    /\ best' = coins.best /\ view' = coins.view
    /\ IF coins.best = NoBlock THEN pc' = "boot" /\ at' = NoBlock
       ELSE coins.best \in Indexed(mem) /\ pc' = "verify" /\ at' = coins.best
    /\ UNCHANGED <<files, treedb, coinsdb, mem, undoHeight, scanned, resume,
                   wipes>>

\* VerifyDB at levels 0 to 3, which undoes the last blocks in memory.
ToVerify == at # Genesis /\ Height(at) > Height(best) - CheckDepth
VerifyBlock ==
    /\ pc = "verify" /\ ToVerify
    /\ ReadBlock(at) /\ ReadBlockUndo(at) /\ Clean(at, view)
    /\ view' = Undone(at, view)
    /\ at' = Prev[at]
    /\ UNCHANGED <<files, treedb, coinsdb, mem, undoHeight, best, scanned, control>>

Verified ==
    /\ pc = "verify" /\ ~ToVerify
    /\ view' = coins.view /\ at' = NoBlock
    /\ pc' = "boot"
    /\ UNCHANGED <<files, treedb, coinsdb, mem, undoHeight, best, scanned, resume,
                   wipes>>

\* The index cannot be used, the replay meets an unknown block or one it cannot
\* read, the tip is not in the index, or VerifyDB finds the databases corrupted.
CreateFails ==
    /\ \/ pc = "index" /\ (FileMissing \/ GenesisMissing)
       \/ /\ pc = "coins" /\ ~wiping /\ Interrupted(coins)
          /\ ~({coins.new, coins.old} \ {NoBlock} \subseteq Indexed(mem))
       \/ /\ pc = "replay" /\ at \notin Anc[coins.new]
          /\ ~(ReadBlock(at) /\ ReadBlockUndo(at))
       \/ /\ pc = "replay"
          /\ \E b \in Anc[coins.new] \ {Genesis} : Prev[b] = at /\ ~ReadBlock(b)
       \/ pc = "tip" /\ coins.best \notin Indexed(mem) \cup {NoBlock}
       \/ /\ pc = "verify" /\ ToVerify
          /\ ~(ReadBlock(at) /\ ReadBlockUndo(at) /\ Clean(at, view))
    /\ ReturnsNull

-----------------------------------------------------------------------------
(* ActivateBestChain, at the end of create ("boot"), of process_block and  *)
(* of import_blocks ("abc").                                               *)

Activating == pc \in {"boot", "abc"}

\* The blocks FindMostWorkChain may return: all ancestors are stored, and no
\* block has more work.  A tie is decided either way, but not against the tip.
MostWork ==
    LET usable == {b \in Block : Anc[b] \subseteq Indexed(mem)}
    IN  {b \in usable : /\ \A x \in usable : Work[x] <= Work[b]
                        /\ best = NoBlock \/ Work[b] > Work[best]}

\* ConnectTip, with WriteBlockUndo in ConnectBlock.
ConnectTip ==
    /\ Activating
    /\ \E m \in MostWork : \E b \in Anc[m] :
          /\ IF b = Genesis THEN best = NoBlock ELSE Prev[b] = best
          /\ ReadBlock(b)
          /\ IF b = Genesis THEN UNCHANGED <<rev, revSafe, undoHeight, mem, view>>
             ELSE WriteBlockUndo(b) /\ view' = Applied(b, view)
          /\ best' = b
    /\ UNCHANGED <<blk, blkSafe, imported, treedb, coinsdb, at, scanned, control>>

DisconnectTip ==
    /\ Activating /\ best # NoBlock
    /\ \E m \in MostWork : best \notin Anc[m]
    /\ ReadBlock(best) /\ ReadBlockUndo(best) /\ Clean(best, view)
    /\ view' = Undone(best, view)
    /\ best' = Prev[best]
    /\ UNCHANGED <<files, treedb, coinsdb, mem, undoHeight, at, scanned, control>>

\* A block cannot be read or disconnected: create returns null, and another
\* call reports a fatal error.
ActivationFails ==
    /\ Activating
    /\ \E m \in MostWork :
          \/ \E b \in Anc[m] :
                /\ IF b = Genesis THEN best = NoBlock ELSE Prev[b] = best
                /\ ~ReadBlock(b)
          \/ /\ best \notin Anc[m] \cup {NoBlock}
             /\ ~(ReadBlock(best) /\ ReadBlockUndo(best) /\ Clean(best, view))
    /\ IF pc = "boot" THEN ReturnsNull
       ELSE /\ pc' = "halted"
            /\ UNCHANGED <<files, treedb, coinsdb, memory, resume, wipes>>

Activated ==
    /\ Activating /\ MostWork = {}
    /\ pc' = "ready"
    /\ UNCHANGED <<files, treedb, coinsdb, memory, resume, wipes>>

\* process_block: AcceptBlock stores the block.  After an interrupted
\* reindex import_blocks comes first.
ProcessBlock ==
    /\ pc = "ready" /\ ~mem.reindex
    /\ \E b \in Block \ Indexed(mem) : Prev[b] \in Indexed(mem) /\ WriteBlock(b, mem)
    /\ pc' = "abc"
    /\ UNCHANGED <<treedb, coinsdb, best, view, at, scanned, resume, wipes>>

-----------------------------------------------------------------------------
(* FlushStateToDisk: after a step of ActivateBestChain when the cache is   *)
(* full or it is time, and in btck_chainstate_manager_destroy.             *)

\* FlushChainstateBlockFile, of the cursor's files.
Flush ==
    /\ pc \in {"boot", "abc", "ready", "halted"}
    /\ blkSafe' = Synced(blk, blkSafe, LastFile(mem))
    /\ revSafe' = Synced(rev, revSafe, LastFile(mem))
    /\ resume' = IF Activating THEN pc ELSE "off"
    /\ pc' = "treedb"
    /\ UNCHANGED <<blk, imported, rev, treedb, coinsdb, memory, wipes>>

Proceed ==
    /\ pc' = resume /\ resume' = "off"
    /\ IF resume = "off" THEN Gone ELSE UNCHANGED memory

\* Mutant: of the changed entries only the tip's is written.
TipEntryOnly ==
    [tree EXCEPT !.pos = [b \in Block |-> IF b = best THEN mem.pos[b] ELSE @[b]],
                 !.undo = mem.undo]
\* The changed entries are written; the reindex flag has a key of its own.
IndexEntries == [mem EXCEPT !.reindex = tree.reindex]

\* One synced batch.
WriteBlockIndexDB ==
    /\ pc = "treedb"
    /\ tree' = IndexEntries
    /\ treeSafe' = tree'
    /\ IF best = NoBlock THEN Proceed
       ELSE pc' = "batch" /\ UNCHANGED <<memory, resume>>
    /\ UNCHANGED <<files, coinsdb, wipes>>

\* Mutant: the old head of an interrupted flush is forgotten.
OldTipIfWhole == coins.best
OldTip == IF coins.best = NoBlock THEN coins.old ELSE coins.best

\* CCoinsViewDB::BatchWrite: a batch that is not the last marks the database
\* as in transition and writes some of the changed coins.
WritePartialBatch ==
    /\ pc = "batch"
    /\ \E w \in SUBSET {c \in Coin : coins.view[c] # view[c]} :
          coins' = [best |-> NoBlock, new |-> best, old |-> OldTip,
                    view |-> [c \in Coin |-> IF c \in w THEN view[c]
                                                        ELSE coins.view[c]]]
    /\ coinsSafe' \in Unsynced(coinsSafe, coins')
    /\ UNCHANGED <<files, treedb, memory, control>>

WriteLastBatch ==
    /\ pc = "batch"
    /\ coins' = [best |-> best, new |-> NoBlock, old |-> NoBlock, view |-> view]
    /\ coinsSafe' \in Unsynced(coinsSafe, coins')
    /\ Proceed
    /\ UNCHANGED <<files, treedb, wipes>>

-----------------------------------------------------------------------------
(* import_blocks.                                                          *)

ImportBlocks ==
    /\ pc = "ready"
    /\ pc' = IF mem.reindex THEN "import" ELSE "abc"
    /\ UNCHANGED <<files, treedb, coinsdb, memory, resume, wipes>>

\* The files from the first one up to the first that is missing.
TotalFiles ==
    LET there == {x[2] : x \in blk}
    IN  CHOOSE n \in there \cup {0} : 1 .. n \subseteq there /\ n + 1 \notin there

\* The blocks LoadExternalBlockFile accepts when it has read the files up to
\* n: those whose ancestors are known by then, in whatever order they came.
Known(n) ==
    LET there == Indexed(mem) \cup {x[1] : x \in {y \in blk : y[2] \in 1 .. n}}
    IN  {b \in Block : Anc[b] \subseteq there}
FirstFile(b) ==
    CHOOSE f \in 1 .. TotalFiles :
        <<b, f>> \in blk /\ \A h \in 1 .. f - 1 : <<b, h>> \notin blk
Accept(bs) ==
    LET new == bs \ Indexed(mem)
    IN  /\ mem' = [mem EXCEPT !.pos = [b \in Block |-> IF b \in new THEN FirstFile(b)
                                                                  ELSE mem.pos[b]]]
        /\ imported' = imported \cup new
        /\ UNCHANGED <<blk, blkSafe, rev, revSafe>>

\* The genesis block is activated as soon as it is read.
ImportGenesis ==
    /\ pc = "import" /\ best = NoBlock /\ Genesis \in Known(TotalFiles)
    /\ Accept({Genesis})
    /\ best' = Genesis
    /\ UNCHANGED <<treedb, coinsdb, undoHeight, view, at, scanned, control>>

\* ... and FlushStateToDisk follows it.
ImportFlush ==
    /\ pc = "import" /\ best = Genesis /\ scanned = 0
    /\ blkSafe' = Synced(blk, blkSafe, LastFile(mem))
    /\ revSafe' = Synced(rev, revSafe, LastFile(mem))
    /\ resume' = "import" /\ pc' = "treedb"
    /\ UNCHANGED <<blk, imported, rev, treedb, coinsdb, memory, wipes>>

LoadExternalBlockFile ==
    /\ pc = "import" /\ scanned + 1 \in 1 .. TotalFiles
    /\ best = NoBlock => Genesis \notin Known(TotalFiles)
    /\ scanned' = scanned + 1
    /\ Accept(Known(scanned + 1))
    /\ undoHeight' = IF LastFile(mem') # LastFile(mem) THEN 0 ELSE undoHeight
    /\ UNCHANGED <<treedb, coinsdb, best, view, at, control>>

\* The flag is cleared, and the chain activated.
ReindexDone ==
    /\ pc = "import" /\ scanned = TotalFiles /\ mem.pos[Genesis] # 0
    /\ tree' = [tree EXCEPT !.reindex = FALSE]
    /\ treeSafe' \in Unsynced(treeSafe, tree')
    /\ mem' = [mem EXCEPT !.reindex = FALSE]
    /\ scanned' = 0
    /\ pc' = "abc"
    /\ UNCHANGED <<files, coinsdb, undoHeight, best, view, at, resume, wipes>>

\* No file held the genesis block: LoadGenesisBlock.
ReindexWithoutGenesis ==
    /\ pc = "import" /\ scanned = TotalFiles /\ mem.pos[Genesis] = 0
    /\ tree' = [tree EXCEPT !.reindex = FALSE]
    /\ treeSafe' \in Unsynced(treeSafe, tree')
    /\ WriteBlock(Genesis, [mem EXCEPT !.reindex = FALSE])
    /\ scanned' = 0
    /\ pc' = "abc"
    /\ UNCHANGED <<coinsdb, best, view, at, resume, wipes>>

\* The context is interrupted: import_blocks returns, the flag stays, and
\* nothing is left but to destroy the manager.
ImportInterrupted ==
    /\ pc = "import"
    /\ pc' = "halted" /\ scanned' = 0
    /\ UNCHANGED <<files, treedb, coinsdb, mem, undoHeight, best, view, at, resume,
                   wipes>>

-----------------------------------------------------------------------------
(* Incidents.                                                              *)

\* The process is killed: what it wrote stays.
Kill ==
    /\ Incident("kill") /\ pc \notin {"off", "null"}
    /\ pc' = "off" /\ resume' = "off" /\ wiping' = FALSE
    /\ Gone /\ UNCHANGED <<files, treedb, coinsdb, halfWiped>>

\* Power is lost: data that was not synced may be gone, and the databases are
\* as they were some writes ago.
PowerLoss ==
    /\ Incident("power")
    /\ \E keep \in SUBSET (blk \ blkSafe) : blk' = blkSafe \cup keep
    /\ \E keep \in SUBSET (rev \ revSafe) : rev' = revSafe \cup keep
    /\ blkSafe' = blk' /\ revSafe' = rev'
    /\ tree' = treeSafe /\ coins' = coinsSafe /\ UNCHANGED <<treeSafe, coinsSafe>>
    /\ pc' = "off" /\ resume' = "off" /\ wiping' = FALSE
    /\ Gone /\ UNCHANGED <<imported, halfWiped>>

Next ==
    \/ \E wipeTree, wipeCoins \in BOOLEAN : Create(wipeTree, wipeCoins)
    \/ WriteReindexing \/ LoadBlockIndexDB \/ LoadGenesisBlock \/ InitCoinsDB
    \/ RollBack \/ RollForward \/ Replayed \/ LoadChainTip
    \/ VerifyBlock \/ Verified \/ CreateFails
    \/ ConnectTip \/ DisconnectTip \/ ActivationFails \/ Activated \/ ProcessBlock
    \/ Flush \/ WriteBlockIndexDB \/ WritePartialBatch \/ WriteLastBatch
    \/ ImportBlocks \/ ImportGenesis \/ ImportFlush \/ LoadExternalBlockFile
    \/ ReindexDone \/ ReindexWithoutGenesis \/ ImportInterrupted
    \/ Kill \/ PowerLoss

Spec == Init /\ [][Next]_vars

-----------------------------------------------------------------------------
(* Properties.                                                             *)

\* However often the process was killed or the power lost, within a flush or
\* within the replay that repairs one, the coins a running manager works with
\* are exactly those of its tip.
CoinsExact == pc \in {"boot", "abc", "ready"} => view = CoinsAfter(best)

\* FlushStateToDisk syncs the block data before it writes the index: the
\* index on disk names no block data that a power loss may take, except what a
\* reindex found (it did not write that, and only the last file is synced).
\* Undo data is another matter: that of a block in an earlier file than the
\* last may be named and not synced (see ComesBack).
IndexedDataSafe ==
    \A b \in Indexed(tree) \ imported : <<b, tree.pos[b]>> \in blkSafe

\* FlushStateToDisk writes the index before the coins: the blocks the coins database names
\* are in the index on disk with all their ancestors, except after a wipe that
\* was cut short.
CoinsIndexed ==
    halfWiped \/ \A b \in {coins.best, coins.new, coins.old} \ {NoBlock} :
                     Anc[b] \subseteq Indexed(tree)

\* create gives a manager again after any incident, unless a wipe was cut
\* short or a power loss took what the index on disk names: undo data, or a
\* block that a reindex had found.
Lost ==
    \/ \E b \in Indexed(tree) \cap imported : <<b, tree.pos[b]>> \notin blk
    \/ \E b \in tree.undo : <<b, tree.pos[b]>> \notin rev
ComesBack == pc = "null" => halfWiped \/ Lost

\* The assertion of BatchWrite: an interrupted flush is finished, never
\* replaced by another.
FlushFinished == pc = "batch" /\ coins.best = NoBlock => coins.new \in {best, NoBlock}
=============================================================================
