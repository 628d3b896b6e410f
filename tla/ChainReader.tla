----------------------------- MODULE ChainReader -----------------------------
(***************************************************************************)
(* Threads that read the active chain (src/src/state/chain.rs and the      *)
(* getters of chainstate.rs) while others process blocks (Chainman).       *)
(*                                                                         *)
(* Each call into the C API takes cs_main once.  Chain::tip, at_height and *)
(* ChainIterator::next make two such calls, first for the height and then  *)
(* for the entry, and the chain may move in between.                       *)
(***************************************************************************)
EXTENDS Chainman

CONSTANTS
    Reader,      \* the reading threads
    MaxHeight,   \* bound: heights asked for
    Unknown      \* the key of no block

ASSUME ReaderConstants == MaxHeight \in Nat /\ Unknown \notin Block

VARIABLES
    rpc,         \* idle, begun, height (the height is read), done
    rop,         \* the call: tip, at_height, next, lookup, read
    arg,         \* the height or the hash it is about
    ht,          \* the height it read
    out,         \* its result; NoBlock stands for None and for a null entry
    entry,       \* the last entry a chain accessor returned to the thread
    cursor,      \* current_height of its ChainIterator
    seen         \* history: the tips visible during the call

reader == <<rpc, rop, arg, ht, out, entry, cursor, seen>>
allVars == <<vars, reader>>

Height(b) == Cardinality(Anc[b]) - 1

\* CChain::operator[]: the block at height h of the chain that ends in x.
At(x, h) ==
    IF h \in 0 .. Height(x) THEN CHOOSE b \in Anc[x] : Height(b) = h
                            ELSE NoBlock

\* Mutant: the undo data goes when the block is disconnected.
UndoWhileActive(b) == b \in Anc[tip]

\* Blocks whose undo data is on disk: ConnectBlock accepted them.
HaveUndo(b) == b = Genesis \/ b \in undo

ReaderType ==
    /\ rpc \in [Reader -> {"idle", "begun", "height", "done"}]
    /\ rop \in [Reader -> {"tip", "at_height", "next", "lookup", "read"}]
    /\ arg \in [Reader -> Nat \cup Block \cup {Unknown}]
    /\ ht \in [Reader -> Nat]
    /\ out \in [Reader -> MaybeBlock] /\ entry \in [Reader -> MaybeBlock]
    /\ cursor \in [Reader -> Nat]
    /\ seen \in [Reader -> SUBSET Block]

ReaderInit ==
    /\ Init
    /\ rpc = [r \in Reader |-> "idle"] /\ rop = [r \in Reader |-> "tip"]
    /\ arg = [r \in Reader |-> 0] /\ ht = [r \in Reader |-> 0]
    /\ out = [r \in Reader |-> NoBlock] /\ entry = [r \in Reader |-> NoBlock]
    /\ cursor = [r \in Reader |-> 0]
    /\ seen = [r \in Reader |-> {}]

-----------------------------------------------------------------------------

\* A call begins; op and x say which.
Call(r, op, x) ==
    /\ rpc[r] = "idle"
    /\ rpc' = [rpc EXCEPT ![r] = "begun"]
    /\ rop' = [rop EXCEPT ![r] = op]
    /\ arg' = [arg EXCEPT ![r] = x]
    /\ seen' = [seen EXCEPT ![r] = {shown}]
    /\ UNCHANGED <<ht, out, entry>>

CallTip(r) == Call(r, "tip", 0) /\ UNCHANGED cursor

CallAtHeight(r) ==
    \E h \in 0 .. MaxHeight : Call(r, "at_height", h) /\ UNCHANGED cursor

\* ChainIterator::next advances its height before it asks.
CallNext(r) ==
    /\ cursor[r] <= MaxHeight
    /\ Call(r, "next", cursor[r])
    /\ cursor' = [cursor EXCEPT ![r] = @ + 1]

\* Mutant: the number of blocks is taken for the height.
HeightPlusOne(x) == Height(x) + 1

\* CChain::Height.
ChainHeight(x) == Height(x)

\* btck_chain_get_height.
GetHeight(r) ==
    /\ rpc[r] = "begun" /\ csMain = NoThread
    /\ ht' = [ht EXCEPT ![r] = ChainHeight(tip)]
    /\ rpc' = [rpc EXCEPT ![r] = "height"]
    /\ UNCHANGED <<rop, arg, out, entry, cursor, seen>>

Finish(r, b) ==
    /\ out' = [out EXCEPT ![r] = b]
    /\ rpc' = [rpc EXCEPT ![r] = "done"]
    /\ UNCHANGED <<rop, arg, ht, cursor, seen>>

\* The result of tip: the entry at the height read before, null or not.
GetTip(r) ==
    /\ rpc[r] = "height" /\ rop[r] = "tip" /\ csMain = NoThread
    /\ Finish(r, At(tip, ht[r]))
    /\ entry' = [entry EXCEPT ![r] = At(tip, ht[r])]

\* at_height compares with the height read before, without a second look.
TooHigh(r) ==
    /\ rpc[r] = "height" /\ rop[r] # "tip" /\ arg[r] > ht[r]
    /\ Finish(r, NoBlock)
    /\ UNCHANGED entry

\* Mutant: the index into the chain is off by one.
EntryAbove(h) == At(tip, h + 1)

\* btck_chain_get_by_height.
EntryAt(h) == At(tip, h)

GetAtHeight(r) ==
    /\ rpc[r] = "height" /\ rop[r] # "tip" /\ arg[r] <= ht[r]
    /\ csMain = NoThread
    /\ Finish(r, EntryAt(arg[r]))
    /\ entry' = [entry EXCEPT ![r] = EntryAt(arg[r])]

\* A call that enters the library once: its argument and its result.
Single(r, op, x, b) ==
    /\ rpc[r] = "idle" /\ csMain = NoThread
    /\ rpc' = [rpc EXCEPT ![r] = "done"]
    /\ rop' = [rop EXCEPT ![r] = op]
    /\ arg' = [arg EXCEPT ![r] = x]
    /\ out' = [out EXCEPT ![r] = b]
    /\ UNCHANGED <<ht, entry, cursor, seen>>

\* get_block_tree_entry(hash of b) passes the address of the Rust struct,
\* which holds the pointer to the hash, where the C API expects that pointer:
\* what is looked up is the bytes of an address, the hash of no block.
KeyPassed(b) == Unknown

Lookup(r) ==
    \E b \in index :
        Single(r, "lookup", b,
               IF KeyPassed(b) \in index THEN KeyPassed(b) ELSE NoBlock)

\* read_block_data and read_spent_outputs of an entry the chain gave.
Read(r) ==
    /\ entry[r] # NoBlock
    /\ Single(r, "read", entry[r],
              IF entry[r] \in have /\ HaveUndo(entry[r])
                 THEN entry[r] ELSE NoBlock)

\* The caller has its result; an iterator that gave None is dropped.
Returns(r) ==
    /\ rpc[r] = "done"
    /\ rpc' = [rpc EXCEPT ![r] = "idle"]
    /\ out' = [out EXCEPT ![r] = NoBlock]
    /\ ht' = [ht EXCEPT ![r] = 0]
    /\ seen' = [seen EXCEPT ![r] = {}]
    /\ rop' = [rop EXCEPT ![r] = "tip"]
    /\ arg' = [arg EXCEPT ![r] = 0]
    /\ cursor' = IF rop[r] = "next" /\ out[r] = NoBlock
                 THEN [cursor EXCEPT ![r] = 0] ELSE cursor
    /\ UNCHANGED entry

ReaderStep(r) ==
    /\ process = "running"
    /\ \/ CallTip(r) \/ CallAtHeight(r) \/ CallNext(r)
       \/ GetHeight(r) \/ GetTip(r) \/ TooHigh(r) \/ GetAtHeight(r)
       \/ Lookup(r) \/ Read(r) \/ Returns(r)
    /\ UNCHANGED vars

\* A step of a writer may show the readers in a call a new tip.
WriterStep ==
    /\ Next
    /\ seen' = [r \in Reader |-> IF rpc[r] = "idle" THEN {}
                                 ELSE seen[r] \cup {shown'}]
    /\ UNCHANGED <<rpc, rop, arg, ht, out, entry, cursor>>

ReaderNext == WriterStep \/ \E r \in Reader : ReaderStep(r)

ReaderSpec == ReaderInit /\ [][ReaderNext]_allVars

-----------------------------------------------------------------------------
(* Properties. *)

\* at_height, and so every step of ChainIterator, returns what the active
\* chain held at that height at some moment during the call, although it
\* takes cs_main twice and the chain may be reorganised in between.
AtHeightLinearizable ==
    \A r \in Reader :
        rpc[r] = "done" /\ rop[r] \in {"at_height", "next"} =>
            \E x \in seen[r] : out[r] = At(x, arg[r])

\* tip returns a block that was the tip during the call, as long as the chain
\* only grew during the call.  After a fatal error it may have been cut short,
\* for ActivateBestChain then returns in the middle of a reorganisation.
TipIfOnlyGrowth ==
    \A r \in Reader :
        /\ rpc[r] = "done" /\ rop[r] = "tip" /\ fatal = "no"
        /\ \A x, y \in seen[r] : x \in Anc[y] \/ y \in Anc[x]
        => out[r] \in seen[r]

\* The block data and the undo data of an entry obtained from the active
\* chain can be read at any later time, whether the block is still active or
\* has been reorganised away.
EntriesReadable ==
    \A r \in Reader : rpc[r] = "done" /\ rop[r] = "read" => out[r] = arg[r]

\* Chain::tip: "Returns the tip (highest block) of the chain": there is an
\* entry to return.
TipEntryExists ==
    \A r \in Reader : rpc[r] = "done" /\ rop[r] = "tip" => out[r] # NoBlock

\* get_block_tree_entry: "`Some` - If a block with the given hash exists in
\* the block tree".
LookupFindsBlock ==
    \A r \in Reader :
        rpc[r] = "done" /\ rop[r] = "lookup" => out[r] = arg[r]
=============================================================================
