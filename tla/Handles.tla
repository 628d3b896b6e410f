------------------------------ MODULE Handles -------------------------------
(***************************************************************************)
(* The Rust values that wrap objects of the library, and the memory they   *)
(* point to.                                                               *)
(*                                                                         *)
(* An owned value has a handle of its own, which its drop destroys; a copy *)
(* gets a handle of its own.  A reference is a pointer into the memory of  *)
(* another value's handle (views of the library), kept from outliving it   *)
(* only by the lifetime in the signature of the method that made it: the   *)
(* tables below give, for every method, what the library returns and what  *)
(* Rust makes of it.  Rust's rule that a borrowed value is not dropped is  *)
(* all the client respects.                                                *)
(***************************************************************************)
EXTENDS Naturals, FiniteSets

CONSTANTS
    Slot,        \* the variables of the program
    Mem,         \* handles the library can allocate
    Roots,       \* the kinds of values the program starts from
    NoMem        \* of a variable that holds nothing

VARIABLES
    val,         \* the value in each variable
    alloc        \* for each handle allocated, the kind of value it was got
                 \* from and its own kind

vars == <<val, alloc>>

\* A method of values of kind on, which gives a value of kind to.  The
\* library returns a view of the memory of its argument or a new handle; Rust
\* makes an owned value of it or a reference, whose lifetime is that of &self
\* ("self"), that of self's own borrow ("same"), or unbounded ("none").
Owned(on, to) == [on |-> on, to |-> to, c |-> "new", rust |-> "owned", tie |-> "none"]
View(on, to) == [on |-> on, to |-> to, c |-> "view", rust |-> "ref", tie |-> "self"]
Same(on, to) == [on |-> on, to |-> to, c |-> "view", rust |-> "ref", tie |-> "same"]

BlockMethods ==
    {Owned("Block", "Hash"), Owned("Block", "Header"),
     View("Block", "Transaction"), View("Block", "TransactionIter")}

BlockHeaderMethods == {Owned("Header", "Hash"), View("Header", "Hash")}

\* Mutant: the items of the iterator are not tied to the block.
BlockTransactionIterUntied ==
    {[Same("TransactionIter", "Transaction") EXCEPT !.tie = "none"]}

\* The items of an iterator live as long as what it iterates over.
BlockTransactionIter == {Same("TransactionIter", "Transaction")}

TransactionMethods ==
    {View("Transaction", "TxOut"), View("Transaction", "TxIn"),
     View("Transaction", "Txid"),
     View("Transaction", "TxInIter"), View("Transaction", "TxOutIter")}

TxInIter == {Same("TxInIter", "TxIn")}
TxOutIter == {Same("TxOutIter", "TxOut")}
TxOutMethods == {View("TxOut", "Script")}
\* as_bytes is a slice of the library's memory.
ScriptPubkeyMethods == {View("Script", "Bytes")}
TxInMethods == {View("TxIn", "OutPoint")}
TxOutPointMethods == {View("OutPoint", "Txid")}

BlockSpentOutputsMethods ==
    {View("SpentOutputs", "TxSpent"), View("SpentOutputs", "SpentIter")}
BlockSpentOutputsIter == {Same("SpentIter", "TxSpent")}
TransactionSpentOutputsMethods ==
    {View("TxSpent", "Coin"), View("TxSpent", "CoinIter")}
TransactionSpentOutputsIter == {Same("CoinIter", "Coin")}
CoinMethods == {View("Coin", "TxOut")}

ChainstateManagerMethods ==
    {View("Manager", "Chain"), View("Manager", "Entry"),
     Owned("Manager", "Block"), Owned("Manager", "SpentOutputs")}
ChainMethods == {Same("Chain", "Entry"), Same("Chain", "ChainIter")}
ChainIterator == {Same("ChainIter", "Entry")}

\* header wraps the new header the library returns as a reference.
BlockTreeEntryMethods ==
    {Same("Entry", "Entry"), View("Entry", "Hash"),
     [on |-> "Entry", to |-> "Header", c |-> "new", rust |-> "ref", tie |-> "self"]}

Methods ==
    UNION {BlockMethods, BlockHeaderMethods, BlockTransactionIter,
           TransactionMethods, TxInIter, TxOutIter, TxOutMethods,
           ScriptPubkeyMethods, TxInMethods, TxOutPointMethods,
           BlockSpentOutputsMethods, BlockSpentOutputsIter,
           TransactionSpentOutputsMethods, TransactionSpentOutputsIter,
           CoinMethods, ChainstateManagerMethods, ChainMethods, ChainIterator,
           BlockTreeEntryMethods}

\* The kinds with an owned and a borrowed type, both of which can be copied
\* into an owned one.
Both == {"Hash", "Header", "Transaction", "TxIn", "TxOut", "OutPoint", "Txid",
         "Script", "SpentOutputs", "TxSpent", "Coin"}
\* The kinds with a Clone and no borrowed type of their own: a
\* BlockValidationStateRef is given to callbacks only.
OwnedOnly == {"Block", "ValidationState", "PrecomputedTxData"}
\* The kinds that can be owned, and those that are references only.
Ownable == Both \cup OwnedOnly \cup {"Manager"}
RefOnly == {"Chain", "Entry", "ChainIter", "TransactionIter", "TxInIter",
            "TxOutIter", "SpentIter", "CoinIter", "Bytes"}
Kind == Ownable \cup RefOnly

Free == <<"none", "none">>

ASSUME RootsAssumption == Roots \subseteq Ownable

\* A value, with the variables it borrows directly or through others.
Value == [kind : Kind, mode : {"owned", "ref"}, mem : Mem, loans : SUBSET Slot]
Empty == [kind |-> "empty", mode |-> "none", mem |-> NoMem, loans |-> {}]

\* The state has its type, and only references borrow, all of them.
TypeOK ==
    /\ val \in [Slot -> Value \cup {Empty}]
    /\ \A s \in Slot : val[s].mode = "ref" <=> val[s].loans # {}
    /\ alloc \in [Mem -> (Kind \X Kind) \cup {Free}]

Init ==
    /\ val = [s \in Slot |-> Empty]
    /\ alloc = [x \in Mem |-> Free]

-----------------------------------------------------------------------------

Live(s) == val[s].mode # "none"

Put(s, kind, mode, x, loans) ==
    val' = [val EXCEPT ![s] =
              [kind |-> kind, mode |-> mode, mem |-> x, loans |-> loans]]

\* A constructor, a reader of the manager, or a block given to a callback:
\* the library allocates, and Rust owns.
New(d, k, x) ==
    /\ ~Live(d) /\ alloc[x] = Free
    /\ alloc' = [alloc EXCEPT ![x] = <<k, k>>]
    /\ Put(d, k, "owned", x, {})

\* What the result of method a on s borrows.
Borrows(s, a) ==
    CASE a.tie = "self" -> {s} \cup val[s].loans
      [] a.tie = "same" -> val[s].loans
      [] a.tie = "none" -> {}

CallView(s, d, a) ==
    /\ Live(s) /\ ~Live(d) /\ val[s].kind = a.on /\ a.c = "view"
    /\ Put(d, a.to, a.rust, val[s].mem, Borrows(s, a))
    /\ UNCHANGED alloc

CallNew(s, d, a, x) ==
    /\ Live(s) /\ ~Live(d) /\ val[s].kind = a.on /\ a.c = "new"
    /\ alloc[x] = Free
    /\ alloc' = [alloc EXCEPT ![x] = <<a.on, a.to>>]
    /\ Put(d, a.to, a.rust, x, Borrows(s, a))

\* Mutant: to_owned keeps the pointer.
CopiedPointer(s, x) == IF val[s].mode = "ref" THEN x = val[s].mem ELSE alloc[x] = Free

\* Handle::copy allocates.
Copied(s, x) == alloc[x] = Free

\* Clone of an owned value, to_owned of a reference.
ToOwned(s, d, x) ==
    /\ Live(s) /\ ~Live(d) /\ val[s].kind \in Both \cup OwnedOnly
    /\ Copied(s, x)
    /\ alloc' = [alloc EXCEPT ![x] = <<val[s].kind, val[s].kind>>]
    /\ Put(d, val[s].kind, "owned", x, {})

AsRef(s, d) ==
    /\ Live(s) /\ ~Live(d) /\ val[s].mode = "owned" /\ val[s].kind \in Both
    /\ Put(d, val[s].kind, "ref", val[s].mem, {s})
    /\ UNCHANGED alloc

\* References, slices, the Chain and the entries of the tree are Copy;
\* iterators are not.
CopyRef(s, d) ==
    /\ Live(s) /\ ~Live(d) /\ val[s].mode = "ref"
    /\ val[s].kind \in Both \cup {"Chain", "Entry", "Bytes"}
    /\ Put(d, val[s].kind, "ref", val[s].mem, val[s].loans)
    /\ UNCHANGED alloc

\* The borrow checker: a value is not dropped while another borrows it.
Borrowed(s) == \E t \in Slot : s \in val[t].loans

\* Mutant: Drop is missing for BlockHeader.
DestroyedMostly(v) ==
    IF v.kind = "Header" THEN alloc ELSE [alloc EXCEPT ![v.mem] = Free]

\* The handles left when the one of v is destroyed.
Destroyed(v) == [alloc EXCEPT ![v.mem] = Free]

DropOwned(s) ==
    /\ Live(s) /\ ~Borrowed(s) /\ val[s].mode = "owned"
    /\ alloc' = Destroyed(val[s])
    /\ val' = [val EXCEPT ![s] = Empty]

\* References have no Drop.
DropRef(s) ==
    /\ Live(s) /\ ~Borrowed(s) /\ val[s].mode = "ref"
    /\ val' = [val EXCEPT ![s] = Empty]
    /\ UNCHANGED alloc

Step(s) ==
    \/ \E k \in Roots, x \in Mem : New(s, k, x)
    \/ \E d \in Slot, a \in Methods : CallView(s, d, a)
    \/ \E d \in Slot, a \in Methods, x \in Mem : CallNew(s, d, a, x)
    \/ \E d \in Slot, x \in Mem : ToOwned(s, d, x)
    \/ \E d \in Slot : AsRef(s, d) \/ CopyRef(s, d)
    \/ DropOwned(s) \/ DropRef(s)

Next == \E s \in Slot : Step(s)

Spec == Init /\ [][Next]_vars

-----------------------------------------------------------------------------
(* Properties. *)

\* No value points to memory that was freed: the lifetimes in the signatures
\* of the methods keep every reference, at the end of any chain of accessors,
\* iterators and copies, within the life of the handle it points into.
NoDangling == \A s \in Slot : Live(s) => alloc[val[s].mem] # Free

\* No handle is destroyed twice: no two owned values have the same one.
OneOwner ==
    \A s, t \in Slot :
        /\ val[s].mode = "owned" /\ val[t].mode = "owned"
        /\ val[s].mem = val[t].mem
        => s = t

Owner(x) == \E s \in Slot : val[s].mode = "owned" /\ val[s].mem = x

\* Every handle but those BlockTreeEntry::header got from an entry belongs to
\* an owned value, whose drop destroys it: the headers of blocks and the copies
\* of headers are not lost.
OnlyEntryHeadersLeak ==
    \A x \in Mem : alloc[x] \notin {Free, <<"Entry", "Header">>} => Owner(x)

\* bitcoinkernel.h: "The user is responsible for de-allocating the memory
\* owned by pointers returned by functions": every handle the library gave
\* out belongs to an owned value.
NoLeak == \A x \in Mem : alloc[x] # Free => Owner(x)
=============================================================================
