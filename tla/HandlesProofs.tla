--------------------------- MODULE HandlesProofs ----------------------------
(***************************************************************************)
(* The wrappers of library objects are memory safe, for any number of      *)
(* variables and handles.  The inductive invariant says that the memory of *)
(* a reference belongs to one of the variables it borrows, or to no value  *)
(* at all (a leaked header, which is never freed).                         *)
(***************************************************************************)
EXTENDS Handles, TLAPS

\* Owned values are of kinds that can be owned and their handle is allocated.
OwnedInv ==
    \A s \in Slot : val[s].mode = "owned" =>
        val[s].kind \in Ownable /\ alloc[val[s].mem] # Free

\* The memory of a reference is allocated, and whoever may free it is
\* borrowed.
RefOK(r) ==
    /\ alloc[val[r].mem] # Free
    /\ \/ \E o \in val[r].loans :
            val[o].mode = "owned" /\ val[o].mem = val[r].mem
       \/ ~Owner(val[r].mem)
RefInv == \A r \in Slot : val[r].mode = "ref" => RefOK(r)

IInv == TypeOK /\ OwnedInv /\ OneOwner /\ RefInv /\ OnlyEntryHeadersLeak

\* What the proof needs of a method: what Rust owns the library allocated,
\* what it borrows is tied, and only references hand on their own lifetime.
Sound(a) ==
    /\ a.on \in Kind /\ a.to \in Kind /\ a.rust \in {"owned", "ref"}
    /\ a.rust = "owned" => a.c = "new" /\ a.to \in Ownable /\ a.tie = "none"
    /\ a.rust = "ref" => a.tie \in {"self", "same"}
    /\ a.c = "view" => a.rust = "ref"
    /\ a.tie = "same" => a.on \in RefOnly
    /\ a.c = "new" /\ a.rust = "ref" => a.on = "Entry" /\ a.to = "Header"

\* All methods of the tables are sound in this sense.
LEMMA MethodsSound == \A a \in Methods : Sound(a)
<1> USE DEF Sound, Owned, View, Same, Kind, Ownable, Both, OwnedOnly, RefOnly
<1>1. \A a \in BlockMethods : Sound(a)
  BY DEF BlockMethods
<1>2. \A a \in BlockHeaderMethods : Sound(a)
  BY DEF BlockHeaderMethods
<1>3. \A a \in BlockTransactionIter : Sound(a)
  BY DEF BlockTransactionIter
<1>4. \A a \in TransactionMethods : Sound(a)
  BY DEF TransactionMethods
<1>5. \A a \in TxInIter \cup TxOutIter : Sound(a)
  BY DEF TxInIter, TxOutIter
<1>6. \A a \in TxOutMethods \cup TxInMethods \cup TxOutPointMethods : Sound(a)
  BY DEF TxOutMethods, TxInMethods, TxOutPointMethods
<1>13. \A a \in ScriptPubkeyMethods : Sound(a)
  BY DEF ScriptPubkeyMethods
<1>7. \A a \in BlockSpentOutputsMethods \cup BlockSpentOutputsIter : Sound(a)
  BY DEF BlockSpentOutputsMethods, BlockSpentOutputsIter
<1>8. \A a \in TransactionSpentOutputsMethods : Sound(a)
  BY DEF TransactionSpentOutputsMethods
<1>9. \A a \in TransactionSpentOutputsIter \cup CoinMethods : Sound(a)
  BY DEF TransactionSpentOutputsIter, CoinMethods
<1>10. \A a \in ChainstateManagerMethods : Sound(a)
  BY DEF ChainstateManagerMethods
<1>11. \A a \in ChainMethods \cup ChainIterator : Sound(a)
  BY DEF ChainMethods, ChainIterator
<1>12. \A a \in BlockTreeEntryMethods : Sound(a)
  BY DEF BlockTreeEntryMethods
<1> HIDE DEF Sound, Owned, View, Same, Kind, Ownable, Both, OwnedOnly, RefOnly
<1> QED
  BY <1>1, <1>2, <1>3, <1>4, <1>5, <1>6, <1>7, <1>8, <1>9, <1>10, <1>11,
     <1>12, <1>13 DEF Methods

\* A kind that is a reference only cannot be owned.
LEMMA KindsDisjoint == Ownable \cap RefOnly = {} /\ Ownable \subseteq Kind
  BY DEF Ownable, OwnedOnly, RefOnly, Both, Kind

\* What is allocated is not free.
LEMMA AllocatedNotFree == \A h \in Kind \X Kind : h # Free
<1>1. "none" \notin Kind
  BY DEF Kind, Ownable, OwnedOnly, Both, RefOnly
<1> QED
  BY <1>1 DEF Free

\* A variable in use holds a value.
LEMMA LiveValue ==
    ASSUME TypeOK, NEW s \in Slot, Live(s)
    PROVE  /\ val[s] \in Value
           /\ val[s].mode \in {"owned", "ref"} /\ val[s].mem \in Mem
           /\ val[s].loans \subseteq Slot
  BY DEF TypeOK, Live, Value, Empty

\* Filling a variable that is not in use keeps the type.
LEMMA PutTyped ==
    ASSUME TypeOK, NEW d \in Slot, NEW k \in Kind, NEW mode \in {"owned", "ref"},
           NEW x \in Mem, NEW l \in SUBSET Slot, mode = "ref" <=> l # {},
           Put(d, k, mode, x, l)
    PROVE  /\ val' \in [Slot -> Value \cup {Empty}]
           /\ \A s \in Slot : val'[s].mode = "ref" <=> val'[s].loans # {}
           /\ \A s \in Slot \ {d} : val'[s] = val[s]
           /\ val'[d].kind = k /\ val'[d].mode = mode /\ val'[d].mem = x
           /\ val'[d].loans = l
<1> DEFINE v == [kind |-> k, mode |-> mode, mem |-> x, loans |-> l]
<1>1. v \in Value /\ v.kind = k /\ v.mode = mode /\ v.mem = x /\ v.loans = l
  BY DEF Value
<1>2. val' = [val EXCEPT ![d] = v]
  BY Zenon DEF Put
<1> HIDE DEF v
<1>3. val'[d] = v /\ \A s \in Slot \ {d} : val'[s] = val[s]
  BY <1>2 DEF TypeOK
<1>4. val' \in [Slot -> Value \cup {Empty}]
  BY Zenon, <1>1, <1>2 DEF TypeOK
<1> QED
  BY <1>1, <1>3, <1>4 DEF TypeOK

\* Filling a variable does not disturb the references there are, unless the
\* new value owns their memory.
LEMMA OldRefs ==
    ASSUME IInv, NEW d \in Slot, ~Live(d),
           \A s \in Slot \ {d} : val'[s] = val[s],
           \A x \in Mem : alloc[x] # Free => alloc'[x] # Free,
           val'[d].mode = "owned" => alloc[val'[d].mem] = Free,
           NEW r \in Slot \ {d}, val'[r].mode = "ref"
    PROVE  RefOK(r)'
<1>1. val'[r] = val[r] /\ RefOK(r) /\ val[r].mem \in Mem /\ val[r].loans \subseteq Slot
  BY LiveValue DEF IInv, RefInv, Live
<1>2. alloc'[val'[r].mem] # Free
  BY Zenon, <1>1 DEF RefOK
<1>3. CASE \E o \in val[r].loans : val[o].mode = "owned" /\ val[o].mem = val[r].mem
  <2>1. PICK o \in val[r].loans : val[o].mode = "owned" /\ val[o].mem = val[r].mem
    BY Zenon, <1>3
  <2>2. o \in Slot \ {d}
    BY Zenon, <1>1, <2>1 DEF Live
  <2> QED
    BY <1>1, <1>2, <2>1, <2>2 DEF RefOK
<1>4. CASE ~Owner(val[r].mem)
  <2>1. \A s \in Slot : ~(val'[s].mode = "owned" /\ val'[s].mem = val'[r].mem)
    BY <1>1, <1>4 DEF Owner, RefOK
  <2> QED
    BY Zenon, <1>2, <2>1 DEF RefOK, Owner
<1> QED
  BY Zenon, <1>1, <1>3, <1>4 DEF RefOK

\* Nor does it take a handle from its owner.
LEMMA OldOwners ==
    ASSUME NEW d \in Slot, ~Live(d), \A s \in Slot \ {d} : val'[s] = val[s]
    PROVE  /\ \A x \in Mem : Owner(x) => Owner(x)'
           /\ val'[d].mode = "owned" => Owner(val[d].mem)'
  BY DEF Owner, Live

\* A new handle with its owned value.
LEMMA PutOwned ==
    ASSUME IInv, NEW d \in Slot, ~Live(d), NEW k \in Ownable,
           NEW x \in Mem, alloc[x] = Free,
           NEW on \in Kind, alloc' = [alloc EXCEPT ![x] = <<on, k>>],
           Put(d, k, "owned", x, {})
    PROVE  IInv'
<1>1. /\ val' \in [Slot -> Value \cup {Empty}]
      /\ \A s \in Slot : val'[s].mode = "ref" <=> val'[s].loans # {}
      /\ \A s \in Slot \ {d} : val'[s] = val[s]
      /\ val'[d].kind = k /\ val'[d].mode = "owned" /\ val'[d].mem = x
      /\ val'[d].loans = {}
  BY PutTyped, KindsDisjoint DEF IInv
<1>0. <<on, k>> \in Kind \X Kind
  BY KindsDisjoint
<1>2. /\ <<on, k>> # Free /\ alloc' \in [Mem -> (Kind \X Kind) \cup {Free}]
      /\ alloc'[x] = <<on, k>> /\ \A y \in Mem \ {x} : alloc'[y] = alloc[y]
  BY Zenon, <1>0, AllocatedNotFree DEF IInv, TypeOK
<1>3. TypeOK'
  BY Zenon, <1>1, <1>2 DEF TypeOK
<1>4. \A s \in Slot : val[s].mode \in {"owned", "ref"} => val[s].mem # x
  BY Zenon DEF IInv, OwnedInv, RefInv, RefOK
<1>5. OwnedInv' /\ OneOwner'
  BY <1>1, <1>2, <1>4 DEF IInv, OwnedInv, OneOwner, TypeOK
<1>6. RefInv'
  <2>1. \A y \in Mem : alloc[y] # Free => alloc'[y] # Free
    BY Zenon, <1>2 DEF IInv, TypeOK
  <2>2. \A r \in Slot \ {d} : val'[r].mode = "ref" => RefOK(r)'
    BY Zenon, <1>1, <2>1, OldRefs
  <2> QED
    BY Zenon, <1>1, <2>2 DEF RefInv
<1>7. OnlyEntryHeadersLeak'
  <2>1. Owner(x)'
    BY Zenon, <1>1 DEF Owner
  <2> QED
    BY Zenon, <1>1, <1>2, <2>1, OldOwners DEF IInv, OnlyEntryHeadersLeak
<1> QED
  BY Zenon, <1>3, <1>5, <1>6, <1>7 DEF IInv

\* A view of the memory of s, which borrows s or all that s borrows.
LEMMA PutRef ==
    ASSUME IInv, NEW s \in Slot, Live(s), NEW d \in Slot, ~Live(d),
           NEW k \in Kind, NEW l \in SUBSET Slot, l # {},
           val[s].loans \subseteq l, val[s].mode = "owned" => s \in l,
           Put(d, k, "ref", val[s].mem, l), UNCHANGED alloc
    PROVE  IInv'
<1> DEFINE x == val[s].mem
<1>1. x \in Mem /\ val[s].mode \in {"owned", "ref"} /\ s # d
  BY Zenon, LiveValue DEF IInv
<1>2. /\ val' \in [Slot -> Value \cup {Empty}]
      /\ \A t \in Slot : val'[t].mode = "ref" <=> val'[t].loans # {}
      /\ \A t \in Slot \ {d} : val'[t] = val[t]
      /\ val'[d].kind = k /\ val'[d].mode = "ref" /\ val'[d].mem = x
      /\ val'[d].loans = l
  BY <1>1, PutTyped DEF IInv
<1> HIDE DEF x
<1>3. TypeOK' /\ OwnedInv' /\ OneOwner'
  BY <1>2 DEF IInv, TypeOK, OwnedInv, OneOwner
<1>4. \A r \in Slot \ {d} : val'[r].mode = "ref" => RefOK(r)'
  BY <1>2, OldRefs
<1>5. RefOK(d)'
  <2>1. alloc[x] # Free
    BY Zenon, <1>1 DEF x, IInv, OwnedInv, RefInv, RefOK
  <2>2. CASE val[s].mode = "owned"
    BY Zenon, <1>1, <1>2, <2>1, <2>2 DEF x, RefOK
  <2>3. CASE val[s].mode = "ref"
    <3>1. CASE \E o \in val[s].loans : val[o].mode = "owned" /\ val[o].mem = x
      <4>1. PICK o \in val[s].loans : val[o].mode = "owned" /\ val[o].mem = x
        BY <3>1
      <4>2. o \in l /\ o \in Slot \ {d}
        BY Zenon, <4>1, LiveValue DEF IInv, Live
      <4> QED
        BY <1>2, <2>1, <4>1, <4>2 DEF RefOK
    <3>2. CASE ~Owner(x)
      BY <1>2, <2>1, <3>2 DEF RefOK, Owner, Live
    <3> QED
      BY Zenon, <2>3, <3>1, <3>2 DEF x, IInv, RefInv, RefOK
  <2> QED
    BY Zenon, <1>1, <2>2, <2>3
<1>6. OnlyEntryHeadersLeak'
  BY Zenon, <1>2, OldOwners DEF IInv, OnlyEntryHeadersLeak
<1> QED
  BY Zenon, <1>3, <1>4, <1>5, <1>6 DEF IInv, RefInv

\* The header of a tree entry: a new handle that no value owns.
LEMMA PutUnowned ==
    ASSUME IInv, NEW d \in Slot, ~Live(d), NEW l \in SUBSET Slot, l # {},
           NEW x \in Mem, alloc[x] = Free,
           alloc' = [alloc EXCEPT ![x] = <<"Entry", "Header">>],
           Put(d, "Header", "ref", x, l)
    PROVE  IInv'
<1>1. /\ val' \in [Slot -> Value \cup {Empty}]
      /\ \A t \in Slot : val'[t].mode = "ref" <=> val'[t].loans # {}
      /\ \A t \in Slot \ {d} : val'[t] = val[t]
      /\ val'[d].kind = "Header" /\ val'[d].mode = "ref" /\ val'[d].mem = x
      /\ val'[d].loans = l
  <2>1. "Header" \in Kind /\ "ref" \in {"owned", "ref"} /\ TypeOK
    BY Zenon DEF IInv, Kind, Ownable, Both
  <2>. QED BY <2>1, PutTyped
<1> DEFINE h == <<"Entry", "Header">>
<1>11. h \in Kind \X Kind /\ h # Free
  <2>1. "Entry" \in Kind /\ "Header" \in Kind
    BY Zenon DEF Kind, Ownable, Both, RefOnly
  <2> QED
    BY <2>1, AllocatedNotFree
<1> HIDE DEF h
<1>2. alloc' \in [Mem -> (Kind \X Kind) \cup {Free}]
  BY Zenon, <1>11 DEF h, IInv, TypeOK
<1>3. \A y \in Mem : y # x => alloc'[y] = alloc[y]
  BY Zenon DEF IInv, TypeOK
<1>4. alloc'[x] = h /\ alloc'[x] # Free
  BY Zenon, <1>11 DEF h, IInv, TypeOK
<1>5. TypeOK'
  BY Zenon, <1>1, <1>2 DEF TypeOK
<1>6. \A s \in Slot : val[s].mode = "owned" => val[s].mem # x /\ val[s].mem \in Mem
  BY Zenon, LiveValue DEF IInv, OwnedInv, Live
<1>7. OwnedInv' /\ OneOwner'
  BY <1>1, <1>3, <1>6 DEF IInv, OwnedInv, OneOwner
<1>8. RefOK(d)'
  BY <1>1, <1>4, <1>6 DEF RefOK, Owner
<1>9. \A r \in Slot \ {d} : val'[r].mode = "ref" => RefOK(r)'
  BY <1>1, <1>3, <1>4, OldRefs
<1>10. OnlyEntryHeadersLeak'
  BY Zenon, <1>1, <1>3, <1>4, OldOwners DEF h, IInv, OnlyEntryHeadersLeak
<1> QED
  BY Zenon, <1>5, <1>7, <1>8, <1>9, <1>10 DEF IInv, RefInv

\* Emptying a variable, and what is left then.
LEMMA Emptied ==
    ASSUME TypeOK, NEW t \in Slot, val' = [val EXCEPT ![t] = Empty]
    PROVE  /\ val' \in [Slot -> Value \cup {Empty}]
           /\ \A s \in Slot : val'[s].mode = "ref" <=> val'[s].loans # {}
           /\ \A s \in Slot \ {t} : val'[s] = val[s]
           /\ val'[t].mode = "none"
<1>1. val'[t] = Empty /\ \A s \in Slot \ {t} : val'[s] = val[s]
  BY Zenon DEF TypeOK
<1>2. val' \in [Slot -> Value \cup {Empty}]
  BY Zenon DEF TypeOK
<1> QED
  BY <1>1, <1>2 DEF TypeOK, Empty

\* Dropping an owned value: no reference into its memory is left, since it
\* would borrow the variable.
LEMMA DropOwnedStep ==
    ASSUME IInv, NEW t \in Slot, DropOwned(t)
    PROVE  IInv'
<1> DEFINE x == val[t].mem
<1>1. x \in Mem /\ val[t].mode = "owned" /\ ~Borrowed(t)
  BY Zenon, LiveValue DEF DropOwned, IInv
<1>2. alloc' = [alloc EXCEPT ![x] = Free] /\ val' = [val EXCEPT ![t] = Empty]
  BY DEF DropOwned, Destroyed
<1> HIDE DEF x
<1>3. /\ alloc' \in [Mem -> (Kind \X Kind) \cup {Free}]
      /\ \A y \in Mem : y # x => alloc'[y] = alloc[y]
      /\ alloc'[x] = Free
  BY Zenon, <1>1, <1>2 DEF IInv, TypeOK
<1>4. /\ val' \in [Slot -> Value \cup {Empty}]
      /\ \A s \in Slot : val'[s].mode = "ref" <=> val'[s].loans # {}
      /\ \A s \in Slot \ {t} : val'[s] = val[s]
      /\ val'[t].mode = "none"
  BY Zenon, <1>2, Emptied DEF IInv
<1>5. \A s \in Slot \ {t} : val[s].mode = "owned" => val[s].mem \in Mem \ {x}
  BY Zenon, <1>1, LiveValue DEF x, IInv, OneOwner, Live
<1>6. TypeOK' /\ OwnedInv' /\ OneOwner'
  BY <1>3, <1>4, <1>5 DEF IInv, TypeOK, OwnedInv, OneOwner
<1>7. ASSUME NEW r \in Slot, val'[r].mode = "ref" PROVE RefOK(r)'
  <2>1. r # t /\ val'[r] = val[r] /\ val[r].mem \in Mem /\ val[r].loans \subseteq Slot
    BY <1>4, <1>7, LiveValue DEF IInv, Live
  <2>2. RefOK(r)
    BY Zenon, <1>7, <2>1 DEF IInv, RefInv
  <2>3. CASE \E o \in val[r].loans : val[o].mode = "owned" /\ val[o].mem = val[r].mem
    <3>1. PICK o \in val[r].loans : val[o].mode = "owned" /\ val[o].mem = val[r].mem
      BY Zenon, <2>3
    <3>2. o \in Slot \ {t}
      BY Zenon, <1>1, <2>1, <3>1 DEF Borrowed
    <3>3. val[r].mem # x
      BY Zenon, <1>5, <3>1, <3>2
    <3> QED
      BY <1>3, <1>4, <2>1, <2>2, <3>1, <3>2, <3>3 DEF RefOK
  <2>4. CASE ~Owner(val[r].mem)
    <3>1. val[r].mem # x
      BY Zenon, <1>1, <2>4 DEF x, Owner
    <3>2. \A s \in Slot : ~(val'[s].mode = "owned" /\ val'[s].mem = val'[r].mem)
      BY Zenon, <1>4, <2>1, <2>4 DEF Owner
    <3> QED
      BY <1>3, <2>1, <2>2, <3>1, <3>2 DEF RefOK, Owner
  <2> QED
    BY Zenon, <2>2, <2>3, <2>4 DEF RefOK
<1>8. OnlyEntryHeadersLeak'
  <2> SUFFICES ASSUME NEW y \in Mem, alloc'[y] \notin {Free, <<"Entry", "Header">>}
               PROVE  Owner(y)'
    BY Zenon DEF OnlyEntryHeadersLeak
  <2>1. y # x /\ Owner(y)
    BY <1>1, <1>3 DEF IInv, OnlyEntryHeadersLeak
  <2>2. PICK s \in Slot : val[s].mode = "owned" /\ val[s].mem = y
    BY Zenon, <2>1 DEF Owner
  <2>3. val'[s] = val[s]
    BY <1>4, <2>1, <2>2 DEF x
  <2> QED
    BY <2>2, <2>3 DEF Owner
<1> QED
  BY <1>6, <1>7, <1>8 DEF IInv, RefInv

\* Dropping a reference frees nothing.
LEMMA DropRefStep ==
    ASSUME IInv, NEW t \in Slot, DropRef(t)
    PROVE  IInv'
<1>1. val[t].mode = "ref" /\ alloc' = alloc
  BY Zenon DEF DropRef
<1>2. /\ val' \in [Slot -> Value \cup {Empty}]
      /\ \A s \in Slot : val'[s].mode = "ref" <=> val'[s].loans # {}
      /\ \A s \in Slot \ {t} : val'[s] = val[s]
      /\ val'[t].mode = "none"
  BY Zenon, Emptied DEF IInv, DropRef
<1>3. TypeOK' /\ OwnedInv' /\ OneOwner'
  BY <1>1, <1>2 DEF IInv, TypeOK, OwnedInv, OneOwner
<1>4. \A x \in Mem : Owner(x)' <=> Owner(x)
  BY <1>1, <1>2 DEF Owner
<1>5. ASSUME NEW r \in Slot, val'[r].mode = "ref" PROVE RefOK(r)'
  <2>1. val'[r] = val[r] /\ val[r].mem \in Mem /\ val[r].loans \subseteq Slot
    BY Zenon, <1>2, <1>5, LiveValue DEF IInv, Live
  <2>2. RefOK(r)
    BY Zenon, <1>5, <2>1 DEF IInv, RefInv
  <2>3. \A o \in val[r].loans : val[o].mode = "owned" => val'[o] = val[o]
    BY Zenon, <1>1, <1>2, <2>1
  <2>4. Owner(val[r].mem)' <=> Owner(val[r].mem)
    BY <1>1, <1>2, <2>1 DEF Owner
  <2> QED
    BY Zenon, <1>1, <2>1, <2>2, <2>3, <2>4 DEF RefOK
<1>6. OnlyEntryHeadersLeak'
  BY <1>1, <1>4 DEF IInv, OnlyEntryHeadersLeak
<1> QED
  BY <1>3, <1>5, <1>6 DEF IInv, RefInv

\* What the result of a sound method borrows: all its argument borrows, and
\* the argument itself when that is an owned value.
LEMMA BorrowsEnough ==
    ASSUME IInv, NEW s \in Slot, Live(s), NEW a \in Methods,
           val[s].kind = a.on
    PROVE  /\ Borrows(s, a) \in SUBSET Slot
           /\ a.rust = "owned" => Borrows(s, a) = {}
           /\ a.rust = "ref" => /\ Borrows(s, a) # {}
                                /\ val[s].loans \subseteq Borrows(s, a)
                                /\ val[s].mode = "owned" => s \in Borrows(s, a)
<1>1. Sound(a)
  BY Zenon, MethodsSound
<1>2. val[s].mode \in {"owned", "ref"} /\ val[s].loans \subseteq Slot
  BY LiveValue DEF IInv
<1>3. CASE a.rust = "owned"
  <2>1. Borrows(s, a) = {}
    BY Zenon, <1>1, <1>3 DEF Sound, Borrows
  <2> QED
    BY Zenon, <1>3, <2>1
<1>4. CASE a.rust = "ref" /\ a.tie = "self"
  <2>1. Borrows(s, a) = {s} \cup val[s].loans
    BY Zenon, <1>4 DEF Borrows
  <2> QED
    BY <1>2, <1>4, <2>1
<1>5. CASE a.rust = "ref" /\ a.tie = "same"
  <2>1. Borrows(s, a) = val[s].loans
    BY Zenon, <1>5 DEF Borrows
  <2>2. val[s].mode # "owned"
    BY Zenon, <1>1, <1>5, KindsDisjoint DEF Sound, IInv, OwnedInv
  <2>3. val[s].loans # {}
    BY <1>2, <2>2 DEF IInv, TypeOK
  <2> QED
    BY <1>2, <1>5, <2>1, <2>2, <2>3
<1> QED
  BY Zenon, <1>1, <1>3, <1>4, <1>5 DEF Sound

\* Every step preserves the invariant.
LEMMA StepInv ==
    ASSUME IInv, [Next]_vars
    PROVE  IInv'
<1>1. CASE UNCHANGED vars
  BY <1>1 DEF vars, IInv, TypeOK, OwnedInv, OneOwner, RefInv, RefOK, Owner,
              OnlyEntryHeadersLeak
<1>2. CASE Next
  <2>1. PICK s \in Slot : Step(s)
    BY Zenon, <1>2 DEF Next
  <2>2. CASE \E k \in Roots, x \in Mem : New(s, k, x)
    <3>1. PICK k \in Roots, x \in Mem : New(s, k, x)
      BY Zenon, <2>2
    <3>2. k \in Ownable /\ k \in Kind
      BY RootsAssumption, KindsDisjoint DEF RootsAssumption
    <3> QED
      BY Zenon, <3>1, <3>2, PutOwned DEF New
  <2>3. CASE \E d \in Slot, a \in Methods : CallView(s, d, a)
    <3>1. PICK d \in Slot, a \in Methods : CallView(s, d, a)
      BY <2>3
    <3>2. a.to \in Kind /\ a.rust = "ref"
      BY <3>1, MethodsSound DEF Sound, CallView
    <3>3. /\ Borrows(s, a) \in SUBSET Slot /\ Borrows(s, a) # {}
          /\ val[s].loans \subseteq Borrows(s, a)
          /\ val[s].mode = "owned" => s \in Borrows(s, a)
      BY Zenon, <3>1, <3>2, BorrowsEnough DEF CallView
    <3>4. /\ Live(s) /\ ~Live(d) /\ UNCHANGED alloc
          /\ Put(d, a.to, "ref", val[s].mem, Borrows(s, a))
      BY Zenon, <3>1, <3>2 DEF CallView
    <3> QED
      BY Zenon, <3>2, <3>3, <3>4, PutRef
  <2>4. CASE \E d \in Slot, a \in Methods, x \in Mem : CallNew(s, d, a, x)
    <3>1. PICK d \in Slot, a \in Methods, x \in Mem : CallNew(s, d, a, x)
      BY Zenon, <2>4
    <3>2. /\ Live(s) /\ ~Live(d) /\ val[s].kind = a.on /\ alloc[x] = Free
          /\ alloc' = [alloc EXCEPT ![x] = <<a.on, a.to>>]
          /\ Put(d, a.to, a.rust, x, Borrows(s, a))
      BY Zenon, <3>1 DEF CallNew
    <3>3. CASE a.rust = "owned"
      <4>1. a.to \in Ownable /\ a.on \in Kind
        BY Zenon, <3>3, MethodsSound DEF Sound
      <4>2. Borrows(s, a) = {}
        BY Zenon, <3>2, <3>3, BorrowsEnough
      <4> QED
        BY Zenon, <3>2, <3>3, <4>1, <4>2, PutOwned
    <3>4. CASE a.rust = "ref"
      <4>1. a.on = "Entry" /\ a.to = "Header"
        BY Zenon, <3>1, <3>4, MethodsSound DEF Sound, CallNew
      <4>2. Borrows(s, a) \in SUBSET Slot /\ Borrows(s, a) # {}
        BY Zenon, <3>2, <3>4, BorrowsEnough
      <4> QED
        BY Zenon, <3>2, <3>4, <4>1, <4>2, PutUnowned
    <3> QED
      BY <3>3, <3>4, MethodsSound DEF Sound
  <2>5. CASE \E d \in Slot, x \in Mem : ToOwned(s, d, x)
    <3>1. PICK d \in Slot, x \in Mem : ToOwned(s, d, x)
      BY <2>5
    <3>2. val[s].kind \in Ownable /\ val[s].kind \in Kind
      BY Zenon, <3>1, KindsDisjoint DEF ToOwned, Ownable
    <3> QED
      BY Zenon, <3>1, <3>2, PutOwned DEF ToOwned, Copied
  <2>6. CASE \E d \in Slot : AsRef(s, d)
    <3>1. PICK d \in Slot : AsRef(s, d)
      BY <2>6
    <3>2. val[s].kind \in Kind /\ val[s].loans = {}
      BY Zenon, <3>1 DEF AsRef, Kind, Ownable, IInv, TypeOK
    <3> QED
      BY <3>1, <3>2, PutRef DEF AsRef
  <2>7. CASE \E d \in Slot : CopyRef(s, d)
    <3>1. PICK d \in Slot : CopyRef(s, d)
      BY <2>7
    <3>2. val[s].kind \in Kind /\ val[s].loans # {} /\ val[s].loans \subseteq Slot
      BY <3>1, LiveValue DEF CopyRef, Kind, Ownable, RefOnly, IInv, TypeOK
    <3> QED
      BY Zenon, <3>1, <3>2, PutRef DEF CopyRef
  <2>8. CASE DropOwned(s)
    BY Zenon, <2>8, DropOwnedStep
  <2>9. CASE DropRef(s)
    BY <2>9, DropRefStep
  <2> QED
    BY <2>1, <2>2, <2>3, <2>4, <2>5, <2>6, <2>7, <2>8, <2>9 DEF Step
<1> QED
  BY Zenon, <1>1, <1>2

\* The program starts with no values.
LEMMA InitInv == ASSUME Init PROVE IInv
<1>1. \A s \in Slot : val[s] = Empty
  BY Zenon DEF Init
<1>2. TypeOK
  BY DEF Init, TypeOK, Empty
<1>3. OwnedInv /\ OneOwner /\ RefInv
  BY <1>1 DEF OwnedInv, OneOwner, RefInv, Empty
<1>4. OnlyEntryHeadersLeak
  BY DEF Init, OnlyEntryHeadersLeak
<1> QED
  BY <1>2, <1>3, <1>4 DEF IInv

\* The invariant of the argument holds in every reachable state, however many
\* variables and handles the program uses.
THEOREM Inductive == Spec => []IInv
<1>1. Init => IInv
  BY InitInv
<1>2. IInv /\ [Next]_vars => IInv'
  BY StepInv
<1> QED
  BY <1>1, <1>2, PTL DEF Spec

\* The state keeps its type, and references are the values that borrow.
THEOREM TypeCorrect == Spec => []TypeOK
<1>1. IInv => TypeOK
  BY DEF IInv
<1> QED
  BY <1>1, Inductive, PTL

\* Nothing the methods of the wrappers return can outlive the handle it
\* points into.
THEOREM MemorySafe == Spec => []NoDangling
<1>1. IInv => NoDangling
  BY LiveValue DEF IInv, NoDangling, OwnedInv, RefInv, RefOK
<1> QED
  BY <1>1, Inductive, PTL

\* No handle is destroyed by the drops of two values.
THEOREM DestroyedOnce == Spec => []OneOwner
<1>1. IInv => OneOwner
  BY DEF IInv
<1> QED
  BY <1>1, Inductive, PTL

\* The headers BlockTreeEntry::header returns are all that is ever lost.
THEOREM LeaksEntryHeadersOnly == Spec => []OnlyEntryHeadersLeak
<1>1. IInv => OnlyEntryHeadersLeak
  BY DEF IInv
<1> QED
  BY <1>1, Inductive, PTL
=============================================================================
