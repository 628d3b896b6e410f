--------------------------- MODULE ChainmanProofs ---------------------------
(***************************************************************************)
(* Proofs about Chainman, for any block tree, any verdicts, any number of  *)
(* threads and any set of faults: the inductive invariant, with the types, *)
(* the locks, the bookkeeping of stored and linked blocks, the failure     *)
(* flags and the active chain; then the tip other threads see, which never *)
(* gets worse, so that Chainman implements BestChain; and the best header. *)
(***************************************************************************)
EXTENDS Chainman, TLAPS

\* m_chainstate_mutex is held exactly inside ActivateBestChain, cs_main
\* exactly inside the sections that take several actions.
LockInv ==
    \A t \in Thread : /\ pc[t] \in Activating <=> chainMutex = t
                      /\ pc[t] \in Locked <=> csMain = t

\* FailureFlagsExact needs that only indexed blocks are flagged: the header
\* of a flagged block is never inserted a second time.
FlagInv == failed \subseteq index /\ FailureFlagsExact

\* The blocks whose nSequenceId is still to be given: those in the queue have
\* a linked parent, those in m_blocks_unlinked do not; each is there once.
Fresh(x) == x \in have \ linked /\ x # Genesis

QueueInv ==
    \A i \in 1 .. Len(queue) :
        /\ Fresh(queue[i]) /\ Prev[queue[i]] \in linked
        /\ \A k \in 1 .. Len(queue) : queue[i] = queue[k] => i = k

UnlinkedInv ==
    \A p \in Block : \A i \in 1 .. Len(unlinked[p]) :
        /\ Fresh(unlinked[p][i]) /\ Prev[unlinked[p][i]] = p /\ p \notin linked
        /\ \A k \in 1 .. Len(unlinked[p]) : unlinked[p][i] = unlinked[p][k] => i = k

\* HaveNumChainTxs means that the data of all ancestors is stored, and only
\* such blocks are candidates or the target of ActivateBestChain.
LinkedInv ==
    /\ Genesis \in linked /\ linked \subseteq have
    /\ \A b \in linked : Anc[b] \subseteq linked
    /\ candidates \subseteq linked
    /\ mostWork # NoBlock => mostWork \in linked

\* The locals of ActivateBestChain where they are used.
LocalInv ==
    /\ \A t \in Thread : pc[t] = "step" => mostWork # NoBlock
    /\ progressed = "yes" => newTip # NoBlock

TipInv == \A b \in Anc[tip] : b \in have /\ Verdict[b] = "valid"

IInv == /\ TypeOK /\ LockInv /\ FlagInv /\ QueueInv /\ UnlinkedInv
        /\ LinkedInv /\ LocalInv /\ TipInv

USE DEF locks, headers, flags, data, chain, abc, call, tips, env,
        Pc, Activating, Locked, MaybeBlock
-----------------------------------------------------------------------------
(* The block tree. *)

\* A block is its own ancestor, ancestry is transitive, and all blocks
\* descend from the genesis block.
LEMMA TreeFacts ==
    /\ Genesis \in Block /\ NoBlock \notin Block /\ NoThread \notin Thread
    /\ \A b \in Block : b \in Anc[b] /\ Anc[b] \subseteq Block /\ Genesis \in Anc[b]
    /\ \A b \in Block : b # Genesis => Prev[b] \in Block /\ Anc[b] = {b} \cup Anc[Prev[b]]
    /\ \A b \in Block : \A a \in Anc[b] : Anc[a] \subseteq Anc[b]
    /\ Verdict[Genesis] = "valid" /\ Anc[Genesis] = {Genesis}
<1>1. \A b \in Block : b \in Anc[b]
  BY TreeConstants DEF TreeConstants
<1>. QED BY Zenon, <1>1, TreeConstants DEF TreeConstants

\* The block of a call is a block, and its submitted copy one of three kinds.
LEMMA JobFacts ==
    ASSUME TypeOK, NEW t \in Thread
    PROVE  /\ job[t].blk \in Block
           /\ job[t].body \in {"good", "merkle", "witness"}
<1>1. job[t] \in Jobs \cup {NoJob}
  BY Zenon DEF TypeOK
<1>2. CASE job[t] = NoJob
  BY <1>2, TreeFacts DEF NoJob
<1>3. CASE job[t] \in Jobs
  BY Zenon, <1>3, TreeConstants DEF TreeConstants
<1>. QED BY Zenon, <1>1, <1>2, <1>3

-----------------------------------------------------------------------------
(* What the actions leave alone. *)

\* Which actions change which variables of the block tree.
TreeFrame(t) ==
    /\ \/ AcceptHeader(t) \/ RejectBody(t) \/ WriteFails(t) \/ StoreBlock(t)
       \/ ConnectInvalid(t) \/ UNCHANGED headers
    /\ NotifyHeaderTip(t) \/ UNCHANGED lastNotified
    /\ StoreBlock(t) \/ Link(t) \/ UNCHANGED data
    /\ RejectBody(t) \/ ConnectInvalid(t) \/ UNCHANGED failed
    /\ ConnectTip(t) \/ StepFails(t) \/ UNCHANGED undo

\* Which change the chain and the locals of ActivateBestChain.
ChainFrame(t) ==
    /\ \/ RejectBody(t) \/ Link(t) \/ Find(t) \/ ConnectTip(t)
       \/ ConnectInvalid(t) \/ UNCHANGED candidates
    /\ DisconnectTip(t) \/ ConnectTip(t) \/ UNCHANGED <<tip, ibd>>
    /\ DisconnectTip(t) \/ ConnectTip(t) \/ StepFails(t) \/ UNCHANGED coins
    /\ \/ LoopBegin(t) \/ Find(t) \/ ConnectTip(t) \/ ConnectInvalid(t)
       \/ StepFails(t) \/ Connected(t) \/ LeaveIdle(t) \/ Flush(t)
       \/ FlushFails(t) \/ UNCHANGED abc

\* Which change what listeners and callers were told.
ListenFrame(t) ==
    /\ DisconnectTip(t) \/ Connected(t) \/ UNCHANGED lsTip
    /\ LeaveMoved(t) \/ UNCHANGED tipSeen
    /\ \/ StepFails(t) \/ LeaveIdle(t) \/ LeaveMoved(t) \/ Flush(t)
       \/ FlushFails(t) \/ UNCHANGED shown
    /\ \/ Done(t) \/ RejectUnindexed(t) \/ RejectBody(t) \/ WriteFails(t)
       \/ ConnectTip(t) \/ ConnectInvalid(t) \/ StepFails(t) \/ UNCHANGED heard
    /\ WriteFails(t) \/ StoreBlock(t) \/ UNCHANGED announced
    /\ \/ StepFails(t) \/ LeaveIdle(t) \/ Flush(t) \/ FlushFails(t)
       \/ UNCHANGED stored
    /\ WriteFails(t) \/ StepFails(t) \/ FlushFails(t) \/ UNCHANGED fatal
    /\ CoinsMismatch(t) \/ UNCHANGED process
    /\ UNCHANGED interrupted

\* Read off the UNCHANGED of each action.
LEMMA Frame ==
    ASSUME NEW t \in Thread, Proceed(t)
    PROVE  TreeFrame(t) /\ ChainFrame(t) /\ ListenFrame(t)
<1>. USE DEF TreeFrame, ChainFrame, ListenFrame
<1>1. CASE Done(t)
  BY <1>1, Zenon DEF Done
<1>2. CASE AcceptHeader(t)
  BY <1>2, Zenon DEF AcceptHeader
<1>3. CASE RejectUnindexed(t)
  BY <1>3, Zenon DEF RejectUnindexed
<1>4. CASE RejectBody(t)
  BY <1>4, Zenon DEF RejectBody
<1>5. CASE WriteFails(t)
  BY <1>5, Zenon DEF WriteFails
<1>6. CASE StoreBlock(t)
  BY <1>6, Zenon DEF StoreBlock
<1>7. CASE KnownBlock(t)
  BY <1>7, Zenon DEF KnownBlock
<1>8. CASE Link(t)
  BY <1>8, Zenon DEF Link
<1>9. CASE LinkDone(t)
  BY <1>9, Zenon DEF LinkDone
<1>10. CASE NotifyHeaderTip(t)
  BY <1>10, Zenon DEF NotifyHeaderTip
<1>11. CASE HeaderTip(t)
  BY <1>11, Zenon DEF HeaderTip
<1>12. CASE ActivateBestChain(t)
  BY <1>12, Zenon DEF ActivateBestChain
<1>13. CASE LoopBegin(t)
  BY <1>13, Zenon DEF LoopBegin
<1>14. CASE Find(t)
  BY <1>14, Zenon DEF Find
<1>15. CASE CoinsMismatch(t)
  BY <1>15, Zenon DEF CoinsMismatch
<1>16. CASE DisconnectTip(t)
  BY <1>16, Zenon DEF DisconnectTip
<1>17. CASE ConnectTip(t)
  BY <1>17, Zenon DEF ConnectTip
<1>18. CASE ConnectInvalid(t)
  BY <1>18, Zenon DEF ConnectInvalid
<1>19. CASE StepFails(t)
  BY <1>19, Zenon DEF StepFails
<1>20. CASE Connected(t)
  BY <1>20, Zenon DEF Connected
<1>21. CASE LeaveIdle(t)
  BY <1>21, Zenon DEF LeaveIdle
<1>22. CASE LeaveMoved(t)
  BY <1>22, Zenon DEF LeaveMoved
<1>23. CASE Flush(t)
  BY <1>23, Zenon DEF Flush
<1>24. CASE FlushFails(t)
  BY <1>24, Zenon DEF FlushFails
<1>. QED BY Zenon, <1>1, <1>2, <1>3, <1>4, <1>5, <1>6, <1>7, <1>8, <1>9, <1>10, <1>11,
            <1>12, <1>13, <1>14, <1>15, <1>16, <1>17, <1>18, <1>19, <1>20,
            <1>21, <1>22, <1>23, <1>24 DEF Proceed, Accept, Activate

-----------------------------------------------------------------------------
(* Types, in parts the provers can handle. *)

TreeType ==
    /\ index \subseteq Block /\ failed \subseteq Block /\ undo \subseteq Block
    /\ bestHeader \in Block /\ lastNotified \in MaybeBlock

DataType ==
    /\ have \subseteq Block /\ linked \subseteq Block
    /\ unlinked \in [Block -> Seq(Block)] /\ queue \in Seq(Block)
    /\ seq \in [Block -> Nat] /\ nextSeq \in Nat

ChainType ==
    /\ candidates \subseteq Block
    /\ tip \in Block /\ coins \in Block /\ ibd \in {"on", "off"}

AbcType ==
    /\ mostWork \in MaybeBlock /\ newTip \in MaybeBlock
    /\ startTip \in MaybeBlock /\ oldTip \in MaybeBlock
    /\ connected \in Seq(Block)
    /\ found \in {"no", "yes"} /\ progressed \in {"no", "yes"}

CallType ==
    /\ pc \in [Thread -> Pc] /\ job \in [Thread -> Jobs \cup {NoJob}]
    /\ isNew \in [Thread -> {"no", "yes"}]
    /\ reason \in [Thread -> Reasons]
    /\ res \in [Thread -> {"none", "NewBlock", "Duplicate", "Rejected",
                           "Valid", "Invalid"}]

LockType ==
    /\ csMain \in Thread \cup {NoThread}
    /\ chainMutex \in Thread \cup {NoThread}

ListenType ==
    /\ lsTip \in MaybeBlock /\ tipSeen \in Block /\ shown \in Block
    /\ heard \in [Thread -> MaybeBlock \X {"none", "valid", "invalid", "error"}]
    /\ fatal \in {"no", "yes"} /\ interrupted \in {"no", "yes"}
    /\ process \in {"running", "aborted"}

CountType == announced \in [Block -> Nat] /\ stored \in [Block -> Nat]

\* The parts make up the type invariant.
LEMMA TypeParts ==
    TypeOK <=> /\ TreeType /\ DataType /\ ChainType /\ AbcType /\ LockType
               /\ CallType /\ ListenType /\ CountType
BY Zenon DEF TypeOK, TreeType, DataType, ChainType, AbcType, LockType, CallType,
       ListenType, CountType

\* Where the genesis block is not: a tip that is disconnected has a parent.
LEMMA Disconnected ==
    ASSUME TypeOK, LocalInv, NEW t \in Thread, Above(t)
    PROVE  tip \in Block /\ tip # Genesis /\ Prev[tip] \in Block
<1>1. mostWork \in Block /\ tip \notin Anc[mostWork]
  BY Zenon DEF Above, TypeOK, LocalInv
<1>2. tip \in Block
  BY DEF TypeOK
<1>. QED BY Zenon, <1>1, <1>2, TreeFacts

\* The verdicts are reasons.
LEMMA ReasonFacts ==
    /\ {"valid", "error"} \subseteq Reasons
    /\ \A b : AcceptBlockHeader(b) \in Reasons
    /\ \A j : CheckBlock(j) \in Reasons /\ ContextualCheckBlock(j) \in Reasons
<1>1. \A b : AcceptBlockHeader(b) \in Reasons
  BY Zenon DEF Reasons, AcceptBlockHeader
<1>2. \A j : CheckBlock(j) \in Reasons
  BY Zenon DEF Reasons, CheckBlock
<1>3. \A j : ContextualCheckBlock(j) \in Reasons
  BY Zenon DEF Reasons, ContextualCheckBlock
<1>. QED BY Zenon, <1>1, <1>2, <1>3 DEF Reasons

\* What ActivateBestChain leaves behind when it returns.
LEMMA Returning ==
    ASSUME NEW t \in Thread, NEW o, Return(t, o)
    PROVE  LockType' /\ AbcType'
<1>1. LockType'
  BY Zenon DEF Return, LockType
<1>2. connected' \in Seq(Block)
  BY DEF Return
<1>3. /\ mostWork' = NoBlock /\ newTip' = NoBlock
      /\ startTip' = NoBlock /\ oldTip' = NoBlock
      /\ found' = "no" /\ progressed' = "no"
  BY Zenon DEF Return
<1>. QED BY Zenon, <1>1, <1>2, <1>3 DEF AbcType

\* Types of the block tree.
LEMMA TreeTypeStep ==
    ASSUME TypeOK, NEW t \in Thread, Proceed(t)
    PROVE  TreeType'
<1>. job[t].blk \in Block /\ TreeType /\ tip \in Block
  BY Zenon, JobFacts, TypeParts DEF ChainType
<1>1. ASSUME NEW b \in Block, AddToBlockIndex(b)
      PROVE  index' \subseteq Block /\ bestHeader' \in Block
  BY Zenon, <1>1 DEF AddToBlockIndex, BestWith, TreeType
<1>2. ASSUME NEW b \in Block, InvalidBlockFound(b)
      PROVE  index' \subseteq Block /\ failed' \subseteq Block /\ bestHeader' \in Block
  <2>. DEFINE known == index \cup {b}
  <2>1. known \subseteq Block /\ Descendants(b, known) \subseteq Block
    BY Zenon DEF TreeType, Descendants
  <2>2. \A bad : RecalculateBestHeader(known, bad) \subseteq Block
    BY Zenon, <2>1 DEF RecalculateBestHeader
  <2>3. BestWith(b) \in Block
    BY Zenon DEF BestWith, TreeType
  <2>4. index' = known /\ failed' = failed \cup Descendants(b, known)
    BY Zenon, <1>2 DEF InvalidBlockFound
  <2>5. \E bad : bestHeader' \in RecalculateBestHeader(known, bad) \cup {BestWith(b)}
    BY Zenon, <1>2 DEF InvalidBlockFound
  <2>. HIDE DEF known
  <2>. QED BY Zenon, <2>1, <2>2, <2>3, <2>4, <2>5 DEF TreeType
<1>3. lastNotified' \in MaybeBlock
  BY Zenon, Frame DEF TreeFrame, NotifyHeaderTip, TreeType
<1>4. failed' \subseteq Block
  <2>1. CASE RejectBody(t)
    BY Zenon, <1>2, <2>1 DEF RejectBody, TreeType
  <2>2. CASE ConnectInvalid(t)
    BY Zenon, <1>2, <2>2 DEF ConnectInvalid
  <2>. QED BY Zenon, <2>1, <2>2, Frame DEF TreeFrame, TreeType
<1>6. undo' \subseteq Block
  <2>1. CASE ConnectTip(t)
    BY <2>1 DEF ConnectTip, TreeType
  <2>2. CASE StepFails(t)
    BY <2>2 DEF StepFails, TreeType
  <2>. QED BY <2>1, <2>2, Frame DEF TreeFrame, TreeType
<1>5. index' \subseteq Block /\ bestHeader' \in Block
  <2>1. CASE AcceptHeader(t)
    BY Zenon, <1>1, <2>1 DEF AcceptHeader, TreeType
  <2>2. CASE RejectBody(t)
    BY Zenon, <1>1, <1>2, <2>2 DEF RejectBody
  <2>3. CASE WriteFails(t)
    BY <1>1, <2>3 DEF WriteFails
  <2>4. CASE StoreBlock(t)
    BY Zenon, <1>1, <2>4 DEF StoreBlock
  <2>5. CASE ConnectInvalid(t)
    BY Zenon, <1>2, <2>5 DEF ConnectInvalid
  <2>. QED BY Zenon, <2>1, <2>2, <2>3, <2>4, <2>5, Frame DEF TreeFrame, TreeType
<1>. QED BY Zenon, <1>3, <1>4, <1>5, <1>6 DEF TreeType

\* Types of the stored blocks.
LEMMA DataTypeStep ==
    ASSUME TypeOK, NEW t \in Thread, Proceed(t)
    PROVE  DataType'
<1>. job[t].blk \in Block /\ DataType
  BY Zenon, JobFacts, TypeParts
<1>1. CASE StoreBlock(t)
  <2>. DEFINE b == job[t].blk
  <2>1. /\ have' = have \cup {b} /\ queue' \in {queue, <<b>>}
        /\ unlinked' \in {unlinked,
               [unlinked EXCEPT ![Prev[b]] = Append(unlinked[Prev[b]], b)]}
    BY Zenon, <1>1 DEF StoreBlock
  <2>2. UNCHANGED <<linked, seq, nextSeq>>
    BY Zenon, <1>1 DEF StoreBlock
  <2>3. b \in Block
    OBVIOUS
  <2>. HIDE DEF b
  <2>4. \A p \in Block : Append(unlinked[p], b) \in Seq(Block)
    BY <2>3 DEF DataType
  <2>5. unlinked' \in [Block -> Seq(Block)]
    <3>. DEFINE p == Prev[b]
                v == Append(unlinked[p], b)
    <3>1. unlinked' \in {unlinked, [unlinked EXCEPT ![p] = v]}
      BY Zenon, <2>1
    <3>2. p \in Block => v \in Seq(Block)
      BY <2>4
    <3>. HIDE DEF p, v
    <3>. QED BY Zenon, <3>1, <3>2 DEF DataType
  <2>6. queue' \in Seq(Block)
    <3>1. <<b>> \in Seq(Block)
      BY <2>3
    <3>. QED BY Zenon, <2>1, <3>1 DEF DataType
  <2>. QED BY <2>1, <2>2, <2>3, <2>5, <2>6 DEF DataType
<1>2. CASE Link(t)
  <2>. DEFINE b == Head(queue)
  <2>0. queue # <<>> /\ queue \in Seq(Block)
    BY <1>2, Zenon DEF Link, DataType
  <2>1. b \in Block /\ Tail(queue) \in Seq(Block)
    BY <2>0
  <2>2. /\ have' = have /\ linked' = linked \cup {b}
        /\ seq' = [seq EXCEPT ![b] = nextSeq] /\ nextSeq' = nextSeq + 1
        /\ queue' = Tail(queue) \o unlinked[b]
        /\ unlinked' = [unlinked EXCEPT ![b] = <<>>]
    BY Zenon, <1>2 DEF Link, Waiting
  <2>. HIDE DEF b
  <2>3. queue' \in Seq(Block)
    BY <2>1, <2>2 DEF DataType
  <2>4. unlinked' \in [Block -> Seq(Block)]
    <3>1. <<>> \in Seq(Block)
      OBVIOUS
    <3>. QED BY Zenon, <2>2, <3>1 DEF DataType
  <2>5. seq' \in [Block -> Nat] /\ nextSeq' \in Nat
    BY <2>1, <2>2 DEF DataType
  <2>. QED BY <2>1, <2>2, <2>3, <2>4, <2>5 DEF DataType
<1>. QED BY Zenon, <1>1, <1>2, Frame DEF TreeFrame, DataType

\* Types of the chain.
LEMMA ChainTypeStep ==
    ASSUME TypeOK, LocalInv, NEW t \in Thread, Proceed(t)
    PROVE  ChainType'
<1>. ChainType /\ DataType
  BY Zenon, TypeParts
<1>1. candidates' \subseteq Block
  <2>1. CASE RejectBody(t)
    BY Zenon, <2>1 DEF RejectBody, InvalidBlockFound, ChainType
  <2>2. CASE Link(t)
    <3>1. Head(queue) \in Block
      BY <2>2 DEF Link, DataType
    <3>2. candidates' \subseteq candidates \cup {Head(queue)}
      BY Zenon, <2>2 DEF Link
    <3>. QED BY Zenon, <3>1, <3>2 DEF ChainType
  <2>3. CASE Find(t)
    BY Zenon, <2>3 DEF Find, Remaining, ChainType
  <2>4. CASE ConnectTip(t)
    BY Zenon, <2>4 DEF ConnectTip, PruneBlockIndexCandidates, ChainType
  <2>5. CASE ConnectInvalid(t)
    BY Zenon, <2>5 DEF ConnectInvalid, InvalidBlockFound, ChainType
  <2>. QED BY <2>1, <2>2, <2>3, <2>4, <2>5, Frame DEF ChainFrame, ChainType
<1>2. CASE DisconnectTip(t)
  <2>1. Prev[tip] \in Block
    BY Zenon, <1>2, Disconnected DEF DisconnectTip
  <2>2. tip' = Prev[tip] /\ coins' = Prev[tip] /\ ibd' \in {"off", ibd}
    BY Zenon, <1>2 DEF DisconnectTip, SetTip
  <2>. QED BY Zenon, <1>1, <2>1, <2>2 DEF ChainType
<1>3. CASE ConnectTip(t)
  <2>1. tip' \in Block /\ coins' = tip' /\ ibd' \in {"off", ibd}
    BY Zenon, <1>3 DEF ConnectTip, SetTip
  <2>. QED BY Zenon, <1>1, <2>1 DEF ChainType
<1>4. CASE StepFails(t) /\ UNCHANGED <<tip, ibd>>
  <2>1. coins' \in Block
    BY <1>4 DEF StepFails, ChainType
  <2>. QED BY Zenon, <1>1, <1>4, <2>1 DEF ChainType
<1>. QED BY <1>1, <1>2, <1>3, <1>4, Frame DEF ChainFrame, ChainType

\* Types of the locals of ActivateBestChain.
LEMMA AbcTypeStep ==
    ASSUME TypeOK, NEW t \in Thread, Proceed(t)
    PROVE  AbcType'
<1>. AbcType /\ tip \in Block
  BY Zenon, TypeParts DEF ChainType
<1>0. <<>> \in Seq(Block)
  OBVIOUS
<1>1. CASE LoopBegin(t)
  BY Zenon, <1>1 DEF LoopBegin, AbcType
<1>2. CASE Find(t)
  <2>1. mostWork' \in MaybeBlock
    BY Zenon, <1>2 DEF Find, AbcType
  <2>2. \/ oldTip' = tip /\ connected' = <<>> /\ found' = "no"
        \/ UNCHANGED <<oldTip, connected, found>>
    BY <1>2 DEF Find
  <2>3. UNCHANGED <<newTip, startTip, progressed>>
    BY <1>2 DEF Find
  <2>. QED BY Zenon, <1>0, <2>1, <2>2, <2>3 DEF AbcType
<1>3. CASE ConnectTip(t)
  <2>1. \E b \in Block : connected' = Append(connected, b)
    BY Zenon, <1>3 DEF ConnectTip
  <2>2. UNCHANGED <<mostWork, newTip, startTip, oldTip, found, progressed>>
    BY Zenon, <1>3 DEF ConnectTip
  <2>. QED BY <2>1, <2>2 DEF AbcType
<1>4. CASE ConnectInvalid(t)
  BY Zenon, <1>4 DEF ConnectInvalid, AbcType
<1>5. CASE StepFails(t)
  <2>1. Return(t, "Rejected")
    BY Zenon, <1>5 DEF StepFails
  <2>. QED BY Zenon, <2>1, Returning
<1>6. CASE Connected(t)
  <2>1. /\ newTip' = tip /\ connected' = <<>> /\ progressed' = "yes"
        /\ mostWork' \in {NoBlock, mostWork}
    BY Zenon, <1>6 DEF Connected, TargetAfterStep
  <2>2. UNCHANGED <<startTip, oldTip, found>>
    BY Zenon, <1>6 DEF Connected
  <2>. QED BY Zenon, <1>0, <2>1, <2>2 DEF AbcType
<1>7. CASE LeaveIdle(t)
  <2>1. Return(t, Returned(t))
    BY Zenon, <1>7 DEF LeaveIdle
  <2>. QED BY Zenon, <2>1, Returning
<1>8. CASE Flush(t)
  <2>1. Return(t, Returned(t)) \/ UNCHANGED abc
    BY Zenon, <1>8 DEF Flush
  <2>. QED BY Zenon, <2>1, Returning DEF AbcType
<1>9. CASE FlushFails(t)
  <2>1. Return(t, "Rejected")
    BY <1>9 DEF FlushFails
  <2>. QED BY <2>1, Returning
<1>. QED BY Zenon, <1>1, <1>2, <1>3, <1>4, <1>5, <1>6, <1>7, <1>8, <1>9, Frame
         DEF ChainFrame, AbcType

\* Types of the calls.
LEMMA CallTypeStep ==
    ASSUME TypeOK, NEW t \in Thread, Proceed(t)
    PROVE  CallType'
<1>. CallType
  BY TypeParts
<1>. USE ReasonFacts DEF CallType
<1>1. CASE Done(t)
  BY <1>1, Zenon DEF Done
<1>2. CASE AcceptHeader(t)
  BY <1>2, Zenon DEF AcceptHeader
<1>3. CASE RejectUnindexed(t)
  BY <1>3, Zenon DEF RejectUnindexed, Reject
<1>4. CASE RejectBody(t)
  BY <1>4, Zenon DEF RejectBody, Reject
<1>5. CASE WriteFails(t)
  BY <1>5, Zenon DEF WriteFails, Reject
<1>6. CASE StoreBlock(t)
  BY <1>6, Zenon DEF StoreBlock
<1>7. CASE KnownBlock(t)
  BY <1>7, Zenon DEF KnownBlock
<1>8. CASE Link(t)
  BY <1>8, Zenon DEF Link
<1>9. CASE LinkDone(t)
  BY <1>9, Zenon DEF LinkDone
<1>10. CASE NotifyHeaderTip(t)
  BY <1>10, Zenon DEF NotifyHeaderTip, AfterNotify
<1>11. CASE HeaderTip(t)
  BY <1>11, Zenon DEF HeaderTip, AfterNotify
<1>12. CASE ActivateBestChain(t)
  BY <1>12, Zenon DEF ActivateBestChain
<1>13. CASE LoopBegin(t)
  BY <1>13, Zenon DEF LoopBegin
<1>14. CASE Find(t)
  BY <1>14, Zenon DEF Find
<1>15. CASE CoinsMismatch(t)
  BY <1>15, Zenon DEF CoinsMismatch
<1>16. CASE DisconnectTip(t)
  BY <1>16, Zenon DEF DisconnectTip
<1>17. CASE ConnectTip(t)
  BY <1>17, Zenon DEF ConnectTip
<1>18. CASE ConnectInvalid(t)
  BY <1>18, Zenon DEF ConnectInvalid
<1>19. CASE StepFails(t)
  BY <1>19, Zenon DEF StepFails, Return
<1>20. CASE Connected(t)
  BY <1>20, Zenon DEF Connected
<1>21. CASE LeaveIdle(t)
  BY <1>21, Zenon DEF LeaveIdle, Return, Returned
<1>22. CASE LeaveMoved(t)
  BY <1>22, Zenon DEF LeaveMoved
<1>23. CASE Flush(t)
  BY <1>23, Zenon DEF Flush, Return, Returned
<1>24. CASE FlushFails(t)
  BY <1>24, Zenon DEF FlushFails, Return
<1>. QED BY Zenon, <1>1, <1>2, <1>3, <1>4, <1>5, <1>6, <1>7, <1>8, <1>9, <1>10, <1>11,
            <1>12, <1>13, <1>14, <1>15, <1>16, <1>17, <1>18, <1>19, <1>20,
            <1>21, <1>22, <1>23, <1>24 DEF Proceed, Accept, Activate

\* Types of what the callbacks told.
LEMMA ListenTypeStep ==
    ASSUME TypeOK, LocalInv, NEW t \in Thread, Proceed(t)
    PROVE  ListenType'
<1>. job[t].blk \in Block /\ ListenType
  BY Zenon, JobFacts, TypeParts
<1>. tip \in Block /\ AbcType
  BY TypeParts DEF ChainType
<1>1. lsTip' \in MaybeBlock
  <2>1. CASE DisconnectTip(t)
    <3>1. Prev[tip] \in Block
      BY Zenon, <2>1, Disconnected DEF DisconnectTip
    <3>. QED BY Zenon, <2>1, <3>1 DEF DisconnectTip
  <2>2. CASE Connected(t)
    BY <2>2 DEF Connected, BlockConnected, ListenType, AbcType
  <2>. QED BY Zenon, <2>1, <2>2, Frame DEF ListenFrame, ListenType
<1>2. tipSeen' \in Block
  <2>1. CASE LeaveMoved(t)
    <3>1. newTip \in Block
      BY Zenon, <2>1 DEF LeaveMoved, LocalInv, AbcType
    <3>. QED BY Zenon, <2>1, <3>1 DEF LeaveMoved, BlockTip, ListenType
  <2>. QED BY Zenon, <2>1, Frame DEF ListenFrame, ListenType
<1>3. shown' \in {shown, tip}
  <2>1. \A o : Return(t, o) => shown' = tip
    BY Zenon DEF Return
  <2>2. CASE StepFails(t)
    BY Zenon, <2>1, <2>2 DEF StepFails
  <2>3. CASE LeaveIdle(t)
    BY Zenon, <2>1, <2>3 DEF LeaveIdle
  <2>4. CASE LeaveMoved(t)
    BY Zenon, <2>4 DEF LeaveMoved
  <2>5. CASE Flush(t)
    BY Zenon, <2>1, <2>5 DEF Flush
  <2>6. CASE FlushFails(t)
    BY Zenon, <2>1, <2>6 DEF FlushFails
  <2>. QED BY Zenon, <2>2, <2>3, <2>4, <2>5, <2>6, Frame DEF ListenFrame
<1>4. heard' \in [Thread -> MaybeBlock \X {"none", "valid", "invalid", "error"}]
  <2>. DEFINE Told == \E b \in Block, v \in {"valid", "invalid", "error"} :
                          BlockChecked(t, b, v)
              Forgot == heard' = [heard EXCEPT ![t] = NotChecked]
  <2>1. \A r : Reject(t, r) => Told
    BY DEF Reject
  <2>2. RejectUnindexed(t) => Told
    BY <2>1, Zenon DEF RejectUnindexed
  <2>3. RejectBody(t) => Told
    BY <2>1, Zenon DEF RejectBody
  <2>4. WriteFails(t) => Told
    BY <2>1, Zenon DEF WriteFails
  <2>5. ConnectTip(t) => Told
    BY Zenon DEF ConnectTip
  <2>6. ConnectInvalid(t) => Told
    BY Zenon DEF ConnectInvalid
  <2>7. StepFails(t) /\ ~UNCHANGED heard => Told
    BY DEF StepFails
  <2>8. Done(t) => Forgot
    BY Zenon DEF Done
  <2>9. Told \/ Forgot \/ UNCHANGED heard
    BY <2>2, <2>3, <2>4, <2>5, <2>6, <2>7, <2>8, Frame DEF ListenFrame
  <2>10. CASE Told
    <3>1. PICK b \in Block, v \in {"valid", "invalid", "error"} :
              heard' = [heard EXCEPT ![t] = <<b, v>>]
      BY ZenonT(30), <2>10 DEF BlockChecked
    <3>2. <<b, v>> \in MaybeBlock \X {"none", "valid", "invalid", "error"}
      BY DEF MaybeBlock
    <3>. QED BY <3>1, <3>2 DEF ListenType
  <2>11. CASE Forgot
    <3>1. NotChecked \in MaybeBlock \X {"none", "valid", "invalid", "error"}
      BY DEF MaybeBlock, NotChecked
    <3>. QED BY <2>11, <3>1 DEF ListenType
  <2>. QED BY <2>9, <2>10, <2>11 DEF ListenType
<1>5. fatal' \in {fatal, "yes"}
  <2>1. CASE WriteFails(t)
    BY Zenon, <2>1 DEF WriteFails, FatalError
  <2>2. CASE StepFails(t)
    BY Zenon, <2>2 DEF StepFails, FatalError
  <2>3. CASE FlushFails(t)
    BY <2>3 DEF FlushFails, FatalError
  <2>. QED BY Zenon, <2>1, <2>2, <2>3, Frame DEF ListenFrame
<1>6. process' \in {process, "aborted"} /\ interrupted' = interrupted
  BY Zenon, Frame DEF ListenFrame, CoinsMismatch
<1>. QED BY <1>1, <1>2, <1>3, <1>4, <1>5, <1>6 DEF ListenType

\* A counter goes up.
LEMMA Bumped ==
    ASSUME NEW f \in [Block -> Nat], NEW b \in Block
    PROVE  [f EXCEPT ![b] = f[b] + 1] \in [Block -> Nat]
OBVIOUS

\* Types of the counters.
LEMMA CountTypeStep ==
    ASSUME TypeOK, NEW t \in Thread, Proceed(t)
    PROVE  CountType'
<1>. CountType /\ job[t].blk \in Block
  BY Zenon, JobFacts, TypeParts
<1>. DEFINE b == job[t].blk
            Up(f) == [f EXCEPT ![b] = f[b] + 1]
<1>1. announced' \in {announced, Up(announced)}
  <2>1. CASE WriteFails(t)
    BY Zenon, <2>1 DEF WriteFails, Announce
  <2>2. CASE StoreBlock(t)
    BY Zenon, <2>2 DEF StoreBlock, Announce
  <2>. QED BY <2>1, <2>2, Frame DEF ListenFrame
<1>2. stored' \in {stored, Up(stored)}
  <2>1. \A o : Return(t, o) => stored' \in {stored, Up(stored)}
    BY DEF Return
  <2>2. CASE StepFails(t)
    BY Zenon, <2>1, <2>2 DEF StepFails
  <2>3. CASE LeaveIdle(t)
    BY Zenon, <2>1, <2>3 DEF LeaveIdle
  <2>4. CASE Flush(t)
    BY Zenon, <2>1, <2>4 DEF Flush
  <2>5. CASE FlushFails(t)
    BY Zenon, <2>1, <2>5 DEF FlushFails
  <2>. HIDE DEF Up
  <2>. QED BY Zenon, <2>2, <2>3, <2>4, <2>5, Frame DEF ListenFrame
<1>3. Up(announced) \in [Block -> Nat] /\ Up(stored) \in [Block -> Nat]
  BY Bumped DEF CountType
<1>. HIDE DEF Up
<1>. QED BY Zenon, <1>1, <1>2, <1>3 DEF CountType

-----------------------------------------------------------------------------
(* The two locks. *)

\* Each action takes and releases the locks as its place in the code demands.
LEMMA LockStep ==
    ASSUME pc \in [Thread -> Pc], LockInv, NEW t \in Thread, Proceed(t)
    PROVE  LockInv'
<1>. NoThread \notin Thread
  BY TreeFacts
<1>. USE DEF LockInv
<1>1. CASE Done(t)
  BY <1>1, Zenon DEF Done
<1>2. CASE AcceptHeader(t)
  BY <1>2, Zenon DEF AcceptHeader, AddToBlockIndex
<1>3. CASE RejectUnindexed(t)
  BY <1>3, Zenon DEF RejectUnindexed, InAcceptBlock, Reject
<1>4. CASE RejectBody(t)
  BY <1>4, Zenon DEF RejectBody, HeaderAccepted, InAcceptBlock, Reject
<1>5. CASE WriteFails(t)
  BY <1>5, Zenon DEF WriteFails, BodyAccepted, HeaderAccepted, InAcceptBlock, Reject
<1>6. CASE StoreBlock(t)
  <2>1. /\ BodyAccepted(t) /\ UNCHANGED chainMutex
        /\ \/ csMain' = t /\ pc' = [pc EXCEPT ![t] = "link"]
           \/ UNCHANGED csMain /\ pc' = [pc EXCEPT ![t] = "notify"]
    BY <1>6, Zenon DEF StoreBlock
  <2>2. pc[t] = "accept" /\ csMain = NoThread
    BY <2>1, Zenon DEF BodyAccepted, HeaderAccepted, InAcceptBlock
  <2>. QED BY <2>1, <2>2, Zenon
<1>7. CASE KnownBlock(t)
  BY <1>7, Zenon DEF KnownBlock, HeaderAccepted, InAcceptBlock
<1>8. CASE Link(t)
  BY <1>8, Zenon DEF Link
<1>9. CASE LinkDone(t)
  BY <1>9, Zenon DEF LinkDone
<1>10. CASE NotifyHeaderTip(t)
  BY <1>10, Zenon DEF NotifyHeaderTip, AfterNotify
<1>11. CASE HeaderTip(t)
  BY <1>11, Zenon DEF HeaderTip, AfterNotify
<1>12. CASE ActivateBestChain(t)
  BY <1>12, Zenon DEF ActivateBestChain
<1>13. CASE LoopBegin(t)
  BY <1>13, Zenon DEF LoopBegin
<1>14. CASE Find(t)
  BY <1>14, Zenon DEF Find
<1>15. CASE CoinsMismatch(t)
  BY <1>15, Zenon DEF CoinsMismatch
<1>16. CASE DisconnectTip(t)
  BY <1>16, Zenon DEF DisconnectTip, SetTip
<1>17. CASE ConnectTip(t)
  BY <1>17, Zenon DEF ConnectTip, SetTip, BlockChecked
<1>18. CASE ConnectInvalid(t)
  BY <1>18, Zenon DEF ConnectInvalid, BlockChecked, InvalidBlockFound
<1>19. CASE StepFails(t)
  BY <1>19, Zenon DEF StepFails, Return, FatalError, BlockChecked
<1>20. CASE Connected(t)
  BY <1>20, Zenon DEF Connected
<1>21. CASE LeaveIdle(t)
  BY <1>21, Zenon DEF LeaveIdle, Return
<1>22. CASE LeaveMoved(t)
  BY <1>22, Zenon DEF LeaveMoved
<1>23. CASE Flush(t)
  <2>1. CASE LoopDone
    <3>1. /\ pc[t] = "flush" /\ csMain = NoThread /\ csMain' = NoThread /\ chainMutex' = NoThread
          /\ pc' = [pc EXCEPT ![t] = "done"]
      BY <1>23, <2>1, Zenon DEF Flush, Return
    <3>. QED BY <3>1
  <2>2. CASE ~LoopDone
    BY <1>23, <2>2, Zenon DEF Flush
  <2>. QED BY Zenon, <2>1, <2>2
<1>24. CASE FlushFails(t)
  BY <1>24, Zenon DEF FlushFails, Return, FatalError
<1>. QED BY Zenon, <1>1, <1>2, <1>3, <1>4, <1>5, <1>6, <1>7, <1>8, <1>9, <1>10, <1>11,
            <1>12, <1>13, <1>14, <1>15, <1>16, <1>17, <1>18, <1>19, <1>20,
            <1>21, <1>22, <1>23, <1>24 DEF Proceed, Accept, Activate

\* The holder of a lock is a thread.
LEMMA LockTypeStep ==
    ASSUME TypeOK, NEW t \in Thread, Proceed(t)
    PROVE  LockType'
<1>. LockType
  BY TypeParts
<1>. USE DEF LockType
<1>1. CASE Done(t)
  BY <1>1, Zenon DEF Done
<1>2. CASE AcceptHeader(t)
  BY <1>2, Zenon DEF AcceptHeader
<1>3. CASE RejectUnindexed(t)
  BY <1>3, Zenon DEF RejectUnindexed
<1>4. CASE RejectBody(t)
  BY <1>4, Zenon DEF RejectBody
<1>5. CASE WriteFails(t)
  BY <1>5, Zenon DEF WriteFails
<1>6. CASE StoreBlock(t)
  BY <1>6, Zenon DEF StoreBlock
<1>7. CASE KnownBlock(t)
  BY <1>7, Zenon DEF KnownBlock
<1>8. CASE Link(t)
  BY <1>8, Zenon DEF Link
<1>9. CASE LinkDone(t)
  BY <1>9, Zenon DEF LinkDone
<1>10. CASE NotifyHeaderTip(t)
  BY <1>10, Zenon DEF NotifyHeaderTip
<1>11. CASE HeaderTip(t)
  BY <1>11, Zenon DEF HeaderTip
<1>12. CASE ActivateBestChain(t)
  BY <1>12, Zenon DEF ActivateBestChain
<1>13. CASE LoopBegin(t)
  BY <1>13, Zenon DEF LoopBegin
<1>14. CASE Find(t)
  BY <1>14, Zenon DEF Find
<1>15. CASE CoinsMismatch(t)
  BY <1>15, Zenon DEF CoinsMismatch
<1>16. CASE DisconnectTip(t)
  BY <1>16, Zenon DEF DisconnectTip
<1>17. CASE ConnectTip(t)
  BY <1>17, Zenon DEF ConnectTip
<1>18. CASE ConnectInvalid(t)
  BY <1>18, Zenon DEF ConnectInvalid
<1>19. CASE StepFails(t)
  BY <1>19, Zenon DEF StepFails, Return
<1>20. CASE Connected(t)
  BY <1>20, Zenon DEF Connected
<1>21. CASE LeaveIdle(t)
  BY <1>21, Zenon DEF LeaveIdle, Return
<1>22. CASE LeaveMoved(t)
  BY <1>22, Zenon DEF LeaveMoved
<1>23. CASE Flush(t)
  <2>1. CASE LoopDone
    BY <1>23, <2>1, Zenon DEF Flush, Return
  <2>2. CASE ~LoopDone
    BY <1>23, <2>2, Zenon DEF Flush
  <2>. QED BY <2>1, <2>2
<1>24. CASE FlushFails(t)
  BY <1>24, Zenon DEF FlushFails, Return
<1>. QED BY Zenon, <1>1, <1>2, <1>3, <1>4, <1>5, <1>6, <1>7, <1>8, <1>9, <1>10, <1>11,
            <1>12, <1>13, <1>14, <1>15, <1>16, <1>17, <1>18, <1>19, <1>20,
            <1>21, <1>22, <1>23, <1>24 DEF Proceed, Accept, Activate

\* Inside the cs_main section of the outer loop of ActivateBestChain.
InStep == {"find", "step", "connected", "leave"}

\* A step moves its own thread only, and into that section in one way.
Places(t) ==
    /\ \A u \in Thread \ {t} : pc'[u] = pc[u]
    /\ pc'[t] = "step" => Find(t) \/ pc[t] = "step"
    /\ pc'[t] \in InStep =>
          \/ LoopBegin(t) \/ Find(t) \/ CoinsMismatch(t) \/ DisconnectTip(t)
          \/ ConnectTip(t) \/ ConnectInvalid(t) \/ Connected(t)

LEMMA PlaceFrame ==
    ASSUME pc \in [Thread -> Pc], NEW t \in Thread, Proceed(t)
    PROVE  Places(t)
<1>. USE DEF Places, InStep
<1>1. CASE Done(t)
  BY <1>1, Zenon DEF Done
<1>2. CASE AcceptHeader(t)
  BY <1>2, Zenon DEF AcceptHeader, AddToBlockIndex
<1>3. CASE RejectUnindexed(t)
  BY <1>3, Zenon DEF RejectUnindexed, InAcceptBlock, Reject
<1>4. CASE RejectBody(t)
  BY <1>4, Zenon DEF RejectBody, HeaderAccepted, InAcceptBlock, Reject
<1>5. CASE WriteFails(t)
  BY <1>5, Zenon DEF WriteFails, BodyAccepted, HeaderAccepted, InAcceptBlock, Reject
<1>6. CASE StoreBlock(t)
  BY <1>6, Zenon DEF StoreBlock, BodyAccepted, HeaderAccepted, InAcceptBlock
<1>7. CASE KnownBlock(t)
  BY <1>7, Zenon DEF KnownBlock, HeaderAccepted, InAcceptBlock
<1>8. CASE Link(t)
  BY <1>8, Zenon DEF Link
<1>9. CASE LinkDone(t)
  BY <1>9, Zenon DEF LinkDone
<1>10. CASE NotifyHeaderTip(t)
  BY <1>10, Zenon DEF NotifyHeaderTip, AfterNotify
<1>11. CASE HeaderTip(t)
  BY <1>11, Zenon DEF HeaderTip, AfterNotify
<1>12. CASE ActivateBestChain(t)
  BY <1>12, Zenon DEF ActivateBestChain
<1>13. CASE LoopBegin(t)
  BY <1>13, Zenon DEF LoopBegin
<1>14. CASE Find(t)
  BY <1>14, Zenon DEF Find
<1>15. CASE CoinsMismatch(t)
  BY <1>15, Zenon DEF CoinsMismatch
<1>16. CASE DisconnectTip(t)
  BY <1>16, Zenon DEF DisconnectTip, SetTip
<1>17. CASE ConnectTip(t)
  BY <1>17, Zenon DEF ConnectTip, SetTip, BlockChecked
<1>18. CASE ConnectInvalid(t)
  BY <1>18, Zenon DEF ConnectInvalid, BlockChecked, InvalidBlockFound
<1>19. CASE StepFails(t)
  BY <1>19, Zenon DEF StepFails, Return, FatalError, BlockChecked
<1>20. CASE Connected(t)
  BY <1>20, Zenon DEF Connected
<1>21. CASE LeaveIdle(t)
  BY <1>21, Zenon DEF LeaveIdle, Return
<1>22. CASE LeaveMoved(t)
  BY <1>22, Zenon DEF LeaveMoved
<1>23. CASE Flush(t)
  <2>1. CASE LoopDone
    BY <1>23, <2>1, Zenon DEF Flush, Return
  <2>2. CASE ~LoopDone
    BY <1>23, <2>2, Zenon DEF Flush
  <2>. QED BY <2>1, <2>2
<1>24. CASE FlushFails(t)
  BY <1>24, Zenon DEF FlushFails, Return, FatalError
<1>. QED BY Zenon, <1>1, <1>2, <1>3, <1>4, <1>5, <1>6, <1>7, <1>8, <1>9, <1>10, <1>11,
            <1>12, <1>13, <1>14, <1>15, <1>16, <1>17, <1>18, <1>19, <1>20,
            <1>21, <1>22, <1>23, <1>24 DEF Proceed, Accept, Activate

\* Only the thread inside ActivateBestChain changes its locals.
LEMMA LocalStep ==
    ASSUME TypeOK, LockInv, LocalInv, NEW t \in Thread, Proceed(t)
    PROVE  LocalInv'
<1>. /\ pc \in [Thread -> Pc] /\ tip \in Block /\ NoBlock \notin Block
     /\ NoThread \notin Thread
  BY Zenon, TreeFacts DEF TypeOK
<1>0. \A o : Return(t, o) => progressed' = "no"
  BY Zenon DEF Return
<1>1. ASSUME NEW u \in Thread, pc'[u] = "step" PROVE mostWork' # NoBlock
  <2>1. CASE Find(t)
    <3>1. u = t
      BY Zenon, <1>1, <2>1, PlaceFrame DEF Places, Find, LockInv
    <3>. QED BY Zenon, <1>1, <2>1, <3>1 DEF Find
  <2>2. CASE ~Find(t)
    <3>1. pc[u] = "step" /\ mostWork # NoBlock
      BY Zenon, <1>1, <2>2, PlaceFrame DEF Places, LocalInv
    <3>2. csMain = u /\ chainMutex = u
      BY Zenon, <3>1 DEF LockInv
    <3>3. u = t \/ pc[t] \notin Activating
      BY Zenon, <3>2 DEF LockInv
    <3>4. CASE Connected(t) \/ LeaveIdle(t) \/ Flush(t) \/ FlushFails(t) \/ LoopBegin(t)
      BY Zenon, <3>1, <3>3, <3>4 DEF Connected, LeaveIdle, Flush, FlushFails, LoopBegin
    <3>5. CASE ConnectTip(t) \/ ConnectInvalid(t)
      BY Zenon, <3>1, <3>5 DEF ConnectTip, ConnectInvalid
    <3>6. CASE StepFails(t)
      BY Zenon, <1>1, <3>3, <3>6 DEF StepFails, Return
    <3>. QED BY Zenon, <2>2, <3>1, <3>4, <3>5, <3>6, Frame DEF ChainFrame
  <2>. QED BY Zenon, <2>1, <2>2
<1>2. ASSUME progressed' = "yes" PROVE newTip' # NoBlock
  <2>1. CASE LoopBegin(t) \/ Find(t) \/ ConnectTip(t) \/ ConnectInvalid(t)
    BY Zenon, <1>2, <2>1 DEF LoopBegin, Find, ConnectTip, ConnectInvalid, LocalInv
  <2>2. CASE Connected(t)
    BY Zenon, <2>2 DEF Connected
  <2>3. CASE StepFails(t) \/ LeaveIdle(t) \/ FlushFails(t)
    BY Zenon, <1>0, <1>2, <2>3 DEF StepFails, LeaveIdle, FlushFails
  <2>4. CASE Flush(t)
    BY Zenon, <1>0, <1>2, <2>4 DEF Flush, LocalInv
  <2>. QED BY Zenon, <1>2, <2>1, <2>2, <2>3, <2>4, Frame DEF ChainFrame, LocalInv
<1>. QED BY Zenon, <1>1, <1>2 DEF LocalInv

-----------------------------------------------------------------------------
(* Stored and linked blocks. *)

DataInv == QueueInv /\ UnlinkedInv /\ LinkedInv

\* Steps that store and link nothing; a new target is a candidate.
LEMMA SameData ==
    ASSUME DataInv, UNCHANGED <<have, linked, queue, unlinked>>,
           candidates' \subseteq candidates,
           mostWork' \in candidates \cup {NoBlock, mostWork}
    PROVE  DataInv'
BY DEF DataInv, QueueInv, UnlinkedInv, LinkedInv, Fresh

\* A block that is stored goes to the queue or to m_blocks_unlinked.
LEMMA StoreData ==
    ASSUME DataType, DataInv, NEW b \in Block, b \notin have,
           have' = have \cup {b},
           UNCHANGED <<linked, candidates, mostWork>>,
           \/ Prev[b] \in linked /\ queue' = <<b>> /\ unlinked' = unlinked
           \/ /\ Prev[b] \notin linked /\ queue' = queue
              /\ unlinked' \in {unlinked,
                     [unlinked EXCEPT ![Prev[b]] = Append(unlinked[Prev[b]], b)]}
    PROVE  DataInv'
<1>. DEFINE New(x) == x \in have' \ linked' /\ x # Genesis
<1>1. b # Genesis /\ b \notin linked /\ Prev[b] \in Block
  BY Zenon, TreeFacts DEF DataInv, LinkedInv
<1>2. LinkedInv'
  BY Zenon DEF DataInv, LinkedInv
<1>3. \A x : Fresh(x) => New(x)
  BY Zenon DEF Fresh
<1>4. New(b)
  BY Zenon, <1>1
<1>5. QueueInv'
  <2>1. CASE queue' = queue
    BY <2>1 DEF DataInv, QueueInv, Fresh
  <2>2. CASE Prev[b] \in linked /\ queue' = <<b>>
    BY SMTT(30), <2>2, <1>4 DEF QueueInv, Fresh
  <2>. QED BY Zenon, <2>1, <2>2
<1>6. UnlinkedInv'
  <2>1. CASE unlinked' = unlinked
    BY <2>1 DEF DataInv, UnlinkedInv, Fresh
  <2>2. CASE /\ Prev[b] \notin linked
             /\ unlinked' = [unlinked EXCEPT ![Prev[b]] = Append(unlinked[Prev[b]], b)]
    <3>. DEFINE s == unlinked[Prev[b]]
                Good(p, i) ==
                    /\ New(unlinked'[p][i]) /\ Prev[unlinked'[p][i]] = p
                    /\ p \notin linked'
                    /\ \A k \in 1 .. Len(unlinked'[p]) :
                          unlinked'[p][i] = unlinked'[p][k] => i = k
    <3>1. s \in Seq(Block) /\ \A i \in 1 .. Len(s) : s[i] \in have /\ Prev[s[i]] = Prev[b]
      BY Zenon, <1>1 DEF DataType, DataInv, UnlinkedInv, Fresh
    <3>2. ASSUME NEW p \in Block, p # Prev[b], NEW i \in 1 .. Len(unlinked'[p])
          PROVE  Good(p, i)
      <4>1. unlinked'[p] = unlinked[p]
        BY Zenon, <2>2, <3>2 DEF DataType
      <4>. QED BY <4>1, <3>2, <1>3 DEF DataInv, UnlinkedInv
    <3>3. unlinked'[Prev[b]] = Append(s, b)
      BY Zenon, <2>2, <1>1 DEF DataType
    <3>4. ASSUME NEW i \in 1 .. Len(Append(s, b))
          PROVE  /\ New(Append(s, b)[i]) /\ Prev[Append(s, b)[i]] = Prev[b]
                 /\ \A k \in 1 .. Len(Append(s, b)) :
                       Append(s, b)[i] = Append(s, b)[k] => i = k
      <4>1. /\ Len(Append(s, b)) = Len(s) + 1
            /\ Append(s, b)[Len(s) + 1] = b
            /\ \A k \in 1 .. Len(s) : Append(s, b)[k] = s[k]
        BY SMTT(30), <3>1
      <4>2. \A k \in 1 .. Len(s) : /\ New(s[k]) /\ s[k] # b
                                   /\ \A l \in 1 .. Len(s) : s[k] = s[l] => k = l
        <5>1. Prev[b] \in Block /\ UnlinkedInv
          BY <1>1, Zenon DEF DataInv
        <5>2. \A k \in 1 .. Len(s) :
                 /\ Fresh(s[k])
                 /\ \A l \in 1 .. Len(s) : s[k] = s[l] => k = l
          BY <5>1, Zenon DEF UnlinkedInv
        <5>3. \A k \in 1 .. Len(s) : New(s[k])
          BY <5>2, <1>3, Zenon
        <5>4. \A k \in 1 .. Len(s) : s[k] # b
          BY <3>1, <1>1, Zenon
        <5>. QED BY <5>2, <5>3, <5>4, Zenon
      <4>3. Len(s) \in Nat
        BY SMTT(30), <3>1
      <4>. HIDE DEF s, New
      <4>. QED BY SMTT(30), <3>1, <4>1, <4>2, <4>3, <1>4
    <3>5. ASSUME NEW i \in 1 .. Len(unlinked'[Prev[b]]) PROVE Good(Prev[b], i)
      BY Zenon, <2>2, <3>3, <3>4
    <3>6. \A p \in Block : \A i \in 1 .. Len(unlinked'[p]) : Good(p, i)
      BY <3>2, <3>5
    <3>. QED BY Zenon, <3>6 DEF UnlinkedInv, Fresh
  <2>. QED BY Zenon, <2>1, <2>2
<1>. QED BY Zenon, <1>2, <1>5, <1>6 DEF DataInv

\* A linked block leaves the queue, and those that waited for it enter it.
LEMMA LinkData ==
    ASSUME DataType, DataInv, queue # <<>>,
           linked' = linked \cup {Head(queue)},
           queue' = Tail(queue) \o unlinked[Head(queue)],
           unlinked' = [unlinked EXCEPT ![Head(queue)] = <<>>],
           candidates' \subseteq candidates \cup {Head(queue)},
           UNCHANGED <<have, mostWork>>
    PROVE  DataInv'
<1>. DEFINE b == queue[1]
            w == unlinked[b]
            n == Len(queue)
            s == Tail(queue) \o w
            New(x) == x \in have' \ linked' /\ x # Genesis
<1>1. /\ n \in Nat /\ n > 0 /\ b = Head(queue) /\ b \in Block
      /\ Fresh(b) /\ Prev[b] \in linked
  BY SMTT(30) DEF DataType, DataInv, QueueInv
<1>2. linked' = linked \cup {b} /\ queue' = s /\ unlinked' = [unlinked EXCEPT ![b] = <<>>]
  BY Zenon, <1>1
<1>3. w \in Seq(Block)
  BY Zenon, <1>1 DEF DataType
<1>4. \A j \in 1 .. Len(w) : /\ New(w[j]) /\ Prev[w[j]] = b
                              /\ \A k \in 1 .. Len(w) : w[j] = w[k] => j = k
  BY SMTT(30), <1>1, <1>2 DEF DataInv, UnlinkedInv, Fresh
<1>5. \A i \in 2 .. n : /\ New(queue[i]) /\ Prev[queue[i]] \in linked
                        /\ \A k \in 2 .. n : queue[i] = queue[k] => i = k
  BY SMTT(30), <1>1, <1>2 DEF DataInv, QueueInv, Fresh
<1>6. /\ Len(s) = n - 1 + Len(w) /\ Len(w) \in Nat
      /\ \A i \in 1 .. n - 1 : s[i] = queue[i + 1]
      /\ \A i \in n .. Len(s) : s[i] = w[i - (n - 1)]
  <2>1. /\ Tail(queue) \in Seq(Block) /\ Len(Tail(queue)) = n - 1
        /\ \A i \in 1 .. n - 1 : Tail(queue)[i] = queue[i + 1]
    BY SMTT(30), <1>1 DEF DataType
  <2>. HIDE DEF w, b
  <2>. QED BY SMTT(30), <1>1, <1>3, <2>1
<1>7. LinkedInv'
  BY <1>1, <1>2, TreeFacts DEF DataInv, LinkedInv, Fresh
<1>8. QueueInv'
  <2>1. b \in linked' /\ linked \subseteq linked' /\ b \notin linked
    BY Zenon, <1>1, <1>2 DEF Fresh
  <2>. HIDE DEF b, w, s, n, New
  <2>2. \A i \in 1 .. n - 1 : i + 1 \in 2 .. n /\ s[i] = queue[i + 1]
    BY SMTT(30), <1>1, <1>6
  <2>. DEFINE From(i) == i - (n - 1)
  <2>3. \A i \in n .. Len(s) : From(i) \in 1 .. Len(w) /\ s[i] = w[From(i)]
    BY SMTT(30), <1>1, <1>6
  <2>4. \A i \in 1 .. Len(s) : i \in Int /\ (i \in 1 .. n - 1 \/ i \in n .. Len(s))
    BY SMTT(30), <1>1, <1>6
  <2>7. \A i, k \in n .. Len(s) : From(i) = From(k) => i = k
    BY SMTT(30), <1>1, <2>4
  <2>. HIDE DEF From
  <2>8. \A i \in n .. Len(s) : New(s[i]) /\ Prev[s[i]] = b
    BY SMTT(30), <1>4, <2>3
  <2>9. \A i, k \in n .. Len(s) : s[i] = s[k] => i = k
    <3>1. SUFFICES ASSUME NEW i \in n .. Len(s), NEW k \in n .. Len(s), s[i] = s[k]
                   PROVE  i = k
      BY Zenon
    <3>2. /\ From(i) \in 1 .. Len(w) /\ From(k) \in 1 .. Len(w)
          /\ w[From(i)] = w[From(k)]
      BY <3>1, <2>3
    <3>3. From(i) = From(k)
      BY <3>2, <1>4
    <3>. QED BY <3>3, <2>7, Zenon
  <2>5. ASSUME NEW i \in 1 .. Len(s)
        PROVE  New(s[i]) /\ Prev[s[i]] \in linked'
    <3>1. CASE i \in 1 .. n - 1
      BY Zenon, <3>1, <1>5, <2>1, <2>2
    <3>2. CASE i \in n .. Len(s)
      BY Zenon, <3>2, <2>1, <2>8
    <3>. QED BY Zenon, <3>1, <3>2, <2>4
  <2>6. ASSUME NEW i \in 1 .. Len(s), NEW k \in 1 .. Len(s), s[i] = s[k]
        PROVE  i = k
    <3>1. CASE i \in 1 .. n - 1 /\ k \in 1 .. n - 1
      <4>1. i + 1 = k + 1
        BY Zenon, <3>1, <1>5, <2>2, <2>6
      <4>. QED BY SMTT(30), <4>1, <2>4
    <3>2. CASE i \in n .. Len(s) /\ k \in n .. Len(s)
      BY <3>2, <2>6, <2>9, Zenon
    <3>3. CASE i \in 1 .. n - 1 /\ k \in n .. Len(s)
      <4>1. Prev[s[i]] \in linked
        BY Zenon, <3>3, <1>5, <2>2
      <4>2. Prev[s[k]] = b
        BY Zenon, <3>3, <2>8
      <4>. QED BY Zenon, <4>1, <4>2, <2>1, <2>6
    <3>4. CASE i \in n .. Len(s) /\ k \in 1 .. n - 1
      <4>1. Prev[s[k]] \in linked
        BY Zenon, <3>4, <1>5, <2>2
      <4>2. Prev[s[i]] = b
        BY Zenon, <3>4, <2>8
      <4>. QED BY Zenon, <4>1, <4>2, <2>1, <2>6
    <3>. QED BY Zenon, <3>1, <3>2, <3>3, <3>4, <2>4
  <2>. QED BY Zenon, <1>2, <2>5, <2>6 DEF QueueInv, Fresh, New
<1>9. UnlinkedInv'
  <2>1. ASSUME NEW p \in Block, NEW i \in 1 .. Len(unlinked'[p])
        PROVE  /\ New(unlinked'[p][i]) /\ Prev[unlinked'[p][i]] = p
               /\ p \notin linked'
               /\ \A k \in 1 .. Len(unlinked'[p]) :
                     unlinked'[p][i] = unlinked'[p][k] => i = k
    <3>1. p # b
      <4>. SUFFICES ASSUME p = b PROVE FALSE
        OBVIOUS
      <4>1. unlinked'[p] = <<>>
        BY Zenon, <1>1, <1>2 DEF DataType
      <4>. QED BY SMTT(30), <2>1, <4>1
    <3>2. unlinked'[p] = unlinked[p]
      BY <1>2, <3>1 DEF DataType
    <3>. QED BY SMTT(30), <1>1, <1>2, <2>1, <3>1, <3>2 DEF DataInv, UnlinkedInv, Fresh
  <2>2. \A x : New(x) <=> Fresh(x)'
    BY DEF Fresh
  <2>. HIDE DEF New
  <2>. QED BY <2>1, <2>2 DEF UnlinkedInv
<1>. QED BY Zenon, <1>7, <1>8, <1>9 DEF DataInv

\* Each action keeps the bookkeeping of stored and linked blocks.
LEMMA DataStep ==
    ASSUME TypeOK, DataInv, NEW t \in Thread, Proceed(t)
    PROVE  DataInv'
<1>. DataType
  BY Zenon, TypeParts
<1>1. CASE StoreBlock(t)
  <2>. DEFINE b == job[t].blk
  <2>1. b \in Block /\ b \notin have /\ have' = have \cup {b}
    BY ZenonT(30), <1>1, JobFacts DEF StoreBlock, BodyAccepted
  <2>2. UNCHANGED <<linked, candidates, mostWork>>
    BY <1>1 DEF StoreBlock
  <2>3. \/ Prev[b] \in linked /\ queue' = <<b>> /\ unlinked' = unlinked
        \/ /\ Prev[b] \notin linked /\ queue' = queue
           /\ unlinked' \in {unlinked,
                  [unlinked EXCEPT ![Prev[b]] = Append(unlinked[Prev[b]], b)]}
    BY Zenon, <1>1 DEF StoreBlock
  <2>. HIDE DEF b
  <2>. QED BY Zenon, <2>1, <2>2, <2>3, StoreData
<1>2. CASE Link(t)
  <2>1. candidates' \subseteq candidates \cup {Head(queue)}
    BY Zenon, <1>2 DEF Link
  <2>. QED BY Zenon, <1>2, <2>1, LinkData DEF Link, Waiting
<1>3. CASE ~StoreBlock(t) /\ ~Link(t)
  <2>1. UNCHANGED <<have, linked, queue, unlinked>>
    BY Zenon, <1>3, Frame DEF TreeFrame
  <2>2. candidates' \subseteq candidates
    <3>1. CASE Find(t)
      BY Zenon, <3>1 DEF Find, Remaining
    <3>2. CASE ConnectTip(t)
      BY Zenon, <3>2 DEF ConnectTip, PruneBlockIndexCandidates
    <3>3. CASE RejectBody(t)
      BY <3>3 DEF RejectBody, InvalidBlockFound
    <3>4. CASE ConnectInvalid(t)
      BY Zenon, <3>4 DEF ConnectInvalid, InvalidBlockFound
    <3>. QED BY Zenon, <1>3, <3>1, <3>2, <3>3, <3>4, Frame DEF ChainFrame
  <2>3. mostWork' \in candidates \cup {NoBlock, mostWork}
    <3>1. CASE Find(t)
      BY Zenon, <3>1 DEF Find, FindMostWorkChain
    <3>2. CASE Connected(t)
      BY Zenon, <3>2 DEF Connected, TargetAfterStep
    <3>3. CASE LoopBegin(t) \/ ConnectTip(t) \/ ConnectInvalid(t)
      BY Zenon, <3>3 DEF LoopBegin, ConnectTip, ConnectInvalid
    <3>4. \A o : Return(t, o) => mostWork' = NoBlock
      BY DEF Return
    <3>5. CASE StepFails(t) \/ LeaveIdle(t) \/ FlushFails(t) \/ Flush(t)
      BY Zenon, <3>4, <3>5 DEF StepFails, LeaveIdle, FlushFails, Flush
    <3>. QED BY Zenon, <3>1, <3>2, <3>3, <3>5, Frame DEF ChainFrame
  <2>. QED BY Zenon, <2>1, <2>2, <2>3, SameData
<1>. QED BY Zenon, <1>1, <1>2, <1>3

\* The block that is linked is not a candidate yet when it gets its number.
LEMMA LinkOrder ==
    ASSUME TypeOK, DataInv, NEW t \in Thread, Link(t), NEW b \in candidates
    PROVE  seq'[b] = seq[b]
<1>1. /\ queue \in Seq(Block) /\ seq \in [Block -> Nat]
      /\ candidates \subseteq Block
  BY Zenon DEF TypeOK
<1>2. queue # <<>> /\ seq' = [seq EXCEPT ![Head(queue)] = nextSeq]
  BY Zenon DEF Link
<1>3. 1 \in 1 .. Len(queue) /\ Head(queue) = queue[1]
  BY SMTT(30), <1>1, <1>2
<1>4. queue[1] \notin linked
  BY Zenon, <1>3 DEF DataInv, QueueInv, Fresh
<1>5. b \in linked
  BY DEF DataInv, LinkedInv
<1>. QED BY Zenon, <1>1, <1>2, <1>3, <1>4, <1>5

-----------------------------------------------------------------------------
\* The initial state satisfies the inductive invariant.
LEMMA InitIInv == Init => IInv
<1>. SUFFICES ASSUME Init PROVE IInv
  OBVIOUS
<1>. USE TreeFacts
<1>1. TypeOK
  BY SMTT(30) DEF Init, TypeOK, NoJob, NotChecked, Reasons
<1>2. LockInv
  BY Zenon DEF Init, LockInv
<1>3. FlagInv
  BY Zenon DEF Init, FlagInv, FailureFlagsExact
<1>4. QueueInv /\ UnlinkedInv
  BY SMTT(30) DEF Init, QueueInv, UnlinkedInv
<1>5. LinkedInv /\ LocalInv
  BY Zenon DEF Init, LinkedInv, LocalInv
<1>6. TipInv
  BY Zenon DEF Init, TipInv
<1>. QED BY <1>1, <1>2, <1>3, <1>4, <1>5, <1>6 DEF IInv

-----------------------------------------------------------------------------
(* The failure flags. *)

\* Steps that leave the flags and the headers alone.
LEMMA SameFlags ==
    ASSUME FlagInv, index' = index, failed' = failed
    PROVE  FlagInv'
BY Zenon DEF FlagInv, FailureFlagsExact, BadAncestor, Condemning

\* An accepted header has no flagged ancestor: AcceptBlockHeader looks at the
\* parent only, and the flags of its other ancestors are on the parent too.
LEMMA InsertFlags ==
    ASSUME FlagInv, index \subseteq Block, NEW b \in Block,
           AcceptBlockHeader(b) = "valid",
           index' = index \cup {b}, failed' = failed
    PROVE  FlagInv'
<1>1. ASSUME NEW f \in failed, f \in Anc[b] PROVE b \in failed
  <2>1. CASE b = Genesis
    BY Zenon, <1>1, <2>1, TreeFacts DEF FlagInv, FailureFlagsExact, BadAncestor, Condemning
  <2>2. CASE b # Genesis /\ b \in index
    BY Zenon, <1>1, <2>2 DEF FlagInv, FailureFlagsExact
  <2>3. CASE b # Genesis /\ b \notin index
    <3>1. Prev[b] \in index /\ Prev[b] \notin failed
      BY Zenon, <2>3 DEF AcceptBlockHeader
    <3>2. f # b
      BY Zenon, <1>1, <2>3 DEF FlagInv
    <3>. QED BY SMTT(30), <1>1, <2>3, <3>1, <3>2, TreeFacts DEF FlagInv, FailureFlagsExact
  <2>. QED BY Zenon, <2>1, <2>2, <2>3
<1>. QED BY Zenon, <1>1 DEF FlagInv, FailureFlagsExact, BadAncestor, Condemning

\* Flagging a block that breaks a rule, with all its indexed descendants.
LEMMA CondemnFlags ==
    ASSUME FlagInv, index \subseteq Block, NEW b \in Block,
           Verdict[b] \in Condemning, InvalidBlockFound(b)
    PROVE  FlagInv'
<1>. DEFINE known == index \cup {b}
<1>1. index' = known /\ failed' = failed \cup {x \in known : b \in Anc[x]}
  BY DEF InvalidBlockFound, Descendants
<1>2. known \subseteq Block
  OBVIOUS
<1>3. failed' \subseteq index'
  BY Zenon, <1>1 DEF FlagInv
<1>4. ASSUME NEW f \in failed' PROVE BadAncestor(f)
  BY Zenon, <1>1, <1>4 DEF FlagInv, FailureFlagsExact, BadAncestor, Condemning
<1>5. ASSUME NEW f \in failed', NEW x \in index', f \in Anc[x]
      PROVE  x \in failed'
  <2>1. CASE b \in Anc[f]
    BY Zenon, <1>1, <1>2, <1>5, <2>1, TreeFacts
  <2>2. CASE f \in failed /\ x \in index
    BY Zenon, <1>1, <1>5, <2>2 DEF FlagInv, FailureFlagsExact
  <2>3. CASE x = b
    BY Zenon, <1>1, <2>3, TreeFacts
  <2>. QED BY Zenon, <1>1, <1>5, <2>1, <2>2, <2>3
<1>. QED BY Zenon, <1>3, <1>4, <1>5 DEF FlagInv, FailureFlagsExact, BadAncestor, Condemning

\* Each action keeps the flags exact.
LEMMA FlagStep ==
    ASSUME TypeOK, FlagInv, NEW t \in Thread, Proceed(t)
    PROVE  FlagInv'
<1>. index \subseteq Block
  BY DEF TypeOK
<1>1. CASE AcceptHeader(t)
  <2>1. CASE AcceptBlockHeader(job[t].blk) = "valid"
    BY Zenon, <1>1, <2>1, JobFacts, InsertFlags DEF AcceptHeader, AddToBlockIndex
  <2>2. CASE AcceptBlockHeader(job[t].blk) # "valid"
    BY Zenon, <1>1, <2>2, SameFlags DEF AcceptHeader
  <2>. QED BY Zenon, <2>1, <2>2
<1>2. CASE RejectBody(t)
  <2>1. CASE Condemns(ContextualCheckBlock(job[t]))
    <3>1. Verdict[job[t].blk] \in Condemning
      BY Zenon, <1>2, <2>1 DEF RejectBody, Condemns, ContextualCheckBlock, Condemning
    <3>2. InvalidBlockFound(job[t].blk)
      BY Zenon, <1>2, <2>1 DEF RejectBody
    <3>. QED BY Zenon, <3>1, <3>2, JobFacts, CondemnFlags
  <2>2. CASE ~Condemns(ContextualCheckBlock(job[t]))
    BY Zenon, <1>2, <2>2, JobFacts, InsertFlags
    DEF RejectBody, HeaderAccepted, AddToBlockIndex
  <2>. QED BY Zenon, <2>1, <2>2
<1>3. CASE WriteFails(t)
  BY Zenon, <1>3, JobFacts, InsertFlags
  DEF WriteFails, BodyAccepted, HeaderAccepted, AddToBlockIndex
<1>4. CASE StoreBlock(t)
  BY Zenon, <1>4, JobFacts, InsertFlags
  DEF StoreBlock, BodyAccepted, HeaderAccepted, AddToBlockIndex
<1>5. CASE ConnectInvalid(t)
  BY Zenon, <1>5, CondemnFlags DEF ConnectInvalid, Condemning
<1>. QED BY Zenon, <1>1, <1>2, <1>3, <1>4, <1>5, Frame, SameFlags DEF TreeFrame

\* A chain of valid blocks has no failed block.
LEMMA ValidNotFailed ==
    ASSUME FlagInv, NEW b \in Block, \A a \in Anc[b] : Verdict[a] = "valid"
    PROVE  Anc[b] \cap failed = {}
<1>. SUFFICES ASSUME NEW f \in Anc[b], f \in failed PROVE FALSE
  OBVIOUS
<1>1. BadAncestor(f)
  BY DEF FlagInv, FailureFlagsExact
<1>2. Anc[f] \subseteq Anc[b]
  BY TreeFacts
<1>. QED BY <1>1, <1>2 DEF BadAncestor, Condemning

-----------------------------------------------------------------------------
(* The active chain. *)

\* Steps that do not move the tip.
LEMMA SameTip ==
    ASSUME TipInv, tip' = tip, have \subseteq have'
    PROVE  TipInv'
BY Zenon DEF TipInv

\* Only blocks ConnectBlock accepts are put on the chain, on top of it, and
\* their data is stored.
LEMMA TipStep ==
    ASSUME TypeOK, LinkedInv, LocalInv, TipInv, NEW t \in Thread, Proceed(t)
    PROVE  TipInv'
<1>1. CASE DisconnectTip(t)
  <2>1. mostWork \in Block /\ tip \notin Anc[mostWork] /\ tip' = Prev[tip]
    BY Zenon, <1>1 DEF DisconnectTip, Above, SetTip, TypeOK, LocalInv
  <2>2. tip \in Block /\ tip # Genesis
    <3>1. tip \in Block
      BY Zenon DEF TypeOK
    <3>. QED BY Zenon, <2>1, <3>1, TreeFacts
  <2>3. Anc[tip'] \subseteq Anc[tip]
    BY Zenon, <2>1, <2>2, TreeFacts
  <2>4. have' = have
    BY Zenon, <1>1 DEF DisconnectTip
  <2>. QED BY Zenon, <2>3, <2>4 DEF TipInv
<1>2. CASE ConnectTip(t)
  <2>1. PICK b \in Block : Successor(b) /\ Verdict[b] = "valid" /\ tip' = b
    BY Zenon, <1>2 DEF ConnectTip, ConnectBlock, SetTip
  <2>2. mostWork \in linked
    BY Zenon, <1>2 DEF ConnectTip, LocalInv, LinkedInv
  <2>3. b \in have /\ b # Genesis /\ Prev[b] = tip
    BY Zenon, <2>1, <2>2 DEF Successor, LinkedInv
  <2>4. Anc[b] = {b} \cup Anc[tip]
    BY Zenon, <2>3, TreeFacts
  <2>5. have' = have
    BY <1>2 DEF ConnectTip
  <2>. QED BY Zenon, <2>1, <2>3, <2>4, <2>5 DEF TipInv
<1>3. have \subseteq have'
  BY Zenon, Frame DEF TreeFrame, StoreBlock, Link
<1>. QED BY Zenon, <1>1, <1>2, <1>3, Frame, SameTip DEF ChainFrame

-----------------------------------------------------------------------------
(* The theorems. *)

\* Interrupt and the beginning of a call touch nothing the rest of the
\* invariant is about.
LEMMA OutsideStep ==
    ASSUME IInv, Interrupt \/ \E t \in Thread, j \in Jobs : Begin(t, j)
    PROVE  IInv'
<1>. /\ CallType /\ TreeType /\ DataType /\ ChainType /\ AbcType /\ LockType
     /\ ListenType /\ CountType /\ DataInv
  BY Zenon, TypeParts DEF IInv, DataInv
<1>1. CASE Interrupt
  <2>1. TypeOK'
    <3>1. TreeType' /\ CountType'
      BY Zenon, <1>1 DEF Interrupt, TreeType, CountType
    <3>2. DataType'
      BY <1>1 DEF Interrupt, DataType
    <3>3. ChainType' /\ LockType'
      BY <1>1 DEF Interrupt, ChainType, LockType
    <3>6. AbcType'
      BY Zenon, <1>1 DEF Interrupt, AbcType
    <3>4. CallType'
      BY Zenon, <1>1 DEF Interrupt, CallType
    <3>5. ListenType'
      BY Zenon, <1>1 DEF Interrupt, ListenType
    <3>. QED BY Zenon, <3>1, <3>2, <3>3, <3>4, <3>5, <3>6
             DEF TypeOK, TreeType, DataType, ChainType, AbcType, LockType,
                 CallType, ListenType, CountType
  <2>2. LockInv' /\ LocalInv'
    BY Zenon, <1>1 DEF Interrupt, IInv, LockInv, LocalInv
  <2>3. FlagInv' /\ TipInv'
    BY Zenon, <1>1, SameFlags, SameTip DEF Interrupt, IInv
  <2>4. DataInv'
    BY Zenon, <1>1, SameData DEF Interrupt
  <2>. QED BY Zenon, <2>1, <2>2, <2>3, <2>4 DEF IInv, DataInv
<1>2. ASSUME NEW t \in Thread, NEW j \in Jobs, Begin(t, j) PROVE IInv'
  <2>1. TypeOK'
    <3>1. TreeType' /\ CountType'
      BY <1>2 DEF Begin, TreeType, CountType
    <3>2. DataType'
      BY <1>2 DEF Begin, DataType
    <3>3. ChainType' /\ LockType'
      BY Zenon, <1>2 DEF Begin, ChainType, LockType
    <3>6. AbcType'
      BY Zenon, <1>2 DEF Begin, AbcType
    <3>4. CallType'
      BY Zenon, <1>2 DEF Begin, CallType
    <3>5. ListenType'
      BY Zenon, <1>2 DEF Begin, ListenType
    <3>. QED BY Zenon, <3>1, <3>2, <3>3, <3>4, <3>5, <3>6
             DEF TypeOK, TreeType, DataType, ChainType, AbcType, LockType,
                 CallType, ListenType, CountType
  <2>2. LockInv' /\ LocalInv'
    <3>1. /\ pc' = [pc EXCEPT ![t] = "accept"] /\ pc[t] = "idle"
          /\ UNCHANGED <<chainMutex, csMain, mostWork, progressed, newTip>>
          /\ pc \in [Thread -> Pc]
      BY Zenon, <1>2 DEF Begin, IInv, TypeOK
    <3>2. LockInv'
      BY <3>1 DEF IInv, LockInv
    <3>3. LocalInv'
      BY Zenon, <3>1 DEF IInv, LocalInv
    <3>. QED BY Zenon, <3>2, <3>3
  <2>3. FlagInv' /\ TipInv'
    BY Zenon, <1>2, SameFlags, SameTip DEF Begin, IInv
  <2>4. DataInv'
    BY Zenon, <1>2, SameData DEF Begin
  <2>. QED BY Zenon, <2>1, <2>2, <2>3, <2>4 DEF IInv, DataInv
<1>. QED BY Zenon, <1>1, <1>2

\* The invariant is inductive.
LEMMA NextIInv == IInv /\ [Next]_vars => IInv'
<1>. SUFFICES ASSUME IInv, [Next]_vars PROVE IInv'
  OBVIOUS
<1>1. CASE UNCHANGED vars
  <2>1. TypeOK'
    <3>1. TreeType' /\ DataType' /\ ChainType'
      BY Zenon, <1>1, TypeParts DEF IInv, vars, TreeType, DataType, ChainType
    <3>3. AbcType' /\ LockType'
      BY <1>1, TypeParts DEF IInv, vars, AbcType, LockType
    <3>2. CallType' /\ ListenType' /\ CountType'
      BY Zenon, <1>1, TypeParts DEF IInv, vars, CallType, ListenType, CountType
    <3>. QED BY Zenon, <3>1, <3>2, <3>3
             DEF TypeOK, TreeType, DataType, ChainType, AbcType, LockType,
                 CallType, ListenType, CountType
  <2>2. LockInv' /\ LocalInv'
    BY Zenon, <1>1 DEF vars, IInv, LockInv, LocalInv
  <2>3. FlagInv' /\ TipInv'
    BY Zenon, <1>1, SameFlags, SameTip DEF vars, IInv
  <2>4. DataInv'
    BY Zenon, <1>1, SameData DEF vars, IInv, DataInv
  <2>. QED BY Zenon, <2>1, <2>2, <2>3, <2>4 DEF IInv, DataInv
<1>2. ASSUME NEW t \in Thread, Proceed(t) PROVE IInv'
  <2>1. TypeOK'
    <3>1. /\ TreeType' /\ DataType' /\ ChainType' /\ AbcType' /\ LockType'
          /\ CallType' /\ ListenType' /\ CountType'
      BY Zenon, <1>2, TreeTypeStep, DataTypeStep, ChainTypeStep, AbcTypeStep,
         LockTypeStep, CallTypeStep, ListenTypeStep, CountTypeStep DEF IInv
    <3>. QED BY Zenon, <3>1
             DEF TypeOK, TreeType, DataType, ChainType, AbcType, LockType,
                 CallType, ListenType, CountType
  <2>2. pc \in [Thread -> Pc]
    BY DEF IInv, TypeOK
  <2>3. LockInv' /\ FlagInv' /\ TipInv' /\ LocalInv'
    BY Zenon, <1>2, <2>2, LockStep, FlagStep, TipStep, LocalStep DEF IInv
  <2>4. DataInv'
    BY <1>2, DataStep DEF IInv, DataInv
  <2>. QED BY Zenon, <2>1, <2>3, <2>4 DEF IInv, DataInv
<1>. QED BY <1>1, <1>2, OutsideStep DEF Next

\* The inductive invariant holds throughout.
THEOREM Inductive == Spec => []IInv
BY InitIInv, NextIInv, PTL DEF Spec

\* Every variable keeps its type; in particular DisconnectTip never steps
\* below the genesis block and block_tip always has a block to report.
THEOREM TypeCorrect == Spec => []TypeOK
<1>1. IInv => TypeOK
  BY DEF IInv
<1>. QED BY <1>1, Inductive, PTL

\* BLOCK_FAILED_VALID is exact (InvalidBlockFound, AcceptBlockHeader).
THEOREM FlagsExact == Spec => []FailureFlagsExact
<1>1. IInv => FailureFlagsExact
  BY Zenon DEF IInv, FlagInv
<1>. QED BY <1>1, Inductive, PTL

\* Whatever threads submit, in whatever order and with whatever system
\* errors, ConnectTip puts only stored valid blocks on the active chain.
THEOREM ChainValid == Spec => []ActiveChainValid
<1>1. IInv => ActiveChainValid
  <2>. SUFFICES ASSUME IInv, NEW b \in Anc[tip]
                PROVE  Acceptable(b) /\ b \notin failed
    BY Zenon DEF ActiveChainValid
  <2>1. tip \in Block
    BY Zenon DEF IInv, TypeOK
  <2>2. Anc[b] \subseteq Anc[tip]
    BY Zenon, <2>1, TreeFacts
  <2>3. \A a \in Anc[b] : a \in have /\ Verdict[a] = "valid"
    BY Zenon, <2>2 DEF IInv, TipInv
  <2>4. ~BadAncestor(b)
    BY <2>3 DEF BadAncestor, Condemning
  <2>. QED BY Zenon, <2>3, <2>4 DEF Acceptable, IInv, FlagInv, FailureFlagsExact
<1>. QED BY <1>1, Inductive, PTL

\* ReceivedBlockTransactions gives a block its nSequenceId before the block
\* can be in setBlockIndexCandidates, and never again.
THEOREM OrderStable == Spec => CandidateOrderStable
<1>1. ASSUME IInv, [Next]_vars PROVE [\A b \in candidates : seq'[b] = seq[b]]_vars
  <2>. SUFFICES ASSUME Next, NEW b \in candidates PROVE seq'[b] = seq[b]
    BY Zenon, <1>1
  <2>1. CASE seq' = seq
    BY Zenon, <2>1
  <2>2. ASSUME NEW t \in Thread, Link(t) PROVE seq'[b] = seq[b]
    BY Zenon, <1>1, <2>2, LinkOrder DEF IInv, DataInv
  <2>3. CASE Interrupt \/ \E t \in Thread, j \in Jobs : Begin(t, j)
    BY <2>1, <2>3 DEF Interrupt, Begin
  <2>4. ASSUME NEW t \in Thread, Proceed(t), ~Link(t) PROVE seq' = seq
    BY Zenon, <2>4, Frame DEF TreeFrame, StoreBlock
  <2>. QED BY Zenon, <2>1, <2>2, <2>3, <2>4 DEF Next
<1>. QED BY <1>1, Inductive, PTL DEF Spec, CandidateOrderStable

-----------------------------------------------------------------------------
(* The tip other threads see.                                              *)

\* When cs_main is free the tip is the one shown last.
RestInv == (\A t \in Thread : pc[t] \notin InStep) => shown = tip

\* A target that outlives a step is on top of the tip.
TargetOf(t) ==
    \/ pc[t] \in {"loop", "find", "leave", "flush"}
    \/ pc[t] = "connected" /\ found = "no"
    => mostWork = NoBlock \/ tip \in Anc[mostWork]

\* Where the tip is, compared with the one the section began with.
SectionOf(t) ==
    pc[t] \in InStep =>
        /\ startTip = shown
        /\ pc[t] \in {"find", "leave"} /\ progressed = "no" => tip = startTip
        /\ pc[t] = "find" /\ progressed = "yes" => Worse(tip, startTip)
        /\ pc[t] = "step" /\ tip \notin Anc[mostWork] =>
              tip = startTip \/ Worse(tip, startTip)

\* The first tip stays a candidate until the tip is at least as good and the
\* step disconnects nothing any more.
Regained(t) ==
    /\ ~Worse(tip, startTip) /\ pc[t] # "find"
    /\ pc[t] = "step" => tip \in Anc[mostWork]
GainOf(t) ==
    fatal = "no" /\ pc[t] \in InStep =>
        /\ pc[t] = "leave" /\ progressed = "yes" => ~Worse(tip, startTip)
        /\ mostWork # NoBlock => ~Worse(mostWork, startTip)
        /\ startTip \in candidates \/ Regained(t)

\* A linked block is dropped from the candidates only when it is behind.
KeptInv ==
    fatal = "no" => \A b \in linked : Anc[b] \cap failed = {} =>
        b \in candidates \/ Worse(b, shown) \/ Worse(b, tip)

ShownInv ==
    /\ shown \in linked /\ tip \in linked
    /\ \A b \in Anc[shown] : b \in have /\ Verdict[b] = "valid"

ThreadInv == \A t \in Thread : TargetOf(t) /\ SectionOf(t) /\ GainOf(t)
VisibleInv ==
    /\ RestInv /\ ThreadInv /\ KeptInv /\ ShownInv
    /\ chainMutex = NoThread => mostWork = NoBlock

\* The comparison orders the blocks.
LEMMA WorseOrder ==
    ASSUME seq \in [Block -> Nat]
    PROVE  /\ \A a \in Block : ~Worse(a, a)
           /\ \A a, b \in Block : Worse(a, b) => ~Worse(b, a)
           /\ \A a, b, c \in Block : Worse(a, b) /\ ~Worse(c, b) => Worse(a, c)
           /\ \A a, b, c \in Block : Worse(a, b) /\ Worse(b, c) => Worse(a, c)
           /\ \A a, b \in Block : Work[a] < Work[b] => Worse(a, b)
           /\ \A a, b, c \in Block : Work[a] < Work[b] /\ ~Worse(a, c) => ~Worse(b, c)
           /\ \A a, b, c \in Block : Worse(a, b) /\ Work[b] < Work[c] => Worse(a, c)
           /\ \A a, b, c \in Block : Work[c] < Work[a] /\ Worse(a, b) => Worse(c, b)
<1>1. /\ \A a \in Block : Work[a] \in Nat /\ seq[a] \in Nat
      /\ \A a, b \in Block :
            Worse(a, b) <=> Work[a] < Work[b] \/ (Work[a] = Work[b] /\ seq[b] < seq[a])
  BY TreeConstants DEF TreeConstants, Worse, WorseIn
<1>2. /\ \A a \in Block : ~Worse(a, a)
      /\ \A a, b \in Block : Worse(a, b) => ~Worse(b, a)
      /\ \A a, b \in Block : Work[a] < Work[b] => Worse(a, b)
  BY SMTT(30), <1>1
<1>3. \A a, b, c \in Block : Worse(a, b) /\ ~Worse(c, b) => Worse(a, c)
  BY SMTT(30), <1>1
<1>4. \A a, b, c \in Block : Worse(a, b) /\ Worse(b, c) => Worse(a, c)
  BY SMTT(30), <1>1
<1>5. \A a, b, c \in Block : Work[a] < Work[b] /\ ~Worse(a, c) => ~Worse(b, c)
  BY SMTT(30), <1>1
<1>6. \A a, b, c \in Block : Worse(a, b) /\ Work[b] < Work[c] => Worse(a, c)
  BY SMTT(30), <1>1
<1>7. \A a, b, c \in Block : Work[c] < Work[a] /\ Worse(a, b) => Worse(c, b)
  BY SMTT(30), <1>1
<1>. QED BY Zenon, <1>2, <1>3, <1>4, <1>5, <1>6, <1>7

\* A block is no better than what is on top of it.
LEMMA WorseAncestor ==
    ASSUME seq \in [Block -> Nat], NEW b \in Block, NEW a \in Anc[b]
    PROVE  ~Worse(b, a)
<1>1. a \in Block
  BY TreeFacts
<1>2. a = b \/ Worse(a, b)
  BY <1>1, WorseOrder, TreeConstants DEF TreeConstants
<1>. QED BY <1>1, <1>2, WorseOrder

LEMMA ParentWork ==
    ASSUME NEW b \in Block \ {Genesis}
    PROVE  Prev[b] \in Block /\ Prev[b] \in Anc[b] /\ Work[Prev[b]] < Work[b]
BY SMTT(30), TreeFacts, TreeConstants DEF TreeConstants

\* A flag once set is never taken back.
LEMMA FailedGrows ==
    ASSUME NEW t \in Thread, Proceed(t)
    PROVE  failed \subseteq failed'
<1>1. \/ failed' = failed
      \/ \E x \in {job[t].blk} \cup Block : InvalidBlockFound(x)
  BY Zenon, Frame DEF TreeFrame, RejectBody, ConnectInvalid
<1>. QED BY Zenon, <1>1 DEF InvalidBlockFound

\* The shown tip and the tip are usable.
LEMMA TipsUsable ==
    ASSUME IInv, VisibleInv
    PROVE  /\ shown \in Block /\ tip \in Block /\ seq \in [Block -> Nat]
           /\ Anc[shown] \cap failed = {} /\ Anc[tip] \cap failed = {}
           /\ shown \in linked /\ tip \in linked
           /\ candidates \subseteq Block /\ linked \subseteq Block
           /\ pc \in [Thread -> Pc]
<1>1. /\ shown \in Block /\ tip \in Block /\ seq \in [Block -> Nat]
      /\ candidates \subseteq Block /\ linked \subseteq Block
      /\ pc \in [Thread -> Pc]
  BY Zenon DEF IInv, TypeOK
<1>2. FlagInv
  BY DEF IInv
<1>3. Anc[shown] \cap failed = {}
  BY <1>1, <1>2, ValidNotFailed DEF VisibleInv, ShownInv
<1>4. Anc[tip] \cap failed = {}
  BY <1>1, <1>2, ValidNotFailed DEF IInv, TipInv
<1>. QED BY <1>1, <1>3, <1>4 DEF VisibleInv, ShownInv

\* Steps outside of ActivateBestChain that change no block.
LEMMA VisibleStays ==
    ASSUME VisibleInv, UNCHANGED <<tip, shown, abc, candidates, failed, linked, seq>>,
           chainMutex' = chainMutex, have \subseteq have', fatal' \in {fatal, "yes"},
           \A u \in Thread : pc'[u] = pc[u] \/ {pc[u], pc'[u]} \cap Activating = {}
    PROVE  VisibleInv'
<1>1. \A u \in Thread : pc'[u] = pc[u] \/ (pc[u] \notin InStep /\ pc'[u] \notin InStep)
  BY Zenon DEF InStep
<1>2. RestInv'
  BY <1>1 DEF VisibleInv, RestInv
<1>3. ASSUME NEW u \in Thread PROVE TargetOf(u)' /\ SectionOf(u)' /\ GainOf(u)'
  <2>1. CASE pc'[u] = pc[u]
    BY <2>1 DEF VisibleInv, ThreadInv, TargetOf, SectionOf, GainOf, Regained, Worse, WorseIn
  <2>2. CASE pc'[u] \notin Activating
    BY <2>2 DEF TargetOf, SectionOf, GainOf, InStep
  <2>. QED BY Zenon, <2>1, <2>2
<1>4. KeptInv' /\ ShownInv'
  BY DEF VisibleInv, KeptInv, ShownInv, Worse, WorseIn
<1>. QED BY <1>2, <1>3, <1>4 DEF VisibleInv, ThreadInv

LEMMA QuietVisible ==
    ASSUME IInv, VisibleInv, NEW t \in Thread,
           \/ Done(t) \/ AcceptHeader(t) \/ RejectUnindexed(t) \/ WriteFails(t)
           \/ StoreBlock(t) \/ KnownBlock(t) \/ LinkDone(t) \/ NotifyHeaderTip(t)
           \/ HeaderTip(t) \/ CoinsMismatch(t)
    PROVE  VisibleInv'
<1>1. /\ UNCHANGED <<tip, shown, abc, candidates, failed, linked, seq>>
      /\ chainMutex' = chainMutex /\ have \subseteq have' /\ fatal' \in {fatal, "yes"}
  BY Zenon DEF Done, AcceptHeader, RejectUnindexed, WriteFails, StoreBlock, KnownBlock,
     LinkDone, NotifyHeaderTip, HeaderTip, CoinsMismatch, FatalError
<1>2. \/ pc' = pc
      \/ /\ pc[t] \in {"done", "accept", "link", "notify", "header_tip"}
         /\ \E p \in {"idle", "done", "notify", "link", "header_tip", "abc"} :
               pc' = [pc EXCEPT ![t] = p]
  BY Zenon DEF Done, AcceptHeader, RejectUnindexed, WriteFails, StoreBlock, KnownBlock,
     LinkDone, NotifyHeaderTip, HeaderTip, CoinsMismatch, Reject, InAcceptBlock,
     HeaderAccepted, BodyAccepted, AfterNotify
<1>3. \A u \in Thread : pc'[u] = pc[u] \/ {pc[u], pc'[u]} \cap Activating = {}
  BY ZenonT(30), <1>2, TipsUsable
<1>. QED BY <1>1, <1>3, VisibleStays

\* While cs_main is free, or held for linking, no thread is in the section.
LEMMA OutOfSection ==
    ASSUME IInv, NEW t \in Thread, csMain = NoThread \/ pc[t] = "link"
    PROVE  \A u \in Thread : pc[u] \notin InStep
<1>1. LockInv /\ NoThread \notin Thread
  BY TreeFacts DEF IInv
<1>. QED BY <1>1, Zenon DEF LockInv, InStep

\* The candidates change while no thread is in the section.
LEMMA CandidatesVisible ==
    ASSUME VisibleInv, UNCHANGED <<tip, shown, abc>>, chainMutex' = chainMutex,
           \A u \in Thread : pc[u] \notin InStep /\ pc'[u] \notin InStep,
           \A u \in Thread : pc'[u] = pc[u] \/ pc'[u] \notin Activating,
           KeptInv', ShownInv'
    PROVE  VisibleInv'
<1>1. RestInv'
  BY DEF VisibleInv, RestInv
<1>2. ASSUME NEW u \in Thread PROVE TargetOf(u)' /\ SectionOf(u)' /\ GainOf(u)'
  <2>1. SectionOf(u)' /\ GainOf(u)'
    BY DEF SectionOf, GainOf
  <2>2. TargetOf(u)'
    BY DEF VisibleInv, ThreadInv, TargetOf, InStep
  <2>. QED BY <2>1, <2>2
<1>. QED BY <1>1, <1>2 DEF VisibleInv, ThreadInv

LEMMA RejectBodyVisible ==
    ASSUME IInv, VisibleInv, NEW t \in Thread, RejectBody(t)
    PROVE  VisibleInv'
<1>. DEFINE b == job[t].blk
<1>1. /\ UNCHANGED <<tip, shown, abc, linked, seq, have, fatal>> /\ chainMutex' = chainMutex
      /\ csMain = NoThread /\ pc' = [pc EXCEPT ![t] = "done"] /\ b \notin have
      /\ InvalidBlockFound(b) \/ UNCHANGED <<failed, candidates>>
  BY Zenon DEF RejectBody, Reject, HeaderAccepted, InAcceptBlock
<1>2. \A u \in Thread : pc[u] \notin InStep
  BY <1>1, OutOfSection
<1>3. \A u \in Thread : pc'[u] = pc[u] \/ pc'[u] = "done"
  BY <1>1, TipsUsable
<1>4. failed \subseteq failed' /\ candidates \ {b} \subseteq candidates'
  BY Zenon, <1>1 DEF InvalidBlockFound
<1>5. b \notin linked
  BY <1>1 DEF IInv, LinkedInv
<1>6. KeptInv'
  BY <1>1, <1>4, <1>5 DEF VisibleInv, KeptInv, Worse, WorseIn
<1>7. ShownInv'
  BY ZenonT(30), <1>1 DEF VisibleInv, ShownInv
<1>. QED BY <1>1, <1>2, <1>3, <1>6, <1>7, CandidatesVisible DEF InStep

LEMMA LinkVisible ==
    ASSUME IInv, VisibleInv, NEW t \in Thread, Link(t)
    PROVE  VisibleInv'
<1>. DEFINE b == Head(queue)
<1>1. /\ UNCHANGED <<tip, shown, abc, have, failed, pc, fatal>> /\ chainMutex' = chainMutex
      /\ pc[t] = "link" /\ linked' = linked \cup {b}
      /\ seq' = [seq EXCEPT ![b] = nextSeq]
      /\ candidates' = IF WorseIn(seq', b, tip) THEN candidates ELSE candidates \cup {b}
  BY Zenon DEF Link
<1>2. \A u \in Thread : pc[u] \notin InStep
  BY <1>1, OutOfSection
<1>3. b \notin linked
  <2>1. queue # <<>> /\ queue \in Seq(Block)
    BY Zenon DEF Link, IInv, TypeOK
  <2>2. 1 \in 1 .. Len(queue) /\ b = queue[1]
    BY SMTT(30), <2>1
  <2>. QED BY Zenon, <2>2 DEF IInv, QueueInv, Fresh
<1>. HIDE DEF b
<1>4. seq \in [Block -> Nat] /\ \A x \in linked : x \in Block /\ seq'[x] = seq[x]
  BY <1>1, <1>3, TipsUsable
<1>5. KeptInv'
  <2>. SUFFICES ASSUME fatal = "no", NEW x \in linked \cup {b}, Anc[x] \cap failed = {}
                PROVE  x \in candidates' \/ Worse(x, shown)' \/ Worse(x, tip)'
    BY Zenon, <1>1 DEF KeptInv
  <2>1. CASE x \in linked
    <3>1. x \in candidates \/ Worse(x, shown) \/ Worse(x, tip)
      BY <2>1 DEF VisibleInv, KeptInv
    <3>. QED BY ZenonT(30), <1>1, <1>4, <2>1, <3>1, TipsUsable DEF Worse, WorseIn
  <2>2. CASE x = b
    BY <1>1, <2>2 DEF Worse
  <2>. QED BY <2>1, <2>2
<1>6. ShownInv'
  BY <1>1 DEF VisibleInv, ShownInv
<1>. QED BY <1>1, <1>2, <1>5, <1>6, CandidatesVisible DEF InStep

\* A step of ActivateBestChain: the other threads are outside of it.
LEMMA ActingVisible ==
    ASSUME IInv, NEW t \in Thread, Proceed(t), pc[t] \in Activating,
           TargetOf(t)', SectionOf(t)', GainOf(t)'
    PROVE  ThreadInv'
<1>. SUFFICES ASSUME NEW u \in Thread \ {t}
              PROVE  TargetOf(u)' /\ SectionOf(u)' /\ GainOf(u)'
  BY DEF ThreadInv
<1>1. pc'[u] = pc[u]
  BY Zenon, PlaceFrame DEF IInv, TypeOK, Places
<1>2. pc[u] \notin Activating
  BY Zenon DEF IInv, LockInv
<1>. QED BY ZenonT(30), <1>1, <1>2 DEF TargetOf, SectionOf, GainOf, InStep

LEMMA BeginVisible ==
    ASSUME IInv, VisibleInv, NEW t \in Thread, ActivateBestChain(t)
    PROVE  VisibleInv'
<1>1. /\ UNCHANGED <<tip, shown, abc, candidates, failed, linked, seq, have, fatal>>
      /\ chainMutex = NoThread /\ chainMutex' = t /\ pc[t] = "abc"
      /\ pc' = [pc EXCEPT ![t] = "loop"]
  BY Zenon DEF ActivateBestChain
<1>2. mostWork = NoBlock /\ NoThread \notin Thread
  BY Zenon, <1>1, TreeFacts DEF VisibleInv
<1>3. \A u \in Thread : pc[u] \notin InStep /\ pc'[u] \notin InStep
  <2>1. \A u \in Thread : pc[u] \notin Activating
    BY <1>1, <1>2, Zenon DEF IInv, LockInv
  <2>. QED BY <1>1, <2>1, TipsUsable DEF InStep
<1>4. RestInv'
  BY <1>1, <1>3 DEF VisibleInv, RestInv
<1>5. ThreadInv'
  BY ZenonT(30), <1>1, <1>2, <1>3 DEF ThreadInv, TargetOf, SectionOf, GainOf
<1>6. KeptInv' /\ ShownInv'
  BY <1>1 DEF VisibleInv, KeptInv, ShownInv, Worse, WorseIn
<1>. QED BY <1>1, <1>2, <1>4, <1>5, <1>6 DEF VisibleInv

\* The section begins: its first tip is a candidate, for it is not behind
\* itself, and a target from an earlier turn is not behind it either.
LEMMA LoopBeginVisible ==
    ASSUME IInv, VisibleInv, NEW t \in Thread, Proceed(t), LoopBegin(t)
    PROVE  VisibleInv'
<1>1. /\ UNCHANGED <<tip, shown, mostWork, candidates, failed, linked, seq, have, fatal>>
      /\ chainMutex' = chainMutex /\ csMain = NoThread /\ pc[t] = "loop"
      /\ pc' = [pc EXCEPT ![t] = "find"] /\ startTip' = tip /\ progressed' = "no"
  BY Zenon DEF LoopBegin
<1>2. pc'[t] = "find"
  BY <1>1, TipsUsable
<1>3. shown = tip
  BY <1>1, OutOfSection DEF VisibleInv, RestInv
<1>4. mostWork = NoBlock \/ (mostWork \in Block /\ tip \in Anc[mostWork])
  BY Zenon, <1>1 DEF VisibleInv, ThreadInv, TargetOf, IInv, TypeOK
<1>5. TargetOf(t)' /\ SectionOf(t)'
  BY <1>1, <1>2, <1>3, <1>4 DEF TargetOf, SectionOf
<1>6. GainOf(t)'
  <2>. SUFFICES ASSUME fatal = "no"
                PROVE  /\ mostWork # NoBlock => ~Worse(mostWork, tip)
                       /\ tip \in candidates
    BY ZenonT(30), <1>1, <1>2 DEF GainOf, Worse, WorseIn
  <2>1. tip \in candidates
    BY ZenonT(30), <1>3, TipsUsable, WorseOrder DEF VisibleInv, KeptInv
  <2>. QED BY ZenonT(30), <1>4, <2>1, TipsUsable, WorseAncestor
<1>7. ThreadInv'
  BY <1>1, <1>5, <1>6, ActingVisible
<1>8. RestInv'
  BY <1>2 DEF RestInv, InStep
<1>9. KeptInv' /\ ShownInv'
  BY ZenonT(30), <1>1 DEF VisibleInv, KeptInv, ShownInv, Worse, WorseIn
<1>. QED BY <1>1, <1>7, <1>8, <1>9 DEF VisibleInv

\* What FindMostWorkChain removes has a failed ancestor.
LEMMA RemainingKeeps ==
    ASSUME IInv, NEW best, NEW b \in candidates, Anc[b] \cap failed = {}
    PROVE  b \in Remaining(best)
<1>. SUFFICES ASSUME NEW c \in candidates, b \in Dropped(c) PROVE FALSE
  BY ZenonT(30) DEF Remaining
<1>1. PICK f \in FailedOn(c) : f \in Anc[b]
  BY DEF Dropped
<1>. QED BY ZenonT(30), <1>1 DEF FailedOn

\* The search finds a chain not behind the first tip, and so leaves the section
\* only when the tip is not behind it.
LEMMA FindVisible ==
    ASSUME IInv, VisibleInv, NEW t \in Thread, Proceed(t), Find(t)
    PROVE  VisibleInv'
<1>1. /\ UNCHANGED <<tip, shown, startTip, progressed, failed, linked, seq, have, fatal>>
      /\ chainMutex' = chainMutex /\ pc[t] = "find"
      /\ \/ mostWork # NoBlock /\ UNCHANGED <<mostWork, candidates>>
         \/ /\ mostWork = NoBlock /\ FindMostWorkChain(mostWork')
            /\ mostWork' \in MaybeBlock /\ candidates' = Remaining(mostWork')
      /\ \/ mostWork' \in {NoBlock, tip} /\ pc' = [pc EXCEPT ![t] = "leave"]
         \/ mostWork' \notin {NoBlock, tip} /\ pc' = [pc EXCEPT ![t] = "step"]
  BY Zenon DEF Find
<1>2. /\ SectionOf(t) /\ GainOf(t) /\ TargetOf(t)
      /\ startTip = shown /\ shown \in Block /\ tip \in Block
      /\ seq \in [Block -> Nat] /\ candidates \subseteq Block
      /\ Anc[shown] \cap failed = {} /\ mostWork \in MaybeBlock
      /\ progressed \in {"no", "yes"}
  BY Zenon, <1>1, TipsUsable DEF VisibleInv, ThreadInv, SectionOf, InStep, IInv, TypeOK
<1>3. pc'[t] \in {"leave", "step"} /\ (pc'[t] = "leave" <=> mostWork' \in {NoBlock, tip})
  BY Zenon, <1>1, TipsUsable
<1>4. fatal = "no" => shown \in candidates
  BY Zenon, <1>1, <1>2 DEF GainOf, Regained, InStep
<1>5. fatal = "no" => mostWork' \in Block /\ ~Worse(mostWork', shown)
  <2>. SUFFICES ASSUME fatal = "no"
                PROVE  mostWork' \in Block /\ ~Worse(mostWork', shown)
    BY Zenon
  <2>1. CASE mostWork # NoBlock
    BY Zenon, <1>1, <1>2, <2>1 DEF GainOf, InStep
  <2>2. CASE mostWork = NoBlock
    <3>. DEFINE usable == {c \in candidates : FailedOn(c) = {}}
    <3>1. shown \in usable
      BY <1>2, <1>4 DEF FailedOn
    <3>2. mostWork' \in usable /\ \A c \in usable \ {mostWork'} : Worse(c, mostWork')
      BY <1>1, <2>2, <3>1 DEF FindMostWorkChain
    <3>. HIDE DEF usable
    <3>3. mostWork' \in Block
      BY Zenon, <1>2, <3>2 DEF usable
    <3>. QED BY ZenonT(30), <1>2, <3>1, <3>2, <3>3, WorseOrder
  <2>. QED BY <2>1, <2>2
<1>6. fatal = "no" => shown \in candidates'
  <2>. SUFFICES ASSUME fatal = "no" PROVE shown \in candidates'
    OBVIOUS
  <2>1. \A best : shown \in Remaining(best)
    BY <1>2, <1>4, RemainingKeeps, Zenon
  <2>. QED BY <1>1, <1>4, <2>1, Zenon
<1>7. TargetOf(t)'
  BY Zenon, <1>1, <1>2, <1>3, TreeFacts DEF TargetOf
<1>8. SectionOf(t)'
  BY Zenon, <1>1, <1>2, <1>3 DEF SectionOf, InStep, Worse, WorseIn
<1>9. GainOf(t)'
  <2>. SUFFICES ASSUME fatal = "no"
                PROVE  pc'[t] = "leave" /\ progressed = "yes" => ~Worse(tip, shown)
    BY Zenon, <1>1, <1>2, <1>5, <1>6 DEF GainOf, Worse, WorseIn
  <2>. QED BY Zenon, <1>2, <1>3, <1>5, TreeFacts
<1>10. ThreadInv'
  BY <1>1, <1>7, <1>8, <1>9, ActingVisible
<1>11. RestInv'
  BY <1>3 DEF RestInv, InStep
<1>12. KeptInv'
  <2>. SUFFICES ASSUME fatal = "no", NEW b \in linked, Anc[b] \cap failed = {}
                PROVE  b \in candidates' \/ Worse(b, shown) \/ Worse(b, tip)
    BY ZenonT(30), <1>1 DEF KeptInv, Worse, WorseIn
  <2>. QED BY ZenonT(30), <1>1, RemainingKeeps DEF VisibleInv, KeptInv
<1>13. ShownInv'
  BY ZenonT(30), <1>1 DEF VisibleInv, ShownInv
<1>. QED BY ZenonT(30), <1>1, <1>10, <1>11, <1>12, <1>13, TreeFacts DEF VisibleInv, IInv, LockInv

LEMMA DisconnectVisible ==
    ASSUME IInv, VisibleInv, NEW t \in Thread, Proceed(t), DisconnectTip(t)
    PROVE  VisibleInv'
<1>1. /\ UNCHANGED <<shown, abc, candidates, failed, linked, seq, have, fatal, pc>>
      /\ chainMutex' = chainMutex /\ pc[t] = "step" /\ tip \notin Anc[mostWork]
      /\ tip' = Prev[tip]
  BY Zenon DEF DisconnectTip, Above, SetTip
<1>2. tip \in Block \ {Genesis}
  BY Zenon, Disconnected DEF IInv, DisconnectTip
<1>3. tip' \in Block /\ tip' \in Anc[tip] /\ Work[tip'] < Work[tip]
  BY Zenon, <1>1, <1>2, ParentWork
<1>4. SectionOf(t) /\ GainOf(t) /\ startTip = shown
  BY Zenon, <1>1 DEF VisibleInv, ThreadInv, SectionOf, InStep
<1>5. tip = shown \/ Worse(tip, shown)
  BY Zenon, <1>1, <1>4 DEF SectionOf, InStep
<1>6. Worse(tip', shown)
  BY Zenon, <1>3, <1>5, TipsUsable, WorseOrder
<1>7. TargetOf(t)'
  BY Zenon, <1>1 DEF TargetOf
<1>8. SectionOf(t)'
  BY Zenon, <1>1, <1>4, <1>6 DEF SectionOf, Worse, WorseIn
<1>9. GainOf(t)'
  BY Zenon, <1>1, <1>4 DEF GainOf, Regained, InStep, Worse, WorseIn
<1>10. ThreadInv'
  BY Zenon, <1>1, <1>7, <1>8, <1>9, ActingVisible
<1>11. RestInv'
  BY Zenon, <1>1 DEF RestInv, InStep
<1>12. KeptInv'
  <2>. SUFFICES ASSUME fatal = "no", NEW b \in linked, Anc[b] \cap failed = {}
                PROVE  b \in candidates \/ Worse(b, shown)
    BY <1>1 DEF KeptInv, Worse, WorseIn
  <2>1. b \in candidates \/ Worse(b, shown) \/ Worse(b, tip)
    BY ZenonT(30) DEF VisibleInv, KeptInv
  <2>. QED BY ZenonT(30), <1>5, <2>1, TipsUsable, WorseOrder
<1>13. ShownInv'
  BY Zenon, <1>1, <1>2, <1>3 DEF VisibleInv, ShownInv, IInv, LinkedInv
<1>. QED BY Zenon, <1>1, <1>10, <1>11, <1>12, <1>13 DEF VisibleInv

LEMMA ConnectVisible ==
    ASSUME IInv, VisibleInv, NEW t \in Thread, Proceed(t), ConnectTip(t)
    PROVE  VisibleInv'
<1>1. /\ UNCHANGED <<shown, mostWork, startTip, found, progressed, failed, linked, seq,
                     have, fatal>>
      /\ chainMutex' = chainMutex /\ pc[t] = "step"
      /\ pc' \in {pc, [pc EXCEPT ![t] = "connected"]}
      /\ tip' \in Block /\ tip' \in Anc[mostWork] \ {Genesis} /\ Prev[tip'] = tip
      /\ candidates' = {c \in candidates : ~Worse(c, tip')}
  BY Zenon DEF ConnectTip, SetTip, Successor, PruneBlockIndexCandidates
<1>2. Work[tip] < Work[tip']
  BY Zenon, <1>1, ParentWork
<1>3. SectionOf(t) /\ GainOf(t) /\ startTip = shown
  BY Zenon, <1>1 DEF VisibleInv, ThreadInv, SectionOf, InStep
<1>4. pc'[t] \in {"step", "connected"}
  BY Zenon, <1>1, TipsUsable
<1>5. TargetOf(t)'
  BY Zenon, <1>1, <1>4 DEF TargetOf
<1>6. SectionOf(t)'
  BY Zenon, <1>1, <1>3, <1>4 DEF SectionOf
<1>7. GainOf(t)'
  <2>. SUFFICES ASSUME fatal = "no"
                PROVE  shown \in candidates' \/ ~Worse(tip', shown)
    BY ZenonT(30), <1>1, <1>3, <1>4 DEF GainOf, Regained, InStep, Worse, WorseIn
  <2>1. shown \in candidates \/ ~Worse(tip, shown)
    BY Zenon, <1>1, <1>3 DEF GainOf, Regained, InStep
  <2>2. CASE shown \in candidates
    BY Zenon, <1>1, <2>2, TipsUsable, WorseOrder
  <2>3. CASE ~Worse(tip, shown)
    BY Zenon, <1>1, <1>2, <2>3, TipsUsable, WorseOrder
  <2>. QED BY Zenon, <2>1, <2>2, <2>3
<1>8. ThreadInv'
  BY Zenon, <1>1, <1>5, <1>6, <1>7, ActingVisible
<1>9. RestInv'
  BY <1>4 DEF RestInv, InStep
<1>10. KeptInv'
  <2>. SUFFICES ASSUME fatal = "no", NEW b \in linked, Anc[b] \cap failed = {}
                PROVE  b \in candidates' \/ Worse(b, shown) \/ Worse(b, tip')
    BY Zenon, <1>1 DEF KeptInv, Worse, WorseIn
  <2>1. b \in candidates \/ Worse(b, shown) \/ Worse(b, tip)
    BY ZenonT(30) DEF VisibleInv, KeptInv
  <2>. QED BY Zenon, <1>1, <1>2, <2>1, TipsUsable, WorseOrder
<1>11. ShownInv'
  <2>1. mostWork \in linked
    BY <1>1 DEF IInv, LocalInv, LinkedInv
  <2>. QED BY ZenonT(30), <1>1, <2>1 DEF VisibleInv, ShownInv, IInv, LinkedInv
<1>. QED BY Zenon, <1>1, <1>8, <1>9, <1>10, <1>11 DEF VisibleInv

LEMMA InvalidVisible ==
    ASSUME IInv, VisibleInv, NEW t \in Thread, Proceed(t), ConnectInvalid(t)
    PROVE  VisibleInv'
<1>1. /\ UNCHANGED <<tip, shown, mostWork, startTip, progressed, linked, seq, have, fatal>>
      /\ chainMutex' = chainMutex /\ pc[t] = "step" /\ found' = "yes"
      /\ pc' = [pc EXCEPT ![t] = "connected"]
  BY Zenon DEF ConnectInvalid
<1>2. PICK b \in Block : Verdict[b] = "connect" /\ InvalidBlockFound(b)
  BY Zenon DEF ConnectInvalid
<1>3. candidates' = candidates \ {b} /\ failed \subseteq failed' /\ b \in failed'
  BY <1>2, TreeFacts DEF InvalidBlockFound, Descendants
<1>4. SectionOf(t) /\ GainOf(t) /\ startTip = shown
  BY ZenonT(30), <1>1 DEF VisibleInv, ThreadInv, SectionOf, InStep
<1>5. pc'[t] = "connected"
  BY <1>1, TipsUsable
<1>6. shown # b
  BY Zenon, <1>2, TipsUsable, TreeFacts DEF VisibleInv, ShownInv
<1>7. TargetOf(t)' /\ SectionOf(t)'
  BY Zenon, <1>1, <1>4, <1>5 DEF TargetOf, SectionOf
<1>8. GainOf(t)'
  BY ZenonT(30), <1>1, <1>3, <1>4, <1>5, <1>6 DEF GainOf, Regained, InStep, Worse, WorseIn
<1>9. ThreadInv'
  BY <1>1, <1>7, <1>8, ActingVisible
<1>10. RestInv'
  BY <1>5 DEF RestInv, InStep
<1>11. KeptInv'
  <2>. SUFFICES ASSUME fatal = "no", NEW x \in linked, Anc[x] \cap failed' = {}
                PROVE  x \in candidates' \/ Worse(x, shown) \/ Worse(x, tip)
    BY <1>1 DEF KeptInv, Worse, WorseIn
  <2>1. x # b
    BY Zenon, <1>3, TipsUsable, TreeFacts
  <2>. QED BY Zenon, <1>3, <2>1 DEF VisibleInv, KeptInv
<1>12. ShownInv'
  BY Zenon, <1>1 DEF VisibleInv, ShownInv
<1>. QED BY <1>1, <1>9, <1>10, <1>11, <1>12 DEF VisibleInv

LEMMA ConnectedVisible ==
    ASSUME IInv, VisibleInv, NEW t \in Thread, Proceed(t), Connected(t)
    PROVE  VisibleInv'
<1>1. /\ UNCHANGED <<tip, shown, startTip, found, candidates, failed, linked, seq, have,
                     fatal>>
      /\ chainMutex' = chainMutex /\ pc[t] = "connected" /\ progressed' = "yes"
      /\ mostWork' = IF found = "yes" THEN NoBlock ELSE mostWork
      /\ pc' = [pc EXCEPT ![t] = IF NoProgress THEN "find" ELSE "leave"]
  BY Zenon DEF Connected, TargetAfterStep
<1>2. /\ SectionOf(t) /\ GainOf(t) /\ TargetOf(t) /\ startTip = shown
      /\ found \in {"no", "yes"}
  BY Zenon, <1>1 DEF VisibleInv, ThreadInv, SectionOf, InStep, IInv, TypeOK
<1>3. pc'[t] = IF Worse(tip, shown) THEN "find" ELSE "leave"
  BY Zenon, <1>1, <1>2, TipsUsable DEF NoProgress
<1>4. TargetOf(t)'
  BY Zenon, <1>1, <1>2 DEF TargetOf
<1>5. \A x, y : Worse(x, y)' <=> Worse(x, y)
  BY Zenon, <1>1 DEF Worse, WorseIn
<1>6. SectionOf(t)' /\ GainOf(t)'
  <2>1. CASE Worse(tip, shown)
    <3>1. pc'[t] = "find"
      BY <1>3, <2>1
    <3>2. SectionOf(t)'
      BY Zenon, <1>1, <1>2, <1>5, <2>1, <3>1 DEF SectionOf
    <3>3. GainOf(t)'
      BY Zenon, <1>1, <1>2, <1>5, <2>1, <3>1 DEF GainOf, Regained, InStep
    <3>. QED BY <3>2, <3>3
  <2>2. CASE ~Worse(tip, shown)
    <3>1. pc'[t] = "leave"
      BY Zenon, <1>3, <2>2
    <3>2. SectionOf(t)'
      BY Zenon, <1>1, <1>2, <1>5, <2>2, <3>1 DEF SectionOf
    <3>3. GainOf(t)'
      BY Zenon, <1>1, <1>2, <1>5, <2>2, <3>1 DEF GainOf, Regained, InStep
    <3>. QED BY <3>2, <3>3
  <2>. QED BY <2>1, <2>2
<1>7. ThreadInv'
  BY <1>1, <1>4, <1>6, ActingVisible
<1>8. RestInv'
  BY <1>3 DEF RestInv, InStep
<1>9. KeptInv' /\ ShownInv'
  BY Zenon, <1>1 DEF VisibleInv, KeptInv, ShownInv, Worse, WorseIn
<1>. QED BY <1>1, <1>7, <1>8, <1>9 DEF VisibleInv

\* The section ends with the tip shown, or ActivateBestChain goes on or returns
\* outside of it.
LEMMA EndVisible ==
    ASSUME IInv, VisibleInv, NEW t \in Thread, Proceed(t), pc[t] \in Activating,
           UNCHANGED <<tip, candidates, failed, linked, seq, have>>,
           shown' = tip, pc'[t] \in {"done", "flush", "loop"},
           \/ mostWork' = NoBlock
           \/ /\ pc[t] \in {"leave", "flush"} /\ mostWork' = mostWork
              /\ chainMutex' = chainMutex,
           fatal' = "yes" \/ (fatal' = fatal /\ (fatal = "no" => ~Worse(tip, shown)))
    PROVE  VisibleInv'
<1>1. TargetOf(t)'
  BY Zenon DEF VisibleInv, ThreadInv, TargetOf
<1>2. SectionOf(t)' /\ GainOf(t)'
  BY Zenon DEF SectionOf, GainOf, InStep
<1>3. ThreadInv'
  BY Zenon, <1>1, <1>2, ActingVisible
<1>4. RestInv'
  BY Zenon DEF RestInv
<1>5. KeptInv'
  <2>. SUFFICES ASSUME fatal = "no", ~Worse(tip, shown), NEW b \in linked,
                       Anc[b] \cap failed = {}
                PROVE  b \in candidates \/ Worse(b, tip)
    BY Zenon DEF KeptInv, Worse, WorseIn
  <2>. QED BY Zenon, TipsUsable, WorseOrder DEF VisibleInv, KeptInv
<1>6. ShownInv'
  BY Zenon DEF VisibleInv, ShownInv, IInv, TipInv
<1>. QED BY Zenon, <1>3, <1>4, <1>5, <1>6 DEF VisibleInv

\* How ActivateBestChain ends its section or returns.
Ending(t) ==
    \/ LeaveIdle(t) \/ LeaveMoved(t) \/ Flush(t) \/ StepFails(t) \/ FlushFails(t)
Better == fatal = "no" => ~Worse(tip, shown)

\* Whatever ends the section or the call, the tip is the one to be seen, and
\* without a fatal error it is no worse than the one seen before.
LEMMA EndingStep ==
    ASSUME IInv, VisibleInv, NEW t \in Thread, Ending(t)
    PROVE  /\ pc[t] \in Activating /\ UNCHANGED <<tip, candidates, failed, linked, seq, have>>
           /\ UNCHANGED <<nextSeq, interrupted>>
           /\ shown' = tip /\ pc'[t] \in {"done", "flush", "loop"}
           /\ \/ mostWork' = NoBlock
              \/ /\ pc[t] \in {"leave", "flush"} /\ mostWork' = mostWork
                 /\ chainMutex' = chainMutex
           /\ fatal' = "yes" \/ (fatal' = fatal /\ Better)
<1>. pc \in [Thread -> Pc] /\ progressed \in {"no", "yes"} /\ shown \in Block
     /\ seq \in [Block -> Nat]
  BY Zenon, TipsUsable DEF IInv, TypeOK
<1>0. SectionOf(t) /\ GainOf(t)
  BY DEF VisibleInv, ThreadInv
<1>1. CASE LeaveIdle(t)
  <2>1. /\ pc[t] = "leave" /\ progressed = "no"
        /\ UNCHANGED <<tip, candidates, failed, linked, seq, have, nextSeq, interrupted, fatal>>
        /\ shown' = tip /\ pc' = [pc EXCEPT ![t] = "done"] /\ mostWork' = NoBlock
    BY <1>1, Zenon DEF LeaveIdle, Return
  <2>2. tip = shown
    BY Zenon, <1>0, <2>1 DEF SectionOf, InStep
  <2>3. Better
    BY <2>2, WorseOrder DEF Better
  <2>. QED BY <2>1, <2>3
<1>2. CASE LeaveMoved(t)
  <2>1. /\ pc[t] = "leave" /\ progressed = "yes"
        /\ UNCHANGED <<tip, candidates, failed, linked, seq, have, nextSeq, interrupted, fatal>>
        /\ shown' = tip /\ pc' = [pc EXCEPT ![t] = "flush"] /\ mostWork' = mostWork
        /\ chainMutex' = chainMutex
    BY Zenon, <1>2, Zenon DEF LeaveMoved
  <2>2. Better
    BY ZenonT(30), <1>0, <2>1 DEF Better, SectionOf, GainOf, InStep
  <2>. QED BY <2>1, <2>2
<1>3. CASE Flush(t)
  <2>1. /\ pc[t] = "flush" /\ csMain = NoThread
        /\ UNCHANGED <<tip, candidates, failed, linked, seq, have, nextSeq, interrupted, fatal>>
        /\ \/ shown' = tip /\ pc' = [pc EXCEPT ![t] = "done"] /\ mostWork' = NoBlock
           \/ /\ shown' = shown /\ pc' = [pc EXCEPT ![t] = "loop"] /\ mostWork' = mostWork
              /\ chainMutex' = chainMutex
    BY <1>3, Zenon DEF Flush, Return
  <2>2. tip = shown
    BY <2>1, OutOfSection DEF VisibleInv, RestInv
  <2>3. Better
    BY <2>2, WorseOrder DEF Better
  <2>. QED BY <2>1, <2>2, <2>3
<1>4. CASE StepFails(t)
  <2>1. /\ pc[t] = "step" /\ fatal' = "yes"
        /\ UNCHANGED <<tip, candidates, failed, linked, seq, have, nextSeq, interrupted>>
        /\ shown' = tip /\ pc' = [pc EXCEPT ![t] = "done"] /\ mostWork' = NoBlock
    BY <1>4, Zenon DEF StepFails, Return, FatalError
  <2>. QED BY <2>1
<1>5. CASE FlushFails(t)
  <2>1. /\ pc[t] = "flush" /\ fatal' = "yes"
        /\ UNCHANGED <<tip, candidates, failed, linked, seq, have, nextSeq, interrupted>>
        /\ shown' = tip /\ pc' = [pc EXCEPT ![t] = "done"] /\ mostWork' = NoBlock
    BY <1>5, Zenon DEF FlushFails, Return, FatalError
  <2>. QED BY <2>1
<1>. QED BY ZenonT(30), <1>1, <1>2, <1>3, <1>4, <1>5 DEF Ending

\* The order a block was linked in is its own.
SeqInv ==
    \A b \in linked : seq[b] < nextSeq /\ \A a \in linked : seq[a] = seq[b] => a = b

LEMMA VisibleNext ==
    ASSUME IInv, VisibleInv, NEW t \in Thread, Proceed(t)
    PROVE  VisibleInv'
<1>1. ASSUME Ending(t) PROVE VisibleInv'
  <2>1. fatal' = "yes" \/ (fatal' = fatal /\ (fatal = "no" => ~Worse(tip, shown)))
    BY ZenonT(30), <1>1, EndingStep DEF Better
  <2>. QED BY ZenonT(30), <1>1, <2>1, EndingStep, EndVisible
<1>. QED
  BY <1>1, QuietVisible, RejectBodyVisible, LinkVisible, BeginVisible, LoopBeginVisible,
     FindVisible, DisconnectVisible, ConnectVisible, InvalidVisible, ConnectedVisible, ZenonT(30)
  DEF Proceed, Accept, Activate, Ending

LEMMA VisibleOutside ==
    ASSUME IInv, VisibleInv, Interrupt \/ \E t \in Thread, j \in Jobs : Begin(t, j)
    PROVE  VisibleInv'
<1>1. CASE Interrupt
  <2>1. /\ UNCHANGED <<tip, shown, abc, candidates, failed, linked, seq, have, fatal, pc>>
        /\ chainMutex' = chainMutex
    BY <1>1, Zenon DEF Interrupt
  <2>. QED BY <2>1, VisibleStays
<1>2. ASSUME NEW t \in Thread, NEW j \in Jobs, Begin(t, j) PROVE VisibleInv'
  <2>1. /\ UNCHANGED <<tip, shown, abc, candidates, failed, linked, seq, have, fatal>>
        /\ chainMutex' = chainMutex /\ pc[t] = "idle" /\ pc' = [pc EXCEPT ![t] = "accept"]
    BY Zenon, <1>2, Zenon DEF Begin
  <2>2. \A u \in Thread : pc'[u] = pc[u] \/ {pc[u], pc'[u]} \cap Activating = {}
    BY ZenonT(30), <2>1, TipsUsable
  <2>. QED BY <2>1, <2>2, VisibleStays
<1>. QED BY <1>1, <1>2, Zenon

LEMMA VisibleInit == Init => VisibleInv
<1>. SUFFICES ASSUME Init PROVE VisibleInv
  OBVIOUS
<1>1. /\ pc = [t \in Thread |-> "idle"] /\ tip = Genesis /\ shown = Genesis
      /\ linked = {Genesis} /\ candidates = {Genesis} /\ have = {Genesis}
      /\ mostWork = NoBlock
  BY ZenonT(30) DEF Init
<1>2. RestInv /\ ThreadInv
  BY ZenonT(30), <1>1 DEF RestInv, ThreadInv, TargetOf, SectionOf, GainOf, InStep
<1>3. KeptInv
  BY <1>1 DEF KeptInv
<1>4. ShownInv
  BY <1>1, TreeConstants DEF ShownInv, TreeConstants
<1>. QED BY <1>1, <1>2, <1>3, <1>4 DEF VisibleInv

LEMMA VisibleInvariant == Spec => []VisibleInv
<1>1. IInv /\ VisibleInv /\ [Next]_vars => VisibleInv'
  <2>. SUFFICES ASSUME IInv, VisibleInv, [Next]_vars PROVE VisibleInv'
    OBVIOUS
  <2>1. CASE UNCHANGED vars
    <3>1. /\ UNCHANGED <<tip, shown, abc, candidates, failed, linked, seq, have, fatal, pc>>
          /\ chainMutex' = chainMutex
      BY <2>1, Zenon DEF vars
    <3>. QED BY <3>1, VisibleStays
  <2>. QED BY <2>1, VisibleNext, VisibleOutside, Zenon DEF Next
<1>. QED BY <1>1, VisibleInit, Inductive, PTL DEF Spec

LEMMA SeqInvariant == Spec => []SeqInv
<1>1. Init => SeqInv
  <2>. SUFFICES ASSUME Init PROVE SeqInv
    OBVIOUS
  <2>1. linked = {Genesis} /\ nextSeq = 3 /\ seq[Genesis] = 2
    BY Zenon, TreeFacts DEF Init
  <2>. QED BY SMTT(30), <2>1 DEF SeqInv
<1>2. IInv /\ SeqInv /\ [Next]_vars => SeqInv'
  <2>. SUFFICES ASSUME IInv, SeqInv, [Next]_vars PROVE SeqInv'
    OBVIOUS
  <2>1. CASE UNCHANGED <<linked, seq, nextSeq>>
    BY <2>1 DEF SeqInv
  <2>2. ASSUME NEW t \in Thread, Link(t) PROVE SeqInv'
    <3>. PICK b : /\ linked' = linked \cup {b} /\ seq' = [seq EXCEPT ![b] = nextSeq]
                  /\ nextSeq' = nextSeq + 1
      BY <2>2, ZenonT(30) DEF Link
    <3>. linked \subseteq Block /\ linked' \subseteq Block /\ seq \in [Block -> Nat]
         /\ nextSeq \in Nat
      BY ZenonT(30), NextIInv DEF IInv, TypeOK
    <3>. QED BY SMTT(30) DEF SeqInv
  <2>3. ASSUME NEW t \in Thread, Proceed(t), ~Link(t) PROVE UNCHANGED <<linked, seq, nextSeq>>
    BY <2>3, ZenonT(30) DEF Proceed, Accept, Activate, Done, AcceptHeader, RejectUnindexed,
       RejectBody, WriteFails, StoreBlock, KnownBlock, LinkDone, NotifyHeaderTip, HeaderTip,
       ActivateBestChain, LoopBegin, Find, CoinsMismatch, DisconnectTip, ConnectTip,
       ConnectInvalid, StepFails, Connected, LeaveIdle, LeaveMoved, Flush, FlushFails
  <2>4. [Next]_vars => \/ UNCHANGED <<linked, seq, nextSeq>>
                       \/ \E t \in Thread : Proceed(t)
    BY ZenonT(30) DEF Next, Interrupt, Begin, vars
  <2>. QED BY <2>1, <2>2, <2>3, <2>4, ZenonT(30)
<1>. QED BY <1>1, <1>2, Inductive, PTL DEF Spec

\* What a program can see changes when a block is stored, when an error is
\* notified, and when ActivateBestChain gives up its locks.
LEMMA Moves ==
    ASSUME NEW t \in Thread, Proceed(t)
    PROVE  \/ Ending(t)
           \/ /\ UNCHANGED <<shown, interrupted>>
              /\ \/ fatal' = fatal /\ have' = have
                 \/ fatal' = fatal /\ have' = have \cup {job[t].blk}
                 \/ fatal' = "yes" /\ have' = have
BY ZenonT(30) DEF Proceed, Accept, Activate, Done, AcceptHeader, RejectUnindexed, RejectBody,
   WriteFails, StoreBlock, KnownBlock, Link, LinkDone, NotifyHeaderTip, HeaderTip,
   ActivateBestChain, LoopBegin, Find, CoinsMismatch, DisconnectTip, ConnectTip,
   ConnectInvalid, Connected, FatalError, Ending

\* The tip other threads can see only ever gets better, until a fatal error
\* (ActivateBestChain: cs_main is given up with forward progress or without a
\* change).
THEOREM VisibleTip == Spec => VisibleTipImproves
<1>1. ASSUME IInv, VisibleInv, SeqInv, [Next]_vars
      PROVE  [shown' # shown => Worse(shown, shown') \/ fatal' = "yes"]_vars
  <2>. SUFFICES ASSUME Next, shown' # shown PROVE Worse(shown, shown') \/ fatal' = "yes"
    BY <1>1, ZenonT(30)
  <2>1. PICK t \in Thread : Proceed(t)
    BY ZenonT(30) DEF Next, Interrupt, Begin
  <2>2. Ending(t)
    BY <2>1, Moves
  <2>3. shown' = tip /\ (fatal' = "yes" \/ ~Worse(tip, shown))
    <3>1. fatal \in {"no", "yes"}
      BY <1>1 DEF IInv, TypeOK
    <3>. QED BY ZenonT(30), <1>1, <2>2, <3>1, EndingStep DEF Better
  <2>4. /\ shown \in linked /\ tip \in linked /\ shown \in Block /\ tip \in Block
        /\ seq \in [Block -> Nat]
    BY <1>1, TipsUsable
  <2>5. seq[shown] # seq[tip]
    BY <1>1, <2>3, <2>4 DEF SeqInv
  <2>6. ~Worse(tip, shown) => Worse(shown, tip)
    <3>1. /\ Work[tip] \in Nat /\ Work[shown] \in Nat
          /\ seq[tip] \in Nat /\ seq[shown] \in Nat
      BY <2>4, TreeConstants DEF TreeConstants
    <3>. QED BY SMTT(30), <2>5, <3>1 DEF Worse, WorseIn
  <2>. QED BY <2>3, <2>6
<1>. QED BY <1>1, Inductive, VisibleInvariant, SeqInvariant, PTL
     DEF Spec, VisibleTipImproves

\* The chains that may be active are whole, in the terms of BestChain.
LEMMA TipsWhole ==
    ASSUME IInv, VisibleInv
    PROVE  Promise!Whole(tip) /\ Promise!Whole(shown)
<1>1. Anc[tip] \subseteq Block /\ Anc[shown] \subseteq Block
  BY TipsUsable, TreeFacts
<1>. QED BY <1>1 DEF Promise!Whole, VisibleInv, ShownInv, IInv, TipInv

LEMMA PromiseStep ==
    ASSUME IInv, VisibleInv, NEW t \in Thread, Proceed(t)
    PROVE  [Promise!Next]_(Promise!bestChain)
<1>. fatal \in {"no", "yes"} /\ interrupted \in {"no", "yes"}
     /\ shown \in Block /\ tip \in Block /\ seq \in [Block -> Nat]
  BY Zenon, TipsUsable DEF IInv, TypeOK
<1>1. ASSUME Ending(t) PROVE [Promise!Next]_(Promise!bestChain)
  <2>1. /\ have' = have /\ interrupted' = interrupted /\ shown' = tip
        /\ fatal' = "yes" \/ (fatal' = fatal /\ (fatal = "no" => ~Worse(tip, shown)))
    BY Zenon, <1>1, EndingStep DEF Better
  <2>2. CASE fatal = "no" /\ fatal' = "yes"
    <3>1. Promise!Fail(tip)
      BY <2>1, <2>2, TipsWhole DEF Promise!Fail, Status
    <3>. QED BY <3>1 DEF Promise!Next
  <2>3. CASE fatal' = fatal
    <3>1. fatal = "yes" \/ Work[tip] >= Work[shown]
      <4>1. fatal = "yes" \/ ~(Work[tip] < Work[shown])
        BY <2>1, <2>3, WorseOrder
      <4>2. Work[tip] \in Nat /\ Work[shown] \in Nat
        BY TreeConstants DEF TreeConstants
      <4>. QED BY SMTT(30), <4>1, <4>2
    <3>2. Promise!Activate(tip)
      BY <2>1, <2>3, <3>1, TipsWhole DEF Promise!Activate, Status
    <3>. QED BY <3>2 DEF Promise!Next
  <2>. QED BY <2>1, <2>2, <2>3
<1>2. ASSUME UNCHANGED <<shown, interrupted, fatal, have>>
      PROVE  UNCHANGED Promise!bestChain
  BY <1>2 DEF Promise!bestChain, Status
<1>3. ASSUME UNCHANGED <<shown, interrupted, fatal>>, have' = have \cup {job[t].blk},
             have' # have
      PROVE  Promise!Next
  <2>1. job[t].blk \in Block
    BY <1>3, NextIInv, Zenon DEF IInv, TypeOK, Next
  <2>2. Promise!Store(job[t].blk)
    BY <1>3 DEF Promise!Store, Status
  <2>. QED BY <2>1, <2>2 DEF Promise!Next
<1>4. ASSUME UNCHANGED <<shown, interrupted, have>>, fatal' = "yes"
      PROVE  [Promise!Next]_(Promise!bestChain)
  <2>1. CASE fatal = "yes"
    BY <1>2, <1>4, <2>1
  <2>2. CASE fatal = "no"
    <3>1. Promise!Fail(shown)
      BY <1>4, <2>2, TipsWhole DEF Promise!Fail, Status
    <3>. QED BY <3>1 DEF Promise!Next
  <2>. QED BY <2>1, <2>2
<1>. QED BY <1>1, <1>2, <1>3, <1>4, Moves, Zenon

\* Chainman implements BestChain: a reorganisation is one step to a whole
\* valid chain with no less work, whatever the threads, the order of blocks
\* and the system errors; a fatal error is the only way out of this.
THEOREM Refinement == Spec => ImplementsBestChain
<1>1. Init => Promise!Init
  <2>. SUFFICES ASSUME Init PROVE Promise!Init
    OBVIOUS
  <2>1. have = {Genesis} /\ shown = Genesis /\ fatal = "no" /\ interrupted = "no"
    BY Zenon DEF Init
  <2>. QED BY <2>1 DEF Promise!Init, Status
<1>2. IInv /\ VisibleInv /\ [Next]_vars => [Promise!Next]_(Promise!bestChain)
  <2>. SUFFICES ASSUME IInv, VisibleInv, [Next]_vars
                PROVE  [Promise!Next]_(Promise!bestChain)
    OBVIOUS
  <2>1. CASE UNCHANGED <<shown, interrupted, fatal, have>>
    BY <2>1 DEF Promise!bestChain, Status
  <2>2. CASE Interrupt
    <3>1. UNCHANGED <<shown, fatal, have>> /\ interrupted = "no" /\ interrupted' = "yes"
      BY Zenon, <2>2, Zenon DEF Interrupt
    <3>2. fatal \in {"no", "yes"}
      BY DEF IInv, TypeOK
    <3>3. CASE fatal = "no"
      <4>1. Promise!Interrupt
        BY <3>1, <3>3 DEF Promise!Interrupt, Status
      <4>. QED BY <4>1 DEF Promise!Next
    <3>4. CASE fatal = "yes"
      BY <3>1, <3>4 DEF Promise!bestChain, Status
    <3>. QED BY <3>2, <3>3, <3>4
  <2>3. \/ UNCHANGED <<shown, interrupted, fatal, have>> \/ Interrupt
        \/ \E t \in Thread : Proceed(t)
    BY Zenon DEF Next, Begin, vars
  <2>. QED BY <2>1, <2>2, <2>3, PromiseStep
<1>. QED BY <1>1, <1>2, Inductive, VisibleInvariant, PTL
     DEF Spec, ImplementsBestChain, Promise!Spec

-----------------------------------------------------------------------------
(* The best header. *)

\* The best header is kept right by looking at the new header only, and by a
\* new search when it is flagged.  The search may fall back to the tip, which
\* is indexed because its data is stored.
BestInv == have \subseteq index /\ BestHeaderIsBest

\* Steps that leave the headers and the flags alone.
LEMMA SameBest ==
    ASSUME BestInv, have' = have, index' = index, failed' = failed,
           bestHeader' = bestHeader
    PROVE  BestInv'
BY Zenon DEF BestInv, BestHeaderIsBest

\* A header that is inserted is unflagged, and compared with the best one.
LEMMA InsertBest ==
    ASSUME TypeOK, FlagInv, BestInv, NEW b \in Block, AcceptBlockHeader(b) = "valid",
           AddToBlockIndex(b), failed' = failed, have' \subseteq have \cup {b}
    PROVE  BestInv'
<1>1. index' = index \cup {b} /\ bestHeader' = BestWith(b)
  BY Zenon DEF AddToBlockIndex
<1>2. bestHeader \in Block /\ index \subseteq Block
  BY Zenon DEF TypeOK
<1>3. Work \in [Block -> Nat]
  BY Zenon, TreeConstants DEF TreeConstants
<1>4. failed \subseteq index /\ bestHeader \in index \ failed
  BY Zenon DEF FlagInv, BestInv, BestHeaderIsBest
<1>5. CASE b \in index
  <2>1. index' = index /\ bestHeader' = bestHeader
    BY <1>1, <1>5 DEF BestWith
  <2>. QED BY <1>5, <2>1 DEF BestInv, BestHeaderIsBest
<1>6. CASE b \notin index
  <2>1. bestHeader' = IF Work[bestHeader] < Work[b] THEN b ELSE bestHeader
    BY <1>1, <1>6 DEF BestWith
  <2>2. bestHeader' \in index' \ failed'
    BY <1>1, <1>4, <1>6, <2>1
  <2>3. \A x \in index' \ failed' : Work[x] <= Work[bestHeader']
    <3>. SUFFICES ASSUME NEW x \in index \cup {b}, x \notin failed
                  PROVE  Work[x] <= Work[bestHeader']
      BY Zenon, <1>1
    <3>1. x = b \/ Work[x] <= Work[bestHeader]
      BY Zenon DEF BestInv, BestHeaderIsBest
    <3>2. Work[x] \in Nat /\ Work[b] \in Nat /\ Work[bestHeader] \in Nat
      BY SMTT(30), <1>2, <1>3
    <3>. QED BY SMTT(30), <2>1, <3>1, <3>2
  <2>. QED BY <1>1, <2>2, <2>3 DEF BestInv, BestHeaderIsBest
<1>. QED BY <1>5, <1>6

\* RecalculateBestHeader looks at every header that is not flagged, and the
\* tip is one of them.
LEMMA CondemnBest ==
    ASSUME IInv, BestInv, NEW b \in Block, Verdict[b] \in Condemning,
           InvalidBlockFound(b), have' = have
    PROVE  BestInv'
<1>. DEFINE known == index \cup {b}
            bad == failed \cup Descendants(b, known)
<1>1. /\ index' = known /\ failed' = bad
      /\ bestHeader' \in IF b \in Anc[BestWith(b)] THEN RecalculateBestHeader(known, bad)
                                                   ELSE {BestWith(b)}
  BY Zenon DEF InvalidBlockFound
<1>2. /\ bestHeader \in Block /\ index \subseteq Block /\ tip \in Block
      /\ failed \subseteq index
  BY Zenon DEF IInv, TypeOK, FlagInv
<1>3. tip \in known \ bad
  <2>1. \A a \in Anc[tip] : a \in have /\ Verdict[a] = "valid"
    BY Zenon DEF IInv, TipInv
  <2>2. tip \in index
    BY Zenon, <1>2, <2>1, TreeFacts DEF BestInv
  <2>3. tip \notin failed
    <3>1. Anc[tip] \cap failed = {}
      BY <1>2, <2>1, ValidNotFailed DEF IInv
    <3>. QED BY <1>2, <3>1, TreeFacts
  <2>4. tip \notin Descendants(b, known)
    BY <2>1 DEF Descendants, Condemning
  <2>. QED BY <2>2, <2>3, <2>4
<1>4. b \in bad
  BY TreeFacts DEF Descendants
<1>5. CASE b \in Anc[BestWith(b)]
  <2>. DEFINE ok == known \ bad
              best == {x \in ok : \A y \in ok : Work[y] <= Work[x]}
  <2>1. ok \cup {tip} = ok
    BY <1>3
  <2>2. RecalculateBestHeader(known, bad) \subseteq best
    BY <2>1, Zenon DEF RecalculateBestHeader
  <2>. QED BY Zenon, <1>1, <1>5, <2>2 DEF BestInv, BestHeaderIsBest
<1>6. CASE b \notin Anc[BestWith(b)]
  <2>1. bestHeader' = bestHeader /\ b \notin Anc[bestHeader]
    <3>1. BestWith(b) # b
      BY <1>6, TreeFacts
    <3>. QED BY <1>1, <1>6, <3>1, Zenon DEF BestWith
  <2>2. bestHeader \in known \ bad
    BY <2>1, Zenon DEF BestInv, BestHeaderIsBest, Descendants
  <2>3. \A x \in known \ bad : x \in index \ failed
    BY <1>4, Zenon
  <2>. QED BY Zenon, <1>1, <2>1, <2>2, <2>3 DEF BestInv, BestHeaderIsBest
<1>. QED BY <1>5, <1>6

LEMMA BestStep ==
    ASSUME IInv, BestInv, NEW t \in Thread, Proceed(t)
    PROVE  BestInv'
<1>. DEFINE b == job[t].blk
<1>0. TypeOK /\ FlagInv /\ b \in Block
  BY Zenon, JobFacts DEF IInv
<1>1. CASE AcceptHeader(t)
  BY Zenon, <1>0, <1>1, InsertBest, SameBest DEF AcceptHeader
<1>2. CASE RejectBody(t)
  <2>1. have' = have
    BY Zenon, <1>2 DEF RejectBody
  <2>2. CASE Condemns(ContextualCheckBlock(job[t]))
    <3>1. Verdict[b] \in Condemning /\ InvalidBlockFound(b)
      BY Zenon, <1>2, <2>2 DEF RejectBody, Condemns, ContextualCheckBlock, Condemning
    <3>. QED BY Zenon, <1>0, <2>1, <3>1, CondemnBest
  <2>3. CASE ~Condemns(ContextualCheckBlock(job[t]))
    <3>1. AcceptBlockHeader(b) = "valid" /\ AddToBlockIndex(b) /\ failed' = failed
      BY Zenon, <1>2, <2>3 DEF RejectBody, HeaderAccepted
    <3>. QED BY Zenon, <1>0, <2>1, <3>1, InsertBest
  <2>. QED BY <2>2, <2>3
<1>3. CASE WriteFails(t)
  <2>1. /\ AcceptBlockHeader(b) = "valid" /\ AddToBlockIndex(b) /\ failed' = failed
        /\ have' = have
    BY Zenon, <1>3 DEF WriteFails, BodyAccepted, HeaderAccepted
  <2>. QED BY Zenon, <1>0, <2>1, InsertBest
<1>4. CASE StoreBlock(t)
  <2>1. /\ AcceptBlockHeader(b) = "valid" /\ AddToBlockIndex(b) /\ failed' = failed
        /\ have' = have \cup {b}
    BY Zenon, <1>4 DEF StoreBlock, BodyAccepted, HeaderAccepted
  <2>. QED BY Zenon, <1>0, <2>1, InsertBest
<1>5. CASE ConnectInvalid(t)
  <2>1. PICK x \in Block : Verdict[x] = "connect" /\ InvalidBlockFound(x)
    BY Zenon, <1>5 DEF ConnectInvalid
  <2>2. have' = have
    BY Zenon, <1>5 DEF ConnectInvalid
  <2>. QED BY Zenon, <2>1, <2>2, CondemnBest DEF Condemning
<1>6. CASE UNCHANGED <<headers, failed, have>>
  BY Zenon, <1>6, SameBest
<1>7. StoreBlock(t) \/ have' = have
  BY Zenon, Frame DEF TreeFrame, Link
<1>. QED BY Zenon, <1>1, <1>2, <1>3, <1>4, <1>5, <1>6, <1>7, Frame DEF TreeFrame

\* ChainstateManager::best_entry always is a header of most work among those
\* not known to be invalid, whatever is inserted and flagged in between.
THEOREM BestHeader == Spec => []BestHeaderIsBest
<1>1. Init => BestInv
  <2>. SUFFICES ASSUME Init PROVE BestInv
    OBVIOUS
  <2>1. have = {Genesis} /\ index = {Genesis} /\ failed = {} /\ bestHeader = Genesis
    BY Zenon DEF Init
  <2>2. Work[Genesis] \in Nat
    BY TreeConstants DEF TreeConstants
  <2>. QED BY SMTT(30), <2>1, <2>2 DEF BestInv, BestHeaderIsBest
<1>2. IInv /\ BestInv /\ [Next]_vars => BestInv'
  <2>. SUFFICES ASSUME IInv, BestInv, [Next]_vars PROVE BestInv'
    OBVIOUS
  <2>1. \/ UNCHANGED <<headers, failed, have>>
        \/ \E t \in Thread : Proceed(t)
    BY Zenon DEF Next, Interrupt, Begin, vars
  <2>. QED BY Zenon, <2>1, BestStep, SameBest
<1>3. BestInv => BestHeaderIsBest
  BY DEF BestInv
<1>. QED BY <1>1, <1>2, <1>3, Inductive, PTL DEF Spec

-----------------------------------------------------------------------------
(* The header_tip callback.  A damaged copy that is found out only after    *)
(* its header was indexed, or a block that cannot be written, moves         *)
(* m_best_header and returns before NotifyHeaderTip.  Where neither         *)
(* happens, no new best header is kept from the listener.                   *)

Notifying == {"link", "notify"}

\* A new best header has been announced, or a call is on its way to do so.
HeaderTipInv ==
    failed = {} => \/ bestHeader \in {Genesis, lastNotified}
                   \/ \E t \in Thread : pc[t] \in Notifying

\* The steps of a thread on its way to NotifyHeaderTip.
LEMMA NotifyingSteps ==
    ASSUME NEW t \in Thread, Proceed(t), pc[t] \in Notifying
    PROVE  Link(t) \/ LinkDone(t) \/ NotifyHeaderTip(t)
<1>1. pc[t] \in {"link", "notify"}
  BY Zenon DEF Notifying
<1>2. /\ ~Done(t) /\ ~AcceptHeader(t) /\ ~InAcceptBlock(t) /\ ~HeaderTip(t)
      /\ ~ActivateBestChain(t)
  BY <1>1 DEF Done, AcceptHeader, InAcceptBlock, HeaderTip, ActivateBestChain
<1>3. /\ ~RejectUnindexed(t) /\ ~RejectBody(t) /\ ~WriteFails(t)
      /\ ~StoreBlock(t) /\ ~KnownBlock(t)
  BY Zenon, <1>2 DEF RejectUnindexed, RejectBody, WriteFails, StoreBlock, KnownBlock,
                     BodyAccepted, HeaderAccepted
<1>4. /\ LoopBegin(t) => pc[t] = "loop"
      /\ Find(t) => pc[t] = "find"
      /\ CoinsMismatch(t) => pc[t] = "step"
      /\ DisconnectTip(t) => pc[t] = "step"
  BY Zenon DEF LoopBegin, Find, CoinsMismatch, DisconnectTip, Above
<1>5. /\ ConnectTip(t) => pc[t] = "step"
      /\ ConnectInvalid(t) => pc[t] = "step"
      /\ StepFails(t) => pc[t] = "step"
  BY Zenon DEF ConnectTip, ConnectInvalid, StepFails
<1>6. /\ ~Connected(t) /\ ~LeaveIdle(t) /\ ~LeaveMoved(t) /\ ~Flush(t)
      /\ ~FlushFails(t)
  BY <1>1 DEF Connected, LeaveIdle, LeaveMoved, Flush, FlushFails
<1>. QED BY Zenon, <1>1, <1>2, <1>3, <1>4, <1>5, <1>6 DEF Proceed, Accept, Activate

\* Copies are damaged visibly or not at all, and blocks can be written.
CopiesWhole ==
    /\ \A j \in Jobs : j.body # "witness"
    /\ "write" \notin Faults

\* Then bestHeader changes on the way to NotifyHeaderTip, or with a block
\* that is found invalid.
LEMMA BestHeaderMoves ==
    ASSUME CopiesWhole, IInv, NEW t \in Thread, Proceed(t), bestHeader' # bestHeader
    PROVE  pc'[t] \in Notifying \/ failed' # {}
<1>0. /\ TypeOK /\ pc \in [Thread -> Pc] /\ job[t] \in Jobs \cup {NoJob}
      /\ job[t].blk \in Block
  BY Zenon, JobFacts DEF IInv, TypeOK
<1>1. CASE AcceptHeader(t)
  <2>1. AcceptBlockHeader(job[t].blk) = "valid"
    BY Zenon, <1>1 DEF AcceptHeader, headers
  <2>. QED BY Zenon, <1>0, <1>1, <2>1 DEF AcceptHeader, Notifying
<1>2. CASE RejectBody(t)
  <2>1. job[t].body # "witness"
    <3>1. NoJob.body = "good"
      BY DEF NoJob
    <3>. QED BY Zenon, <1>0, <3>1 DEF CopiesWhole
  <2>2. ContextualCheckBlock(job[t]) # "mutated"
    BY <2>1 DEF ContextualCheckBlock
  <2>3. failed' = failed \cup Descendants(job[t].blk, index \cup {job[t].blk})
    BY Zenon, <1>2, <2>2 DEF RejectBody, Condemns, InvalidBlockFound
  <2>4. job[t].blk \in Anc[job[t].blk]
    BY Zenon, <1>0, TreeFacts
  <2>. QED BY Zenon, <2>3, <2>4 DEF Descendants
<1>3. ~WriteFails(t)
  BY Zenon DEF WriteFails, CopiesWhole
<1>4. CASE StoreBlock(t)
  BY Zenon, <1>0, <1>4 DEF StoreBlock, Notifying
<1>5. CASE ConnectInvalid(t)
  <2>1. PICK x \in Block : InvalidBlockFound(x)
    BY Zenon, <1>5 DEF ConnectInvalid
  <2>2. failed' = failed \cup Descendants(x, index \cup {x}) /\ x \in Anc[x]
    BY Zenon, <2>1, TreeFacts DEF InvalidBlockFound
  <2>. QED BY Zenon, <2>2 DEF Descendants
<1>. QED BY Zenon, <1>1, <1>2, <1>3, <1>4, <1>5, Frame DEF TreeFrame, headers

LEMMA HeaderTipStep ==
    ASSUME CopiesWhole, IInv, HeaderTipInv, NEW t \in Thread, Proceed(t)
    PROVE  HeaderTipInv'
<1>0. pc \in [Thread -> Pc]
  BY Zenon DEF IInv, TypeOK
<1>. SUFFICES ASSUME failed' = {}
              PROVE  \/ bestHeader' \in {Genesis, lastNotified'}
                     \/ \E u \in Thread : pc'[u] \in Notifying
  BY Zenon DEF HeaderTipInv
<1>1. failed = {}
  BY Zenon, FailedGrows
<1>2. CASE bestHeader' # bestHeader
  BY Zenon, <1>2, BestHeaderMoves
<1>3. CASE bestHeader' = bestHeader /\ NotifyHeaderTip(t)
  BY Zenon, <1>3 DEF NotifyHeaderTip, HeaderTipChanged
<1>4. CASE bestHeader' = bestHeader /\ ~NotifyHeaderTip(t)
  <2>1. lastNotified' = lastNotified
    BY Zenon, <1>4, Frame DEF TreeFrame
  <2>2. ASSUME NEW u \in Thread, pc[u] \in Notifying
        PROVE  pc'[u] \in Notifying
    <3>1. CASE u # t
      BY Zenon, <1>0, <2>2, <3>1, PlaceFrame DEF Places
    <3>2. CASE u = t /\ Link(t)
      BY Zenon, <2>2, <3>2 DEF Link, call
    <3>3. CASE u = t /\ LinkDone(t)
      BY Zenon, <1>0, <3>3 DEF LinkDone, Notifying
    <3>. QED BY Zenon, <1>4, <2>2, <3>1, <3>2, <3>3, NotifyingSteps
  <2>. QED BY Zenon, <1>1, <1>4, <2>1, <2>2 DEF HeaderTipInv
<1>. QED BY Zenon, <1>2, <1>3, <1>4

\* Where no copy is damaged in its witness data and no block write fails, a
\* listener whose callers have all returned was given the best header by
\* header_tip, until some block is found invalid.
THEOREM HeaderTips ==
    ASSUME CopiesWhole
    PROVE  Spec => []NewBestHeaderNotified
<1>1. Init => HeaderTipInv
  BY Zenon DEF Init, HeaderTipInv
<1>2. IInv /\ HeaderTipInv /\ [Next]_vars => HeaderTipInv'
  <2>. SUFFICES ASSUME IInv, HeaderTipInv, [Next]_vars PROVE HeaderTipInv'
    OBVIOUS
  <2>1. CASE \E t \in Thread : Proceed(t)
    BY Zenon, <2>1, HeaderTipStep
  <2>2. CASE UNCHANGED <<failed, bestHeader, lastNotified, pc>>
    BY Zenon, <2>2 DEF HeaderTipInv
  <2>3. CASE \E t \in Thread, j \in Jobs : Begin(t, j)
    <3>1. PICK t \in Thread, j \in Jobs : Begin(t, j)
      BY Zenon, <2>3
    <3>2. /\ pc \in [Thread -> Pc] /\ pc[t] = "idle"
          /\ pc' = [pc EXCEPT ![t] = "accept"]
          /\ UNCHANGED <<failed, bestHeader, lastNotified>>
      BY Zenon, <3>1 DEF Begin, IInv, TypeOK, headers, flags
    <3>3. \A u \in Thread : pc[u] \in Notifying => pc'[u] \in Notifying
      BY <3>2 DEF Notifying
    <3>. QED BY Zenon, <3>2, <3>3 DEF HeaderTipInv
  <2>4. (process = "running" /\ Interrupt) \/ UNCHANGED vars
            => UNCHANGED <<failed, bestHeader, lastNotified, pc>>
    BY Zenon DEF Interrupt, vars, headers, flags, call
  <2>. QED BY Zenon, <2>1, <2>2, <2>3, <2>4 DEF Next
<1>3. HeaderTipInv => NewBestHeaderNotified
  BY DEF HeaderTipInv, NewBestHeaderNotified, Quiet, Notifying
<1>. QED BY <1>1, <1>2, <1>3, Inductive, PTL DEF Spec
=============================================================================
