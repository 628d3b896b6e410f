------------------------------ MODULE Chainman ------------------------------
(***************************************************************************)
(* ChainstateManager::process_block and process_block_header of            *)
(* src/src/state/chainstate.rs, called from several threads, and the       *)
(* ProcessNewBlock, AcceptBlock and ActivateBestChain they reach.          *)
(*                                                                         *)
(* cs_main and m_chainstate_mutex are variables.  A cs_main section is one *)
(* action, except the two that loop: the linking of stored blocks and the  *)
(* inner loop of ActivateBestChain are one action per turn, under the held *)
(* lock.  Callbacks run synchronously (Context uses ImmediateTaskRunner),  *)
(* so an action delivers the callbacks of its code; what a listener then   *)
(* knows is in the variables lsTip, tipSeen, heard and announced.          *)
(*                                                                         *)
(* A block is a member of Block; what validation would say of it is the    *)
(* constant Verdict: the first stage at which the consensus rules refuse   *)
(* it.  A submitted copy may moreover be damaged (Body).                   *)
(***************************************************************************)
EXTENDS Integers, Sequences, FiniteSets

CONSTANTS
    Thread, NoThread,
    Block, Genesis, NoBlock,
    Prev,        \* the parent of every block but Genesis
    Anc,         \* a block's ancestors, itself included
    Work,        \* nChainWork
    Verdict,     \* the stage that refuses the block, or valid
    Recent,      \* the tips that end initial block download
    Jobs,        \* the calls the program may make; body says how the copy
                 \* submitted differs from the block
    Faults       \* the system errors that may happen, or an interrupt

Stages == {"valid", "pow", "header", "check", "context", "weight",
           "connect"}

ASSUME TreeConstants ==
    /\ NoThread \notin Thread
    /\ Genesis \in Block /\ NoBlock \notin Block
    /\ Prev \in [Block \ {Genesis} -> Block]
    /\ Work \in [Block -> Nat]
    /\ \A b \in Block \ {Genesis} : Work[Prev[b]] < Work[b]
    /\ Anc \in [Block -> SUBSET Block]
    /\ Anc[Genesis] = {Genesis} /\ \A b \in Block : Genesis \in Anc[b]
    /\ \A b \in Block \ {Genesis} : Anc[b] = {b} \cup Anc[Prev[b]]
    /\ \A b \in Block : \A a \in Anc[b] : Anc[a] \subseteq Anc[b]
    /\ \A b \in Block : \A a \in Anc[b] \ {b} : Work[a] < Work[b]
    /\ Verdict \in [Block -> Stages] /\ Verdict[Genesis] = "valid"
    /\ Recent \subseteq Block
    /\ Jobs \subseteq [op : {"block", "header"}, blk : Block,
                        body : {"good", "merkle", "witness"}]
    /\ Faults \subseteq {"write", "read", "connect", "flush", "interrupt"}

\* The tree is finite: a block has the most work.
ASSUME WorkBounded == \E b \in Block : \A a \in Block : Work[a] <= Work[b]

VARIABLES
    csMain, chainMutex,     \* the holders of cs_main and m_chainstate_mutex
    index,       \* m_block_index: the blocks with an accepted header
    have,        \* BLOCK_HAVE_DATA
    linked,      \* HaveNumChainTxs: data of the block and all its ancestors
    failed,      \* BLOCK_FAILED_VALID
    undo,        \* BLOCK_HAVE_UNDO
    unlinked,    \* m_blocks_unlinked: by parent, in insertion order
    queue,       \* the queue of ReceivedBlockTransactions
    seq, nextSeq,           \* nSequenceId and nBlockSequenceId
    bestHeader, lastNotified,   \* m_best_header, m_last_notified_header
    candidates,  \* setBlockIndexCandidates
    tip,         \* m_chain.Tip()
    coins,       \* the best block of CoinsTip()
    ibd,         \* m_cached_is_ibd
    mostWork, newTip, startTip, oldTip, connected, found, progressed,
                 \* the locals of ActivateBestChain and its step
    pc, job, isNew, reason, res,
                 \* per thread: place, call, fNewBlock, header to notify,
                 \* the BlockValidationState and the outcome of the call
    lsTip, tipSeen, heard, announced,
                 \* what the connected/disconnected, block_tip, header_tip,
                 \* block_checked (last, in the call a thread is in) and
                 \* new_pow_valid_block callbacks told
    stored,      \* history: the NewBlock outcomes of each block
    shown,       \* history: tip when cs_main was last released
    fatal,       \* was fatal_error notified
    interrupted, \* Context::interrupt was called
    process      \* aborted: an assert failed

locks == <<csMain, chainMutex>>
headers == <<index, bestHeader>>
flags == <<failed, undo>>
data == <<have, linked, unlinked, queue, seq, nextSeq>>
chain == <<candidates, tip, coins, ibd>>
abc == <<mostWork, newTip, startTip, oldTip, connected, found, progressed>>
call == <<pc, job, isNew, reason, res>>
tips == <<lsTip, tipSeen, shown>>
env == <<fatal, interrupted, process>>
vars == <<locks, headers, lastNotified, data, flags, chain, abc, call, tips,
          heard, announced, stored, env>>

Reasons == {"valid", "consensus", "mutated", "invalid_header", "missing_prev",
            "invalid_prev", "cached_invalid", "error"}
NotChecked == <<NoBlock, "none">>
NoJob == [op |-> "block", blk |-> Genesis, body |-> "good"]
Pc == {"idle", "done", "accept", "link", "notify", "header_tip", "abc", "loop",
       "find", "step", "connected", "leave", "flush"}
Activating == {"loop", "find", "step", "connected", "leave", "flush"}
Locked == {"link", "find", "step", "connected", "leave"}
MaybeBlock == Block \cup {NoBlock}

TypeOK ==
    /\ csMain \in Thread \cup {NoThread}
    /\ chainMutex \in Thread \cup {NoThread}
    /\ index \subseteq Block /\ have \subseteq Block
    /\ linked \subseteq Block /\ failed \subseteq Block /\ undo \subseteq Block
    /\ unlinked \in [Block -> Seq(Block)] /\ queue \in Seq(Block)
    /\ seq \in [Block -> Nat] /\ nextSeq \in Nat
    /\ bestHeader \in Block /\ lastNotified \in MaybeBlock
    /\ candidates \subseteq Block
    /\ tip \in Block /\ coins \in Block /\ ibd \in {"on", "off"}
    /\ mostWork \in MaybeBlock /\ newTip \in MaybeBlock
    /\ startTip \in MaybeBlock /\ oldTip \in MaybeBlock
    /\ connected \in Seq(Block)
    /\ found \in {"no", "yes"} /\ progressed \in {"no", "yes"}
    /\ pc \in [Thread -> Pc] /\ job \in [Thread -> Jobs \cup {NoJob}]
    /\ isNew \in [Thread -> {"no", "yes"}]
    /\ reason \in [Thread -> Reasons]
    /\ res \in [Thread -> {"none", "NewBlock", "Duplicate", "Rejected",
                           "Valid", "Invalid"}]
    /\ lsTip \in MaybeBlock /\ tipSeen \in Block
    /\ heard \in [Thread -> MaybeBlock \X {"none", "valid", "invalid", "error"}]
    /\ announced \in [Block -> Nat] /\ stored \in [Block -> Nat]
    /\ shown \in Block
    /\ fatal \in {"no", "yes"} /\ interrupted \in {"no", "yes"}
    /\ process \in {"running", "aborted"}

\* The state chainstate_manager_create leaves behind in an empty directory:
\* the genesis block is stored, connected and announced.
Init ==
    /\ csMain = NoThread /\ chainMutex = NoThread
    /\ index = {Genesis} /\ have = {Genesis} /\ linked = {Genesis}
    /\ failed = {} /\ undo = {} /\ unlinked = [b \in Block |-> <<>>] /\ queue = <<>>
    /\ seq = [b \in Block |-> IF b = Genesis THEN 2 ELSE 1] /\ nextSeq = 3
    /\ bestHeader = Genesis /\ lastNotified = NoBlock
    /\ candidates = {Genesis} /\ tip = Genesis /\ coins = Genesis
    /\ ibd = IF Genesis \in Recent THEN "off" ELSE "on"
    /\ mostWork = NoBlock /\ newTip = NoBlock
    /\ startTip = NoBlock /\ oldTip = NoBlock
    /\ connected = <<>> /\ found = "no" /\ progressed = "no"
    /\ pc = [t \in Thread |-> "idle"]
    /\ job = [t \in Thread |-> NoJob]
    /\ isNew = [t \in Thread |-> "no"]
    /\ reason = [t \in Thread |-> "valid"] /\ res = [t \in Thread |-> "none"]
    /\ lsTip = Genesis /\ tipSeen = Genesis
    /\ heard = [t \in Thread |-> NotChecked]
    /\ announced = [b \in Block |-> 0] /\ stored = [b \in Block |-> 0]
    /\ shown = Genesis
    /\ fatal = "no" /\ interrupted = "no" /\ process = "running"

-----------------------------------------------------------------------------
(* The block tree. *)

\* CBlockIndexWorkComparator: less work, or the same work received later.
WorseIn(ids, a, b) ==
    \/ Work[a] < Work[b]
    \/ Work[a] = Work[b] /\ ids[a] > ids[b]

Worse(a, b) == WorseIn(seq, a, b)

\* Mutant: only the block itself is flagged.
NoDescendants(b, known) == {b}

Descendants(b, known) == {x \in known : b \in Anc[x]}

\* AcceptBlockHeader up to the insertion, its returns in order.
AcceptBlockHeader(b) ==
    IF b = Genesis \/ b \in index \ failed THEN "valid"
    ELSE IF b \in index THEN "cached_invalid"
    ELSE IF Verdict[b] = "pow" THEN "invalid_header"
    ELSE IF Prev[b] \notin index THEN "missing_prev"
    ELSE IF Prev[b] \in failed THEN "invalid_prev"
    ELSE IF Verdict[b] = "header" THEN "invalid_header"
    ELSE "valid"

\* m_best_header once the header of b is in the index.
BestWith(b) ==
    IF b \notin index /\ Work[bestHeader] < Work[b] THEN b ELSE bestHeader

AddToBlockIndex(b) ==
    /\ index' = index \cup {b}
    /\ bestHeader' = BestWith(b)

\* Mutant: the search stops at the tip.
BestHeaderIsTip(known, bad) == {tip}

\* RecalculateBestHeader walks an unordered map and keeps the first entry of
\* most work it meets, the tip if none has more.
RecalculateBestHeader(known, bad) ==
    LET ok == (known \ bad) \cup {tip}
        best == {x \in ok : \A y \in ok : Work[y] <= Work[x]}
    IN  IF tip \in best THEN {tip} ELSE best

\* InvalidBlockFound(b), b being in the index or just inserted: b and all its
\* descendants are flagged and the best header is searched again if it is one
\* of them.
InvalidBlockFound(b) ==
    LET known == index \cup {b}
        bad == failed \cup Descendants(b, known)
    IN  /\ failed' = bad
        /\ candidates' = candidates \ {b}
        /\ index' = known
        /\ bestHeader' \in IF b \in Anc[BestWith(b)]
                              THEN RecalculateBestHeader(known, bad)
                              ELSE {BestWith(b)}

\* What CheckBlock says of the submitted copy.
CheckBlock(j) ==
    IF Verdict[j.blk] = "pow" THEN "invalid_header"
    ELSE IF j.body = "merkle" THEN "mutated"
    ELSE IF Verdict[j.blk] = "check" THEN "consensus"
    ELSE "valid"

\* What ContextualCheckBlock says of it: lock times and the height in the
\* coinbase come before the witness commitment, the weight after it.
ContextualCheckBlock(j) ==
    IF Verdict[j.blk] = "context" THEN "consensus"
    ELSE IF j.body = "witness" THEN "mutated"
    ELSE IF Verdict[j.blk] = "weight" THEN "consensus"
    ELSE "valid"

-----------------------------------------------------------------------------
(* process_block and process_block_header up to NotifyHeaderTip. *)

\* A program halts on a fatal error, as lib.rs asks: it makes no new calls,
\* but the calls other threads are in go on.
Begin(t, j) ==
    /\ pc[t] = "idle" /\ fatal = "no"
    /\ pc' = [pc EXCEPT ![t] = "accept"]
    /\ job' = [job EXCEPT ![t] = j]
    /\ UNCHANGED <<locks, headers, lastNotified, data, flags, chain, abc,
                   isNew, reason, res, tips, heard, announced, stored, env>>

\* The caller has its result.
Done(t) ==
    /\ pc[t] = "done"
    /\ pc' = [pc EXCEPT ![t] = "idle"]
    /\ job' = [job EXCEPT ![t] = NoJob]
    /\ isNew' = [isNew EXCEPT ![t] = "no"]
    /\ reason' = [reason EXCEPT ![t] = "valid"]
    /\ res' = [res EXCEPT ![t] = "none"]
    /\ heard' = [heard EXCEPT ![t] = NotChecked]
    /\ UNCHANGED <<locks, headers, lastNotified, data, flags, chain, abc,
                   tips, announced, stored, env>>

\* ProcessNewBlockHeaders.
AcceptHeader(t) ==
    LET b == job[t].blk
        r == AcceptBlockHeader(b)
    IN  /\ pc[t] = "accept" /\ job[t].op = "header" /\ csMain = NoThread
        /\ reason' = [reason EXCEPT ![t] = r]
        /\ IF r = "valid"
              THEN /\ AddToBlockIndex(b)
                   /\ pc' = [pc EXCEPT ![t] = "notify"]
                   /\ UNCHANGED res
              ELSE /\ pc' = [pc EXCEPT ![t] = "done"]
                   /\ res' = [res EXCEPT ![t] = "Invalid"]
                   /\ UNCHANGED headers
        /\ UNCHANGED <<locks, lastNotified, data, flags, chain, abc, job,
                       isNew, tips, heard, announced, stored,
                       env>>

\* Mutant: the callback is not made.
BlockUnchecked(t, b, mode) == UNCHANGED heard

\* The block_checked callback.
BlockChecked(t, b, mode) == heard' = [heard EXCEPT ![t] = <<b, mode>>]

\* Mutant: the error is not notified.
FatalErrorLost == fatal' = fatal

\* The fatal_error callback.
FatalError == fatal' = "yes"

\* ProcessNewBlock returns false inside its cs_main section: block_checked
\* is told the state r, and the Rust caller gets Rejected.
Reject(t, r) ==
    /\ reason' = [reason EXCEPT ![t] = r]
    /\ BlockChecked(t, job[t].blk, IF r = "error" THEN "error" ELSE "invalid")
    /\ res' = [res EXCEPT ![t] = "Rejected"]
    /\ pc' = [pc EXCEPT ![t] = "done"]

InAcceptBlock(t) ==
    /\ pc[t] = "accept" /\ job[t].op = "block" /\ csMain = NoThread

\* CheckBlock or AcceptBlockHeader refuses: nothing is recorded.
RejectUnindexed(t) ==
    LET j == job[t]
        r == IF CheckBlock(j) # "valid" THEN CheckBlock(j)
                                        ELSE AcceptBlockHeader(j.blk)
    IN  /\ InAcceptBlock(t) /\ r # "valid"
        /\ Reject(t, r)
        /\ UNCHANGED <<locks, headers, lastNotified, data, flags, chain, abc,
                       job, isNew, tips, announced, stored, env>>

HeaderAccepted(t) ==
    /\ InAcceptBlock(t)
    /\ CheckBlock(job[t]) = "valid"
    /\ AcceptBlockHeader(job[t].blk) = "valid"

\* Mutant: a damaged copy is held against its block.
CondemnsAny(r) == r # "valid"

\* The first test of InvalidBlockFound.
Condemns(r) == r # "mutated"

\* ContextualCheckBlock refuses the body of an accepted header.
RejectBody(t) ==
    LET j == job[t]
        r == ContextualCheckBlock(j)
    IN  /\ HeaderAccepted(t) /\ j.blk \notin have /\ r # "valid"
        /\ Reject(t, r)
        /\ IF Condemns(r)
              THEN InvalidBlockFound(j.blk)
              ELSE AddToBlockIndex(j.blk) /\ UNCHANGED <<failed, candidates>>
        /\ UNCHANGED <<locks, lastNotified, data, undo, tip, coins, ibd, abc,
                       job, isNew, tips, announced, stored, env>>

\* NewPoWValidBlock, for a block on top of the tip after initial download.
Announce(b) ==
    announced' = IF ibd = "off" /\ Prev[b] = tip
                    THEN [announced EXCEPT ![b] = @ + 1] ELSE announced

\* Mutant: BLOCK_HAVE_DATA is not looked at.
BodyAcceptedAgain(t) ==
    /\ HeaderAccepted(t)
    /\ ContextualCheckBlock(job[t]) = "valid"

\* A good body that is not stored yet.
BodyAccepted(t) ==
    /\ HeaderAccepted(t)
    /\ job[t].blk \notin have /\ ContextualCheckBlock(job[t]) = "valid"

\* WriteBlock fails: *fNewBlock is already set.
WriteFails(t) ==
    /\ BodyAccepted(t) /\ "write" \in Faults
    /\ AddToBlockIndex(job[t].blk)
    /\ Announce(job[t].blk)
    /\ isNew' = [isNew EXCEPT ![t] = "yes"]
    /\ FatalError
    /\ Reject(t, "error")
    /\ UNCHANGED <<locks, lastNotified, data, flags, chain, abc, job,
                   tips, stored, interrupted, process>>

\* ReceivedBlockTransactions up to its loop, which Link goes on with.
StoreBlock(t) ==
    LET b == job[t].blk
    IN  /\ BodyAccepted(t)
        /\ AddToBlockIndex(b)
        /\ Announce(b)
        /\ isNew' = [isNew EXCEPT ![t] = "yes"]
        /\ have' = have \cup {b}
        /\ IF Prev[b] \in linked
              THEN /\ queue' = <<b>> /\ csMain' = t
                   /\ pc' = [pc EXCEPT ![t] = "link"]
                   /\ UNCHANGED unlinked
              ELSE /\ unlinked' = IF Prev[b] \in failed THEN unlinked
                          ELSE [unlinked EXCEPT ![Prev[b]] = Append(@, b)]
                   /\ pc' = [pc EXCEPT ![t] = "notify"]
                   /\ UNCHANGED <<queue, csMain>>
        /\ UNCHANGED <<chainMutex, lastNotified, linked, seq, nextSeq, flags,
                       chain, abc, job, reason, res, tips,
                       heard, stored, env>>

\* AcceptBlock returns early: the data is there.
KnownBlock(t) ==
    /\ HeaderAccepted(t) /\ job[t].blk \in have
    /\ pc' = [pc EXCEPT ![t] = "notify"]
    /\ UNCHANGED <<locks, headers, lastNotified, data, flags, chain, abc, job,
                   isNew, reason, res, tips, heard, announced,
                   stored, env>>

\* Mutant: blocks that came before their parent stay behind.
WaitingNone(b) == <<>>

\* The stored blocks that waited for b, in the order they came.
Waiting(b) == unlinked[b]

\* One turn of the loop of ReceivedBlockTransactions.
Link(t) ==
    LET b == Head(queue)
    IN  /\ pc[t] = "link" /\ queue # <<>>
        /\ linked' = linked \cup {b}
        /\ seq' = [seq EXCEPT ![b] = nextSeq]
        /\ nextSeq' = nextSeq + 1
        /\ candidates' = IF WorseIn(seq', b, tip)
                            THEN candidates ELSE candidates \cup {b}
        /\ queue' = Tail(queue) \o Waiting(b)
        /\ unlinked' = [unlinked EXCEPT ![b] = <<>>]
        /\ UNCHANGED <<locks, headers, lastNotified, have, flags, tip, coins,
                       ibd, abc, call, tips, heard, announced, stored,
                       env>>

LinkDone(t) ==
    /\ pc[t] = "link" /\ queue = <<>>
    /\ csMain' = NoThread
    /\ pc' = [pc EXCEPT ![t] = "notify"]
    /\ UNCHANGED <<chainMutex, headers, lastNotified, data, flags, chain, abc,
                   job, isNew, reason, res, tips, heard,
                   announced, stored, env>>

-----------------------------------------------------------------------------
(* NotifyHeaderTip: the header to announce is chosen under cs_main, the    *)
(* callback runs without it.                                               *)

Returned(t) == IF isNew[t] = "yes" THEN "NewBlock" ELSE "Duplicate"

\* Where a call goes on after NotifyHeaderTip.
AfterNotify(t) ==
    IF job[t].op = "block"
       THEN pc' = [pc EXCEPT ![t] = "abc"] /\ UNCHANGED res
       ELSE /\ pc' = [pc EXCEPT ![t] = "done"]
            /\ res' = [res EXCEPT ![t] = "Valid"]

\* Mutant: the callback is made only once.
HeaderTipFirst == lastNotified = NoBlock

HeaderTipChanged == bestHeader # lastNotified

NotifyHeaderTip(t) ==
    /\ pc[t] = "notify" /\ csMain = NoThread
    /\ IF HeaderTipChanged
          THEN /\ lastNotified' = bestHeader
               /\ pc' = [pc EXCEPT ![t] = "header_tip"]
               /\ UNCHANGED res
          ELSE AfterNotify(t) /\ UNCHANGED lastNotified
    /\ UNCHANGED <<locks, headers, data, flags, chain, abc, job, isNew,
                   reason, tips, heard, announced, stored, env>>

HeaderTip(t) ==
    /\ pc[t] = "header_tip"
    /\ AfterNotify(t)
    /\ UNCHANGED <<locks, headers, lastNotified, data, flags, chain, abc, job,
                   isNew, reason, tips, heard, announced, stored, env>>

-----------------------------------------------------------------------------
(* ActivateBestChain, under m_chainstate_mutex throughout. *)

ActivateBestChain(t) ==
    /\ pc[t] = "abc" /\ chainMutex = NoThread
    /\ chainMutex' = t
    /\ pc' = [pc EXCEPT ![t] = "loop"]
    /\ UNCHANGED <<csMain, headers, lastNotified, data, flags, chain, abc,
                   job, isNew, reason, res, tips, heard,
                   announced, stored, env>>

\* A turn of the outer loop takes cs_main.
LoopBegin(t) ==
    /\ pc[t] = "loop" /\ csMain = NoThread
    /\ csMain' = t
    /\ startTip' = tip /\ progressed' = "no"
    /\ pc' = [pc EXCEPT ![t] = "find"]
    /\ UNCHANGED <<chainMutex, headers, lastNotified, data, flags, chain,
                   mostWork, newTip, oldTip, connected, found, job, isNew,
                   reason, res, tips, heard, announced, stored, env>>

\* The failed blocks between the active chain and c, and the part of that
\* branch FindMostWorkChain erases: from c down to the topmost of them.
FailedOn(c) == (Anc[c] \ Anc[tip]) \cap failed

Dropped(c) ==
    {x \in Anc[c] : \E f \in FailedOn(c) :
                        f \in Anc[x] /\ FailedOn(c) \subseteq Anc[f]}

\* FindMostWorkChain returns best, and leaves the candidates Remaining(best).
FindMostWorkChain(best) ==
    LET usable == {c \in candidates : FailedOn(c) = {}}
    IN  IF usable = {} THEN best = NoBlock
                       ELSE /\ best \in usable
                            /\ \A c \in usable \ {best} : Worse(c, best)

Remaining(best) ==
    LET tried == {c \in candidates : /\ FailedOn(c) # {}
                                     /\ best = NoBlock \/ Worse(best, c)}
    IN  candidates \ UNION {Dropped(c) : c \in tried}

\* The head of the inner loop: choose the target; leave if there is none.
Find(t) ==
    /\ pc[t] = "find"
    /\ IF mostWork # NoBlock
          THEN UNCHANGED <<mostWork, candidates>>
          ELSE \E best \in MaybeBlock :
                  /\ FindMostWorkChain(best)
                  /\ mostWork' = best /\ candidates' = Remaining(best)
    /\ IF mostWork' \in {NoBlock, tip}
          THEN /\ pc' = [pc EXCEPT ![t] = "leave"]
               /\ UNCHANGED <<oldTip, connected, found>>
          ELSE /\ oldTip' = tip /\ connected' = <<>> /\ found' = "no"
               /\ pc' = [pc EXCEPT ![t] = "step"]
    /\ UNCHANGED <<locks, headers, lastNotified, data, flags, tip, coins, ibd,
                   newTip, startTip, progressed, job, isNew, reason, res,
                   tips, heard, announced, stored, env>>

\* SetTip and UpdateIBDStatus.
SetTip(b) ==
    /\ tip' = b
    /\ ibd' = IF b \in Recent THEN "off" ELSE ibd

\* The active chain is above the fork with mostWork: the step disconnects.
Above(t) == pc[t] = "step" /\ tip \notin Anc[mostWork]

\* Mutant: any block on top of the tip is taken.
SuccessorAny(x) == x # Genesis /\ Prev[x] = tip

\* Mutant: the step goes for its target at once.
SuccessorTarget(x) == x = mostWork /\ x # Genesis /\ Prev[x] = tip

\* The next block towards mostWork.
Successor(x) == x \in Anc[mostWork] \ {Genesis} /\ Prev[x] = tip

\* The asserts on the coins view: DisconnectTip and ConnectBlock want its
\* best block to be the tip they start from.
CoinsMismatch(t) ==
    /\ pc[t] = "step" /\ coins # tip
    /\ process' = "aborted"
    /\ UNCHANGED <<locks, headers, lastNotified, data, flags, chain, abc,
                   call, tips, heard, announced, stored, fatal,
                   interrupted>>

\* DisconnectTip, ending in the block_disconnected callback.
DisconnectTip(t) ==
    /\ Above(t) /\ coins = tip
    /\ SetTip(Prev[tip])
    /\ coins' = Prev[tip]
    /\ lsTip' = IF lsTip = tip THEN Prev[tip] ELSE NoBlock
    /\ UNCHANGED <<locks, headers, lastNotified, data, flags, candidates, abc,
                   call, tipSeen, shown, heard, announced, stored,
                   env>>

\* Mutant: the verdict is not waited for.
ConnectBlockLate(b) == Verdict[b] \in Stages

\* ConnectBlock accepts the block.
ConnectBlock(b) == Verdict[b] = "valid"

\* Those left are not worse than the new tip.
PruneBlockIndexCandidates(b) == {c \in candidates : ~Worse(c, b)}

\* ConnectTip succeeds; PruneBlockIndexCandidates; the step ends when it has
\* gained work over its first tip or has reached its target.
ConnectTip(t) ==
    /\ pc[t] = "step" /\ coins = tip
    /\ \E b \in Block :
          /\ Successor(b) /\ ConnectBlock(b)
          /\ BlockChecked(t, b, "valid")
          /\ SetTip(b)
          /\ coins' = b /\ undo' = undo \cup {b}
          /\ connected' = Append(connected, b)
          /\ candidates' = PruneBlockIndexCandidates(b)
          /\ pc' = IF Work[b] > Work[oldTip] \/ b = mostWork
                      THEN [pc EXCEPT ![t] = "connected"] ELSE pc
    /\ UNCHANGED <<locks, headers, lastNotified, data, failed, mostWork,
                   newTip, startTip, oldTip, found, progressed, job, isNew,
                   reason, res, tips, announced, stored, env>>

\* ConnectBlock finds the block invalid; the step ends.
ConnectInvalid(t) ==
    /\ pc[t] = "step" /\ coins = tip
    /\ \E b \in Block :
          /\ Successor(b) /\ Verdict[b] = "connect"
          /\ BlockChecked(t, b, "invalid")
          /\ InvalidBlockFound(b)
    /\ found' = "yes"
    /\ pc' = [pc EXCEPT ![t] = "connected"]
    /\ UNCHANGED <<locks, lastNotified, data, undo, tip, coins, ibd, mostWork,
                   newTip, startTip, oldTip, connected, progressed, job, isNew,
                   reason, res, tips, announced, stored, env>>

\* ActivateBestChain returns: its locals are gone.
Return(t, outcome) ==
    /\ csMain' = NoThread /\ chainMutex' = NoThread
    /\ mostWork' = NoBlock /\ newTip' = NoBlock
    /\ startTip' = NoBlock /\ oldTip' = NoBlock
    /\ connected' = <<>> /\ found' = "no" /\ progressed' = "no"
    /\ shown' = tip
    /\ pc' = [pc EXCEPT ![t] = "done"]
    /\ res' = [res EXCEPT ![t] = outcome]
    /\ stored' = IF outcome = "NewBlock"
                    THEN [stored EXCEPT ![job[t].blk] = @ + 1] ELSE stored

\* A system error in DisconnectTip or ConnectTip ends the call at once.  It
\* may strike before the coins view moves, in ConnectBlock (block_checked is
\* told), or in the flush after the coins view moved and before the chain does.
StepFails(t) ==
    /\ pc[t] = "step" /\ coins = tip
    /\ \E b \in Block :
          /\ IF Above(t) THEN b = Prev[tip] ELSE Successor(b)
          /\ \/ "read" \in Faults /\ UNCHANGED <<coins, undo, heard>>
             \/ /\ "connect" \in Faults /\ ~Above(t)
                /\ BlockChecked(t, b, "error")
                /\ UNCHANGED <<coins, undo>>
             \/ /\ "flush" \in Faults
                /\ Above(t) \/ Verdict[b] = "valid"
                /\ IF Above(t)
                      THEN UNCHANGED <<undo, heard>>
                      ELSE undo' = undo \cup {b} /\ BlockChecked(t, b, "valid")
                /\ coins' = b
    /\ FatalError
    /\ Return(t, "Rejected")
    /\ UNCHANGED <<headers, lastNotified, data, failed, candidates, tip, ibd,
                   job, isNew, reason, lsTip, tipSeen, announced,
                   interrupted, process>>

\* Mutant: pindexMostWork survives an invalid block.
TargetKept == mostWork

\* An invalid block wipes the target.
TargetAfterStep == IF found = "yes" THEN NoBlock ELSE mostWork

\* Mutant: no callbacks when an invalid block ended the step.
ConnectedUnlessInvalid ==
    CASE connected = <<>> \/ found = "yes" -> lsTip
      [] connected # <<>> /\ Prev[connected[1]] = lsTip -> connected[Len(connected)]
      [] OTHER -> NoBlock

\* What a listener makes of the block_connected callbacks of a step.
BlockConnected ==
    CASE connected = <<>> -> lsTip
      [] connected # <<>> /\ Prev[connected[1]] = lsTip -> connected[Len(connected)]
      [] OTHER -> NoBlock

\* Mutant: one step is taken for progress.
NoProgressNever == FALSE

NoProgress == Worse(tip, startTip)

\* After a step: the block_connected callbacks, and another turn while the
\* tip is worse than when cs_main was taken.
Connected(t) ==
    /\ pc[t] = "connected"
    /\ progressed' = "yes" /\ newTip' = tip
    /\ mostWork' = TargetAfterStep
    /\ connected' = <<>>
    /\ lsTip' = BlockConnected
    /\ pc' = [pc EXCEPT ![t] = IF NoProgress THEN "find" ELSE "leave"]
    /\ UNCHANGED <<locks, headers, lastNotified, data, flags, chain, startTip,
                   oldTip, found, job, isNew, reason, res, tipSeen, shown,
                   heard, announced, stored, env>>

\* Nothing was done: return true.
LeaveIdle(t) ==
    /\ pc[t] = "leave" /\ progressed = "no"
    /\ Return(t, Returned(t))
    /\ UNCHANGED <<headers, lastNotified, data, flags, chain, job, isNew,
                   reason, lsTip, tipSeen, heard, announced, env>>

\* Mutant: the callback is given pindexMostWork.
BlockTipTarget == mostWork

\* The last block_tip callback: none if the new tip was active before.
BlockTip == IF newTip \in Anc[startTip] THEN tipSeen ELSE newTip

\* The tip moved: block_tip and release.
LeaveMoved(t) ==
    /\ pc[t] = "leave" /\ progressed = "yes"
    /\ tipSeen' = BlockTip
    /\ csMain' = NoThread
    /\ shown' = tip
    /\ pc' = [pc EXCEPT ![t] = "flush"]
    /\ UNCHANGED <<chainMutex, headers, lastNotified, data, flags, chain, abc,
                   job, isNew, reason, res, lsTip, heard,
                   announced, stored, env>>

\* Where the outer loop ends.
LoopDone == interrupted = "yes" \/ newTip = mostWork

\* The periodic flush, the interrupt and the test of the outer loop.
Flush(t) ==
    /\ pc[t] = "flush" /\ csMain = NoThread
    /\ IF LoopDone
          THEN Return(t, Returned(t))
          ELSE /\ pc' = [pc EXCEPT ![t] = "loop"]
               /\ UNCHANGED <<locks, abc, shown, res, stored>>
    /\ UNCHANGED <<headers, lastNotified, data, flags, chain, job, isNew,
                   reason, lsTip, tipSeen, heard, announced, env>>

FlushFails(t) ==
    /\ pc[t] = "flush" /\ csMain = NoThread /\ "flush" \in Faults
    /\ FatalError
    /\ Return(t, "Rejected")
    /\ UNCHANGED <<headers, lastNotified, data, flags, chain, job, isNew,
                   reason, lsTip, tipSeen, heard, announced,
                   interrupted, process>>

-----------------------------------------------------------------------------

\* Context::interrupt, from any thread.
Interrupt ==
    /\ "interrupt" \in Faults
    /\ interrupted = "no" /\ interrupted' = "yes"
    /\ UNCHANGED <<locks, headers, lastNotified, data, flags, chain, abc,
                   call, tips, heard, announced, stored, fatal,
                   process>>

Accept(t) ==
    \/ Done(t)
    \/ AcceptHeader(t) \/ RejectUnindexed(t) \/ RejectBody(t) \/ WriteFails(t)
    \/ StoreBlock(t) \/ KnownBlock(t) \/ Link(t) \/ LinkDone(t)
    \/ NotifyHeaderTip(t) \/ HeaderTip(t)

Activate(t) ==
    \/ ActivateBestChain(t) \/ LoopBegin(t) \/ Find(t) \/ CoinsMismatch(t)
    \/ DisconnectTip(t) \/ ConnectTip(t) \/ ConnectInvalid(t) \/ StepFails(t)
    \/ Connected(t) \/ LeaveIdle(t) \/ LeaveMoved(t) \/ Flush(t)
    \/ FlushFails(t)

\* An aborted process takes no step.
Proceed(t) == process = "running" /\ (Accept(t) \/ Activate(t))

Next ==
    \/ \E t \in Thread : Proceed(t)
    \/ process = "running" /\ Interrupt
    \/ process = "running" /\ \E t \in Thread, j \in Jobs : Begin(t, j)

Spec == Init /\ [][Next]_vars

\* Every thread in a call goes on, and a mutex that is released again and
\* again is not withheld from a thread for ever.
FairSpec == Spec /\ \A t \in Thread : SF_vars(Proceed(t))

-----------------------------------------------------------------------------
(* Properties. *)

Free == csMain = NoThread

Quiet == \A t \in Thread : pc[t] \in {"idle", "done"}

\* A stored block no rule refuses, on top of such blocks.
Acceptable(b) == \A a \in Anc[b] : a \in have /\ Verdict[a] = "valid"

\* The stages whose refusal is recorded in the index.
Condemning == {"context", "weight", "connect"}

BadAncestor(b) == \E a \in Anc[b] : Verdict[a] \in Condemning

\* The active chain only ever holds blocks that pass every check, in the
\* middle of a reorganisation and after a system error too (ConnectTip is
\* reached only for blocks whose ancestors are all stored and connected).
ActiveChainValid == \A b \in Anc[tip] : Acceptable(b) /\ b \notin failed

\* BLOCK_FAILED_VALID is set on every indexed descendant of a failed block,
\* however headers, bodies and connection failures interleave, and never on a
\* block all of whose ancestors are valid: a damaged copy of a block
\* (BLOCK_MUTATED) does not condemn the block.
FailureFlagsExact ==
    \A f \in failed :
        BadAncestor(f) /\ \A x \in index : f \in Anc[x] => x \in failed

\* The asserts of FindMostWorkChain, PruneBlockIndexCandidates, DisconnectTip
\* and ConnectBlock never fail, except on a coins view that a reported fatal
\* error left ahead of the chain.
AssertsHold ==
    /\ candidates # {} /\ candidates \subseteq linked
    /\ coins # tip \/ process = "aborted" => fatal = "yes"

\* When all calls have returned, with no fatal error and no interrupt, the
\* tip is the best fully valid stored chain, the first received among equals,
\* in whatever order and by whichever threads its blocks were submitted.
MostWorkChainActive ==
    Quiet /\ fatal = "no" /\ interrupted = "no" =>
        \A b \in Block : Acceptable(b) => ~Worse(tip, b)

\* While cs_main is free and no fatal error was notified, what the
\* block_connected and block_disconnected callbacks told adds up to the
\* active chain, and the last block_tip is its tip.
ListenersInStep ==
    Free /\ fatal = "no" => lsTip = tip /\ tipSeen = tip

\* m_best_header (ChainstateManager::best_entry) has the most work of all the
\* headers not known to be invalid.
BestHeaderIsBest ==
    /\ bestHeader \in index \ failed
    /\ \A x \in index \ failed : Work[x] <= Work[bestHeader]

\* What the state of a refused block says of it: the block, the copy or an
\* ancestor is at fault, or nothing but the order of the calls.
Because(b, body, why) ==
    CASE why = "consensus" -> Verdict[b] \in {"check", "context", "weight"}
      [] why = "mutated" -> body # "good"
      [] why = "invalid_header" -> Verdict[b] \in {"pow", "header"}
      [] why \in {"invalid_prev", "cached_invalid"} -> BadAncestor(b)
      [] OTHER -> why = "missing_prev"

TrueRefusal(t) ==
    res[t] \in {"Rejected", "Invalid"} =>
        \/ reason[t] \in {"valid", "error"} /\ fatal = "yes"
        \/ /\ res[t] = "Rejected" => heard[t] = <<job[t].blk, "invalid">>
           /\ Because(job[t].blk, job[t].body, reason[t])

\* A call that is refused was cut short by a fatal error that was notified, or
\* the BlockValidationState it filled in is true of the block submitted and,
\* for process_block, is the last one block_checked was told in the call.  A
\* fatal error of another thread does not change that.  It is the reason that
\* is true: Rejected alone does not mean that the block breaks a rule.
RefusalsAreTrue == \A t \in Thread : TrueRefusal(t)

\* What the documentation of ProcessBlockResult::Rejected says: "The block
\* violated one or more consensus rules" (here, or one of its ancestors did).
RejectedBreaksRules ==
    \A t \in Thread :
        res[t] = "Rejected" /\ job[t].body = "good" =>
            \E a \in Anc[job[t].blk] : Verdict[a] # "valid"

\* process_block returns NewBlock at most once for a block, and
\* new_pow_valid_block is called at most once for it, even when several
\* threads submit it at the same time.
NewBlockOnce ==
    \A b \in Block : stored[b] <= 1 /\ (fatal = "no" => announced[b] <= 1)

\* The tip other threads can see never gets worse: ActivateBestChain gives up
\* cs_main only when the tip is the old one or better than it, or on a fatal
\* error (the comment "We absolutely may not unlock cs_main until we've made
\* forward progress").
VisibleTipImproves ==
    [][shown' # shown => Worse(shown, shown') \/ fatal' = "yes"]_vars

\* What a program sees of the manager: the stored blocks and the tip whenever
\* cs_main is free.
Status ==
    CASE fatal = "yes" -> "failed"
      [] fatal = "no" /\ interrupted = "yes" -> "interrupted"
      [] OTHER -> "running"
Promise == INSTANCE BestChain
    WITH Valid <- {b \in Block : Verdict[b] = "valid"},
         stored <- have, active <- shown, status <- Status

\* ProcessNewBlock and ActivateBestChain implement BestChain: to other threads
\* a reorganisation, with its disconnects, invalid blocks and second attempts,
\* is one move to a chain of valid stored blocks with at least as much work,
\* until a fatal error is notified.
ImplementsBestChain == Promise!Spec

\* ... and a stored valid chain with more work does not stay inactive, without
\* any further call, unless the program interrupts or a fatal error is notified.
ImplementsFairBestChain == Promise!FairSpec

\* The order of the candidates does not change while they are in the set: a
\* block in it keeps its nSequenceId, which is part of the sort key.
CandidateOrderStable ==
    [][\A b \in candidates : seq'[b] = seq[b]]_vars

\* Once all calls have returned, header_tip was called for the best header,
\* unless an invalid block made the search for it start over: the callback "is
\* invoked when a new best block header is added to the header chain"
\* (context.rs).
NewBestHeaderNotified ==
    Quiet /\ failed = {} => bestHeader \in {Genesis, lastNotified}

\* Whether a thread in a call can take its next step: the mutex it wants is
\* free, FindMostWorkChain has an answer, ActivateBestChainStep has a block to
\* disconnect or to connect.
CanGoOn(t) ==
    CASE pc[t] \in {"accept", "notify", "loop", "flush"} -> csMain = NoThread
      [] pc[t] = "abc" -> chainMutex = NoThread
      [] pc[t] = "find" ->
            mostWork # NoBlock \/ \E best \in MaybeBlock : FindMostWorkChain(best)
      [] pc[t] = "step" ->
            \/ coins # tip \/ Above(t)
            \/ \E b \in Block : Successor(b) /\ Verdict[b] \in {"valid", "connect"}
      [] OTHER -> TRUE

\* As long as a call is under way one of the calls can go on: cs_main and
\* m_chainstate_mutex are taken in one order, and ActivateBestChainStep always
\* finds the next block of the way to pindexMostWork, whatever system error
\* ended an earlier call.
NoCallStuck ==
    (\E t \in Thread : pc[t] # "idle") =>
        \E t \in Thread : pc[t] # "idle" /\ CanGoOn(t)

\* The blocks ActivateBestChain still has to disconnect and to connect; more
\* than all of them while it has no target.
Way(t) ==
    IF mostWork = NoBlock \/ (pc[t] = "connected" /\ found = "yes")
       THEN MaybeBlock
       ELSE (Anc[tip] \ Anc[mostWork]) \cup (Anc[mostWork] \ Anc[tip])

\* The places of ActivateBestChain between two steps.
Onward == {<<"connected", "leave">>, <<"connected", "find">>, <<"leave", "flush">>,
           <<"flush", "loop">>, <<"loop", "find">>, <<"find", "step">>}

\* A block was linked or found invalid, or the way got shorter, or the thread
\* moved on along the same way, or it was not its step.
Advances(t) ==
    \/ /\ linked \subseteq linked' /\ failed \subseteq failed'
       /\ linked' # linked \/ failed' # failed
    \/ /\ UNCHANGED <<linked, failed>>
       /\ \/ Way(t)' \subseteq Way(t) /\ Way(t)' # Way(t)
          \/ Way(t)' = Way(t) /\ <<pc[t], pc'[t]>> \in Onward
          \/ Way(t)' = Way(t) /\ UNCHANGED <<tip, pc[t]>>

\* ActivateBestChain does not go round in circles, whatever blocks turn out
\* invalid and whatever other threads submit meanwhile: each of its steps uses
\* up something of which a finite tree has only so much.
ActivationAdvances ==
    [][\A t \in Thread : {pc[t], pc'[t]} \subseteq Activating => Advances(t)]_vars

\* process_block and process_block_header return: a thread in a call is in
\* none again later, whatever it finds and whatever other threads do.
CallsReturn == \A t \in Thread : []<>(pc[t] = "idle" \/ process = "aborted")
=============================================================================
