--------------------------- MODULE ChainmanClients ---------------------------
(***************************************************************************)
(* Proofs about Chainman and ChainReader: what the callers and the readers *)
(* are told while any number of threads process blocks.  The results of a  *)
(* call need that a block is announced once (PendingInv) and refused for a *)
(* true reason (TrueRefusal).  The accessors need the height of a block to *)
(* single it out in its chain (AtFacts), the undo data of the active chain *)
(* to be on disk (UndoInv), and of each call that the tip now visible is   *)
(* among those seen, none of which has more work (ReadInv).                *)
(***************************************************************************)
EXTENDS ChainReader, ChainmanProofs, FiniteSetTheorems

USE DEF locks, headers, flags, data, chain, abc, call, tips, env,
        Pc, Activating, Locked, MaybeBlock
-----------------------------------------------------------------------------
(* What the callers are told. *)

\* A step changes the call of its own thread only; a call that has returned
\* waits for its caller; a call is refused in one of three ways, or on a fatal
\* error.
CallFrame(t) ==
    /\ \A u \in Thread \ {t} :
          /\ job'[u] = job[u] /\ isNew'[u] = isNew[u] /\ reason'[u] = reason[u]
          /\ res'[u] = res[u] /\ heard'[u] = heard[u]
    /\ \/ Done(t)
       \/ /\ job' = job /\ pc[t] # "done" /\ pc'[t] \notin {"idle", "accept"}
          /\ StoreBlock(t) \/ WriteFails(t) \/ isNew' = isNew
          /\ \/ pc'[t] = "done"
             \/ res' = res /\ (reason' = reason \/ reason'[t] = "valid")
    /\ res'[t] \in {"Rejected", "Invalid"} =>
          \/ res' = res
          \/ fatal' = "yes" /\ (reason' = reason \/ reason'[t] = "error")
          \/ AcceptHeader(t) \/ RejectUnindexed(t) \/ RejectBody(t)

LEMMA CallFrameStep ==
    ASSUME TypeOK, NEW t \in Thread, Proceed(t)
    PROVE  CallFrame(t)
<1>. CallType /\ heard \in [Thread -> MaybeBlock \X {"none", "valid", "invalid", "error"}]
  BY ZenonT(30), TypeParts DEF ListenType
<1>. USE DEF CallFrame, CallType
<1>0. ASSUME AfterNotify(t), UNCHANGED <<job, isNew, reason, heard>>,
             pc[t] \in {"notify", "header_tip"}
      PROVE  CallFrame(t)
  <2>1. CASE job[t].op = "block"
    BY <1>0, <2>1, Zenon DEF AfterNotify
  <2>2. CASE job[t].op # "block"
    BY <1>0, <2>2, ZenonT(30) DEF AfterNotify
  <2>. QED BY ZenonT(30), <2>1, <2>2
<1>1. CASE Done(t)
  BY <1>1, Zenon DEF Done
<1>2. CASE AcceptHeader(t)
  BY <1>2, ZenonT(30) DEF AcceptHeader
<1>3. CASE RejectUnindexed(t)
  BY <1>3, Zenon DEF RejectUnindexed, InAcceptBlock, Reject, BlockChecked
<1>4. CASE RejectBody(t)
  BY <1>4, Zenon DEF RejectBody, HeaderAccepted, InAcceptBlock, Reject, BlockChecked
<1>5. CASE WriteFails(t)
  BY <1>5, Zenon DEF WriteFails, BodyAccepted, HeaderAccepted, InAcceptBlock, Reject,
     BlockChecked, FatalError
<1>6. CASE StoreBlock(t)
  BY <1>6, Zenon DEF StoreBlock, BodyAccepted, HeaderAccepted, InAcceptBlock
<1>7. CASE KnownBlock(t)
  BY <1>7, Zenon DEF KnownBlock, HeaderAccepted, InAcceptBlock
<1>8. CASE Link(t)
  BY <1>8, Zenon DEF Link
<1>9. CASE LinkDone(t)
  BY <1>9, Zenon DEF LinkDone
<1>10. CASE NotifyHeaderTip(t)
  <2>1. CASE HeaderTipChanged
    BY <1>10, <2>1, Zenon DEF NotifyHeaderTip
  <2>2. CASE ~HeaderTipChanged
    BY <1>0, <1>10, <2>2, Zenon DEF NotifyHeaderTip
  <2>. QED BY ZenonT(30), <2>1, <2>2
<1>11. CASE HeaderTip(t)
  BY <1>0, <1>11, Zenon DEF HeaderTip
<1>12. CASE ActivateBestChain(t)
  BY <1>12, Zenon DEF ActivateBestChain
<1>13. CASE LoopBegin(t)
  BY <1>13, Zenon DEF LoopBegin
<1>14. CASE Find(t)
  BY <1>14, Zenon DEF Find
<1>15. CASE CoinsMismatch(t)
  BY <1>15, Zenon DEF CoinsMismatch
<1>16. CASE DisconnectTip(t)
  BY <1>16, Zenon DEF DisconnectTip, Above
<1>17. CASE ConnectTip(t)
  BY <1>17, ZenonT(30) DEF ConnectTip, BlockChecked
<1>18. CASE ConnectInvalid(t)
  BY <1>18, Zenon DEF ConnectInvalid, BlockChecked
<1>19. CASE StepFails(t)
  <2>1. /\ UNCHANGED <<job, isNew, reason>> /\ pc[t] = "step" /\ fatal' = "yes"
        /\ pc' = [pc EXCEPT ![t] = "done"] /\ res' = [res EXCEPT ![t] = "Rejected"]
    BY <1>19, Zenon DEF StepFails, Return, FatalError
  <2>2. heard' = heard \/ \E v : heard' = [heard EXCEPT ![t] = v]
    BY <1>19, Zenon DEF StepFails, BlockChecked
  <2>. QED BY <2>1, <2>2, Zenon
<1>20. CASE Connected(t)
  BY <1>20, Zenon DEF Connected
<1>21. CASE LeaveIdle(t)
  BY <1>21, Zenon DEF LeaveIdle, Return, Returned
<1>22. CASE LeaveMoved(t)
  BY <1>22, Zenon DEF LeaveMoved
<1>23. CASE Flush(t)
  <2>1. CASE LoopDone
    BY <1>23, <2>1, Zenon DEF Flush, Return, Returned
  <2>2. CASE ~LoopDone
    BY <1>23, <2>2, Zenon DEF Flush
  <2>. QED BY ZenonT(30), <2>1, <2>2
<1>24. CASE FlushFails(t)
  BY <1>24, Zenon DEF FlushFails, Return, FatalError
<1>. QED BY Zenon, <1>1, <1>2, <1>3, <1>4, <1>5, <1>6, <1>7, <1>8, <1>9, <1>10, <1>11,
            <1>12, <1>13, <1>14, <1>15, <1>16, <1>17, <1>18, <1>19, <1>20,
            <1>21, <1>22, <1>23, <1>24 DEF Proceed, Accept, Activate

\* A call that stored its block and has not returned yet.
Pending(t) == isNew[t] = "yes" /\ pc[t] # "done"

\* A block is stored by one call, for the next one sees BLOCK_HAVE_DATA; until
\* that call returns, NewBlock was returned for the block by no other.
PendingInv ==
    /\ \A t \in Thread : pc[t] \in {"idle", "accept"} => isNew[t] = "no"
    /\ \A t \in Thread : Pending(t) => job[t].blk \in have /\ stored[job[t].blk] = 0
    /\ \A t, u \in Thread :
          Pending(t) /\ Pending(u) /\ job[t].blk = job[u].blk => t = u
    /\ \A b \in Block : stored[b] <= 1 /\ (stored[b] > 0 => b \in have)

AnnouncedInv ==
    fatal = "no" => \A b \in Block : announced[b] <= 1 /\ (announced[b] > 0 => b \in have)

\* Steps that store nothing and return no NewBlock.
LEMMA PendingStays ==
    ASSUME PendingInv, UNCHANGED <<job, isNew, stored>>, have \subseteq have',
           \A u \in Thread : \/ pc'[u] = pc[u] \/ isNew[u] = "no"
                             \/ pc[u] # "done" /\ pc'[u] \notin {"idle", "accept"}
    PROVE  PendingInv'
<1>1. \A u \in Thread : Pending(u)' => Pending(u)
  BY ZenonT(30) DEF Pending
<1>. QED BY ZenonT(30), <1>1 DEF PendingInv, Pending

\* A step after which t has stored nothing, the other calls being as before.
LEMMA PendingOthers ==
    ASSUME PendingInv, NEW t \in Thread, UNCHANGED <<have, stored>>, ~Pending(t)',
           pc'[t] \in {"idle", "accept"} => isNew'[t] = "no",
           \A u \in Thread \ {t} : job'[u] = job[u] /\ isNew'[u] = isNew[u] /\ pc'[u] = pc[u]
    PROVE  PendingInv'
<1>1. \A u \in Thread : Pending(u)' => Pending(u) /\ job'[u] = job[u]
  BY Zenon DEF Pending
<1>2. \A u \in Thread : pc'[u] \in {"idle", "accept"} => isNew'[u] = "no"
  BY Zenon DEF PendingInv
<1>3. \A u \in Thread : Pending(u)' => job'[u].blk \in have /\ stored[job'[u].blk] = 0
  <2>. SUFFICES ASSUME NEW u \in Thread, Pending(u)'
                PROVE  job'[u].blk \in have /\ stored[job'[u].blk] = 0
    OBVIOUS
  <2>1. job'[u] = job[u] /\ Pending(u)
    BY Zenon, <1>1
  <2>2. job[u].blk \in have /\ stored[job[u].blk] = 0
    BY Zenon, <2>1 DEF PendingInv
  <2>. QED BY Zenon, <2>1, <2>2
<1>4. \A u, v \in Thread :
          Pending(u)' /\ Pending(v)' /\ job'[u].blk = job'[v].blk => u = v
  BY Zenon, <1>1 DEF PendingInv
<1>. QED BY Zenon, <1>2, <1>3, <1>4 DEF PendingInv

LEMMA PendingStep ==
    ASSUME TypeOK, PendingInv, NEW t \in Thread, Proceed(t)
    PROVE  PendingInv'
<1>. DEFINE b == job[t].blk
<1>0. /\ pc \in [Thread -> Pc] /\ isNew \in [Thread -> {"no", "yes"}]
      /\ stored \in [Block -> Nat] /\ b \in Block
      /\ \A u \in Thread : job[u].blk \in Block
      /\ \A u \in Thread \ {t} : pc'[u] = pc[u]
      /\ CallFrame(t) /\ have \subseteq have'
  <2>1. have \subseteq have'
    BY Zenon, Frame DEF TreeFrame, StoreBlock, Link
  <2>. QED BY Zenon, <2>1, JobFacts, PlaceFrame, CallFrameStep DEF TypeOK, Places
<1>1. CASE Done(t)
  <2>1. /\ UNCHANGED <<have, stored>> /\ pc' = [pc EXCEPT ![t] = "idle"]
        /\ isNew' = [isNew EXCEPT ![t] = "no"]
    BY Zenon, <1>1 DEF Done
  <2>2. isNew'[t] = "no" /\ ~Pending(t)'
    BY Zenon, <1>0, <2>1 DEF Pending
  <2>3. \A u \in Thread \ {t} : job'[u] = job[u] /\ isNew'[u] = isNew[u]
    BY Zenon, <1>0 DEF CallFrame
  <2>. QED BY Zenon, <1>0, <2>1, <2>2, <2>3, PendingOthers
<1>2. CASE WriteFails(t)
  <2>1. UNCHANGED <<job, have, stored>> /\ pc' = [pc EXCEPT ![t] = "done"]
    BY Zenon, <1>2 DEF WriteFails, Reject
  <2>2. pc'[t] = "done" /\ ~Pending(t)'
    BY Zenon, <1>0, <2>1 DEF Pending
  <2>3. \A u \in Thread \ {t} : job'[u] = job[u] /\ isNew'[u] = isNew[u]
    BY Zenon, <1>0 DEF CallFrame
  <2>. QED BY Zenon, <1>0, <2>1, <2>2, <2>3, PendingOthers
<1>3. CASE StoreBlock(t)
  <2>1. /\ UNCHANGED <<job, stored>> /\ have' = have \cup {b} /\ b \notin have
        /\ pc'[t] \in {"link", "notify"} /\ pc[t] = "accept"
    BY Zenon, <1>0, <1>3 DEF StoreBlock, BodyAccepted, HeaderAccepted, InAcceptBlock
  <2>2. stored[b] = 0
    <3>1. stored[b] \in Nat /\ ~(stored[b] > 0)
      BY Zenon, <1>0, <2>1 DEF PendingInv
    <3>. QED BY SMTT(30), <3>1
  <2>3. \A u \in Thread \ {t} : job'[u] = job[u] /\ isNew'[u] = isNew[u]
    BY Zenon, <1>0 DEF CallFrame
  <2>4. \A u \in Thread \ {t} : Pending(u)' => Pending(u) /\ job[u].blk # b
    BY Zenon, <1>0, <2>1, <2>3 DEF Pending, PendingInv
  <2>. QED BY Zenon, <1>0, <2>1, <2>2, <2>3, <2>4 DEF PendingInv
<1>4. CASE stored' = [stored EXCEPT ![b] = @ + 1] /\ isNew[t] = "yes" /\ pc'[t] = "done"
           /\ have' = have /\ isNew' = isNew /\ job' = job /\ pc[t] # "done"
  <2>1. Pending(t) /\ ~Pending(t)'
    BY Zenon, <1>4 DEF Pending
  <2>2. stored[b] = 0 /\ b \in have /\ stored'[b] = 1
    <3>1. stored[b] = 0 /\ b \in have /\ stored'[b] = stored[b] + 1
      BY Zenon, <1>0, <1>4, <2>1 DEF PendingInv
    <3>. QED BY SMTT(30), <3>1
  <2>3. \A x \in Block \ {b} : stored'[x] = stored[x]
    BY Zenon, <1>0, <1>4
  <2>4. \A u \in Thread \ {t} : Pending(u)' => Pending(u) /\ job[u].blk # b
    BY Zenon, <1>0, <1>4, <2>1 DEF Pending, PendingInv
  <2>5. \A x \in Block : stored'[x] <= 1 /\ (stored'[x] > 0 => x \in have)
    <3>1. stored'[b] <= 1
      BY SMTT(30), <2>2
    <3>2. \A x \in Block \ {b} : stored[x] <= 1 /\ (stored[x] > 0 => x \in have)
      BY Zenon DEF PendingInv
    <3>. QED BY Zenon, <2>2, <2>3, <3>1, <3>2
  <2>. QED BY Zenon, <1>0, <1>4, <2>1, <2>3, <2>4, <2>5 DEF PendingInv
<1>5. stored' = stored \/ /\ stored' = [stored EXCEPT ![b] = @ + 1] /\ isNew[t] = "yes"
                          /\ pc'[t] = "done" /\ have' = have /\ isNew' = isNew
                          /\ job' = job /\ pc[t] # "done"
  <2>1. CASE LeaveIdle(t)
    BY Zenon, <1>0, <2>1 DEF LeaveIdle, Return, Returned
  <2>2. CASE Flush(t)
    BY Zenon, <1>0, <2>2 DEF Flush, Return, Returned
  <2>3. CASE StepFails(t)
    BY Zenon, <2>3 DEF StepFails, Return
  <2>4. CASE FlushFails(t)
    BY Zenon, <2>4 DEF FlushFails, Return
  <2>. QED BY Zenon, <2>1, <2>2, <2>3, <2>4, Frame DEF ListenFrame
<1>6. CASE stored' = stored /\ ~Done(t) /\ ~WriteFails(t) /\ ~StoreBlock(t)
  BY Zenon, <1>0, <1>6, PendingStays DEF CallFrame
<1>. QED BY Zenon, <1>1, <1>2, <1>3, <1>4, <1>5, <1>6

LEMMA AnnouncedStep ==
    ASSUME TypeOK, AnnouncedInv, NEW t \in Thread, Proceed(t)
    PROVE  AnnouncedInv'
<1>. DEFINE b == job[t].blk
<1>0. b \in Block /\ announced \in [Block -> Nat] /\ fatal \in {"no", "yes"}
  BY Zenon, JobFacts DEF TypeOK
<1>1. CASE StoreBlock(t)
  <2>1. /\ fatal' = fatal /\ have' = have \cup {b} /\ b \notin have
        /\ announced' \in {announced, [announced EXCEPT ![b] = announced[b] + 1]}
    BY Zenon, <1>1 DEF StoreBlock, Announce, BodyAccepted
  <2>. QED BY SMTT(30), <1>0, <2>1 DEF AnnouncedInv
<1>2. CASE announced' = announced /\ fatal' \in {fatal, "yes"} /\ have \subseteq have'
  BY Zenon, <1>0, <1>2 DEF AnnouncedInv
<1>3. fatal' \in {fatal, "yes"}
  BY Zenon, Frame DEF ListenFrame, WriteFails, StepFails, FlushFails, FatalError
<1>4. CASE WriteFails(t)
  BY Zenon, <1>4 DEF WriteFails, FatalError, AnnouncedInv
<1>5. have \subseteq have'
  BY Zenon, Frame DEF TreeFrame, StoreBlock, Link
<1>. QED BY Zenon, <1>1, <1>2, <1>3, <1>4, <1>5, Frame DEF ListenFrame

\* process_block returns NewBlock once, and new_pow_valid_block is called once
\* (AcceptBlock returns early on BLOCK_HAVE_DATA, under one hold of cs_main),
\* for any number of threads that submit the block at the same time.
THEOREM StoredOnce == Spec => []NewBlockOnce
<1>1. Init => PendingInv /\ AnnouncedInv
  <2>. SUFFICES ASSUME Init PROVE PendingInv /\ AnnouncedInv
    OBVIOUS
  <2>1. /\ isNew = [t \in Thread |-> "no"]
        /\ announced = [b \in Block |-> 0] /\ stored = [b \in Block |-> 0]
    BY Zenon DEF Init
  <2>. QED BY SMTT(30), <2>1 DEF PendingInv, AnnouncedInv, Pending
<1>2. TypeOK /\ PendingInv /\ AnnouncedInv /\ [Next]_vars => PendingInv' /\ AnnouncedInv'
  <2>. SUFFICES ASSUME TypeOK, PendingInv, AnnouncedInv, [Next]_vars
                PROVE  PendingInv' /\ AnnouncedInv'
    OBVIOUS
  <2>1. CASE UNCHANGED <<job, isNew, stored, have, announced, fatal, pc>>
    BY <2>1, Zenon, PendingStays DEF AnnouncedInv
  <2>2. ASSUME NEW t \in Thread, NEW j \in Jobs, Begin(t, j)
        PROVE  PendingInv' /\ AnnouncedInv'
    <3>0. /\ pc \in [Thread -> Pc] /\ job \in [Thread -> Jobs \cup {NoJob}]
      BY Zenon DEF TypeOK
    <3>1. /\ UNCHANGED <<isNew, stored, have, announced, fatal>> /\ pc[t] = "idle"
          /\ pc' = [pc EXCEPT ![t] = "accept"] /\ job' = [job EXCEPT ![t] = j]
      BY Zenon, <2>2 DEF Begin
    <3>2. isNew[t] = "no" /\ \A u \in Thread \ {t} : pc'[u] = pc[u] /\ job'[u] = job[u]
      BY Zenon, <3>0, <3>1 DEF PendingInv
    <3>3. ~Pending(t)'
      BY Zenon, <3>1, <3>2 DEF Pending
    <3>4. PendingInv'
      BY Zenon, <3>1, <3>2, <3>3, PendingOthers
    <3>. QED BY <3>1, <3>4, Zenon DEF AnnouncedInv
  <2>3. \/ UNCHANGED <<job, isNew, stored, have, announced, fatal, pc>>
        \/ \E t \in Thread, j \in Jobs : Begin(t, j)
        \/ \E t \in Thread : Proceed(t)
    BY Zenon DEF Next, Interrupt, vars
  <2>. QED BY Zenon, <2>1, <2>2, <2>3, PendingStep, AnnouncedStep
<1>3. PendingInv /\ AnnouncedInv => NewBlockOnce
  BY Zenon DEF PendingInv, AnnouncedInv, NewBlockOnce
<1>. QED BY <1>1, <1>2, <1>3, TypeCorrect, PTL DEF Spec

-----------------------------------------------------------------------------
(* Refusals. *)

\* A result and a reason stand only while the caller has not taken them.
ResultInv ==
    \A t \in Thread : res[t] # "none" \/ reason[t] # "valid" => pc[t] = "done"

\* The reasons of AcceptBlockHeader hold: a flag is set on blocks with a bad
\* ancestor only.
LEMMA HeaderReason ==
    ASSUME FlagInv, NEW b \in Block, NEW body, AcceptBlockHeader(b) # "valid"
    PROVE  Because(b, body, AcceptBlockHeader(b))
<1>0. b # Genesis
  BY Zenon DEF AcceptBlockHeader
<1>1. CASE b \in index
  <2>1. b \in failed /\ AcceptBlockHeader(b) = "cached_invalid"
    BY <1>0, <1>1 DEF AcceptBlockHeader
  <2>2. BadAncestor(b)
    BY Zenon, <2>1 DEF FlagInv, FailureFlagsExact
  <2>. QED BY <2>1, <2>2 DEF Because
<1>2. CASE b \notin index /\ Verdict[b] = "pow"
  <2>1. AcceptBlockHeader(b) = "invalid_header"
    BY <1>0, <1>2 DEF AcceptBlockHeader
  <2>. QED BY <1>2, <2>1 DEF Because
<1>3. CASE b \notin index /\ Verdict[b] # "pow" /\ Prev[b] \notin index
  <2>1. AcceptBlockHeader(b) = "missing_prev"
    BY <1>0, <1>3 DEF AcceptBlockHeader
  <2>. QED BY <2>1 DEF Because
<1>4. CASE b \notin index /\ Verdict[b] # "pow" /\ Prev[b] \in index /\ Prev[b] \in failed
  <2>1. AcceptBlockHeader(b) = "invalid_prev"
    BY <1>0, <1>4 DEF AcceptBlockHeader
  <2>2. BadAncestor(Prev[b])
    BY Zenon, <1>4 DEF FlagInv, FailureFlagsExact
  <2>3. Anc[Prev[b]] \subseteq Anc[b]
    BY Zenon, <1>0, TreeFacts
  <2>4. BadAncestor(b)
    BY Zenon, <2>2, <2>3 DEF BadAncestor
  <2>. QED BY <2>1, <2>4 DEF Because
<1>5. CASE b \notin index /\ Verdict[b] # "pow" /\ Prev[b] \in index /\ Prev[b] \notin failed
  <2>1. AcceptBlockHeader(b) = "invalid_header" /\ Verdict[b] = "header"
    BY <1>0, <1>5 DEF AcceptBlockHeader
  <2>. QED BY <2>1 DEF Because
<1>. QED BY <1>1, <1>2, <1>3, <1>4, <1>5

\* ... and so do those of CheckBlock and ContextualCheckBlock.
LEMMA BodyReason ==
    ASSUME NEW j
    PROVE  /\ CheckBlock(j) # "valid" => Because(j.blk, j.body, CheckBlock(j))
           /\ ContextualCheckBlock(j) # "valid" =>
                 Because(j.blk, j.body, ContextualCheckBlock(j))
<1>1. CheckBlock(j) # "valid" => Because(j.blk, j.body, CheckBlock(j))
  BY DEF CheckBlock, Because
<1>2. ContextualCheckBlock(j) # "valid" => Because(j.blk, j.body, ContextualCheckBlock(j))
  BY DEF ContextualCheckBlock, Because
<1>. QED BY <1>1, <1>2

LEMMA ResultStep ==
    ASSUME TypeOK, ResultInv, NEW t \in Thread, Proceed(t)
    PROVE  ResultInv'
<1>1. CallFrame(t) /\ (\A u \in Thread \ {t} : pc'[u] = pc[u])
  BY Zenon, CallFrameStep, PlaceFrame DEF TypeOK, Places
<1>2. CASE Done(t)
  <2>1. res'[t] = "none" /\ reason'[t] = "valid"
    BY Zenon, <1>2 DEF Done, TypeOK
  <2>. QED BY Zenon, <1>1, <2>1 DEF ResultInv, CallFrame
<1>3. CASE ~Done(t)
  BY Zenon, <1>1, <1>3 DEF ResultInv, CallFrame
<1>. QED BY <1>2, <1>3

LEMMA RefusalStep ==
    ASSUME TypeOK, FlagInv, ResultInv, RefusalsAreTrue, NEW t \in Thread, Proceed(t)
    PROVE  RefusalsAreTrue'
<1>. DEFINE b == job[t].blk
            body == job[t].body
<1>0. /\ CallFrame(t) /\ b \in Block /\ fatal' \in {fatal, "yes"}
      /\ reason \in [Thread -> Reasons]
      /\ heard \in [Thread -> MaybeBlock \X {"none", "valid", "invalid", "error"}]
  <2>1. fatal' \in {fatal, "yes"}
    BY Zenon, Frame DEF ListenFrame, WriteFails, StepFails, FlushFails, FatalError
  <2>. QED BY Zenon, <2>1, CallFrameStep, JobFacts DEF TypeOK
<1>1. ASSUME NEW u \in Thread \ {t} PROVE TrueRefusal(u)'
  <2>1. TrueRefusal(u)
    BY Zenon DEF RefusalsAreTrue
  <2>2. /\ job'[u] = job[u] /\ reason'[u] = reason[u] /\ res'[u] = res[u]
        /\ heard'[u] = heard[u]
    BY Zenon, <1>0 DEF CallFrame
  <2>. QED BY Zenon, <1>0, <2>1, <2>2 DEF TrueRefusal, Because, BadAncestor, Condemning
<1>2. TrueRefusal(t)'
  <2>. DEFINE Told == /\ res'[t] = "Rejected" => heard'[t] = <<job'[t].blk, "invalid">>
                      /\ Because(job'[t].blk, job'[t].body, reason'[t])
  <2>. SUFFICES ASSUME res'[t] \in {"Rejected", "Invalid"}
                PROVE  \/ reason'[t] \in {"valid", "error"} /\ fatal' = "yes"
                       \/ Told
    BY Zenon DEF TrueRefusal, Because, BadAncestor, Condemning
  <2>0. job' = job /\ pc[t] # "done"
    <3>1. ~Done(t)
      <4>. SUFFICES ASSUME Done(t) PROVE res'[t] = "none"
        OBVIOUS
      <4>. QED BY Zenon DEF Done, TypeOK
    <3>. QED BY Zenon, <1>0, <3>1 DEF CallFrame
  <2>1. CASE AcceptHeader(t)
    <3>1. /\ reason' = [reason EXCEPT ![t] = AcceptBlockHeader(b)] /\ job' = job
          /\ AcceptBlockHeader(b) = "valid" => res' = res
          /\ AcceptBlockHeader(b) # "valid" => res' = [res EXCEPT ![t] = "Invalid"]
      BY Zenon, <2>1 DEF AcceptHeader
    <3>2. AcceptBlockHeader(b) # "valid"
      BY <2>0, <3>1 DEF ResultInv
    <3>3. res'[t] = "Invalid" /\ reason'[t] = AcceptBlockHeader(b)
      BY Zenon, <1>0, <3>1, <3>2 DEF TypeOK
    <3>. QED BY <1>0, <2>0, <3>2, <3>3, HeaderReason
  <2>2. ASSUME NEW r, Reject(t, r), r # "error", Because(b, body, r)
        PROVE  Told
    <3>1. /\ reason' = [reason EXCEPT ![t] = r]
          /\ heard' = [heard EXCEPT ![t] = <<b, "invalid">>]
      BY Zenon, <2>2 DEF Reject, BlockChecked
    <3>2. reason'[t] = r /\ heard'[t] = <<b, "invalid">>
      BY Zenon, <1>0, <3>1
    <3>. QED BY <2>0, <2>2, <3>2
  <2>3. CASE RejectUnindexed(t)
    <3>1. CASE CheckBlock(job[t]) # "valid"
      <4>1. Reject(t, CheckBlock(job[t])) /\ CheckBlock(job[t]) # "error"
        BY Zenon, <2>3, <3>1 DEF RejectUnindexed, CheckBlock
      <4>. QED BY <2>2, <3>1, <4>1, BodyReason
    <3>2. CASE CheckBlock(job[t]) = "valid"
      <4>1. /\ Reject(t, AcceptBlockHeader(b)) /\ AcceptBlockHeader(b) # "valid"
            /\ AcceptBlockHeader(b) # "error"
        BY Zenon, <2>3, <3>2 DEF RejectUnindexed, AcceptBlockHeader
      <4>. QED BY <1>0, <2>2, <4>1, HeaderReason
    <3>. QED BY <3>1, <3>2
  <2>4. CASE RejectBody(t)
    <3>1. /\ Reject(t, ContextualCheckBlock(job[t]))
          /\ ContextualCheckBlock(job[t]) \notin {"valid", "error"}
      BY Zenon, <2>4 DEF RejectBody, ContextualCheckBlock
    <3>. QED BY ZenonT(30), <2>2, <3>1, BodyReason
  <2>5. res' # res /\ reason[t] = "valid"
    BY <2>0 DEF ResultInv
  <2>6. CASE fatal' = "yes" /\ (reason' = reason \/ reason'[t] = "error")
    BY Zenon, <2>5, <2>6
  <2>. QED BY Zenon, <1>0, <2>1, <2>3, <2>4, <2>5, <2>6 DEF CallFrame
<1>3. \A u \in Thread : TrueRefusal(u)'
  BY <1>1, <1>2
<1>. QED BY Zenon, <1>3 DEF RefusalsAreTrue

\* A refused call was cut short by a notified fatal error, or its reason is
\* true of the block, the copy or an ancestor and, for process_block, is the
\* last thing block_checked was told: for any threads, trees and faults.
THEOREM Refusals == Spec => []RefusalsAreTrue
<1>1. Init => ResultInv /\ RefusalsAreTrue
  <2>. SUFFICES ASSUME Init PROVE ResultInv /\ RefusalsAreTrue
    OBVIOUS
  <2>1. \A t \in Thread : res[t] = "none" /\ reason[t] = "valid"
    BY Zenon DEF Init
  <2>. QED BY <2>1, Zenon DEF ResultInv, RefusalsAreTrue, TrueRefusal
<1>2. IInv /\ ResultInv /\ RefusalsAreTrue /\ [Next]_vars => ResultInv' /\ RefusalsAreTrue'
  <2>. SUFFICES ASSUME IInv, ResultInv, RefusalsAreTrue, [Next]_vars
                PROVE  ResultInv' /\ RefusalsAreTrue'
    OBVIOUS
  <2>0. TypeOK /\ FlagInv
    BY Zenon DEF IInv
  <2>1. CASE UNCHANGED <<job, res, reason, heard, fatal, pc>>
    BY <2>1, Zenon DEF ResultInv, RefusalsAreTrue, TrueRefusal, Because, BadAncestor,
       Condemning
  <2>2. ASSUME NEW t \in Thread, NEW j \in Jobs, Begin(t, j)
        PROVE  ResultInv' /\ RefusalsAreTrue'
    <3>1. /\ UNCHANGED <<res, reason, heard, fatal>> /\ pc[t] = "idle"
          /\ pc' = [pc EXCEPT ![t] = "accept"] /\ job' = [job EXCEPT ![t] = j]
      BY Zenon, <2>2 DEF Begin
    <3>2. res[t] = "none" /\ reason[t] = "valid"
      BY <3>1 DEF ResultInv
    <3>3. \A u \in Thread \ {t} : pc'[u] = pc[u] /\ job'[u] = job[u]
      BY Zenon, <2>0, <3>1 DEF TypeOK
    <3>4. ResultInv'
      BY Zenon, <3>1, <3>2, <3>3 DEF ResultInv
    <3>5. \A u \in Thread : TrueRefusal(u)'
      <4>1. TrueRefusal(t)'
        BY Zenon, <3>1, <3>2 DEF TrueRefusal
      <4>2. ASSUME NEW u \in Thread \ {t} PROVE TrueRefusal(u)'
        <5>1. TrueRefusal(u)
          BY Zenon DEF RefusalsAreTrue
        <5>. QED BY Zenon, <3>1, <3>3, <5>1 DEF TrueRefusal, Because, BadAncestor, Condemning
      <4>. QED BY Zenon, <4>1, <4>2
    <3>. QED BY Zenon, <3>4, <3>5 DEF RefusalsAreTrue
  <2>3. \/ UNCHANGED <<job, res, reason, heard, fatal, pc>>
        \/ \E t \in Thread, j \in Jobs : Begin(t, j)
        \/ \E t \in Thread : Proceed(t)
    BY Zenon DEF Next, Interrupt, vars
  <2>. QED BY Zenon, <2>0, <2>1, <2>2, <2>3, ResultStep, RefusalStep
<1>. QED BY <1>1, <1>2, Inductive, PTL DEF Spec

-----------------------------------------------------------------------------
(* Heights. *)

\* The least-number principle.
LEMMA Least ==
    ASSUME NEW T \in SUBSET Nat, T # {}
    PROVE  \E x \in T : \A y \in T : x <= y
<1>. DEFINE R == OpToRel(<, Nat)
<1>1. PICK x \in T : \A y \in T : ~(<<y, x>> \in R)
  <2>1. IsWellFoundedOn(R, Nat)
    BY Zenon, NatLessThanWellFounded
  <2>. HIDE DEF R
  <2>. QED BY Zenon, <2>1, WFMin
<1>2. \A i, j \in Nat : i < j => <<i, j>> \in R
  BY Zenon DEF R, OpToRel
<1>. HIDE DEF R
<1>3. \A y \in T : ~(y < x)
  BY ZenonT(30), <1>1, <1>2
<1>. QED BY SMTT(30), <1>3

\* A set of blocks has one of least work.
LEMMA LeastWork ==
    ASSUME NEW S \in SUBSET Block, S # {}
    PROVE  \E x \in S : \A y \in S : Work[x] <= Work[y]
<1>. DEFINE T == {Work[x] : x \in S}
<1>1. \A x \in S : Work[x] \in Nat
  BY TreeConstants DEF TreeConstants
<1>2. T \in SUBSET Nat /\ T # {}
  BY Zenon, <1>1
<1>3. \A x \in S : Work[x] \in T
  BY Zenon
<1>4. \A n \in T : \E x \in S : n = Work[x]
  BY Zenon
<1>. HIDE DEF T
<1>5. PICK n \in T : \A m \in T : n <= m
  BY Zenon, <1>2, Least
<1>. QED BY Zenon, <1>3, <1>4, <1>5

\* Induction along the block tree: the least block outside of S, by work,
\* would have its parent in S.
LEMMA TreeInduction ==
    ASSUME NEW S \in SUBSET Block, Genesis \in S,
           \A b \in Block \ {Genesis} : Prev[b] \in S => b \in S
    PROVE  S = Block
<1>. SUFFICES ASSUME Block \ S # {} PROVE FALSE
  OBVIOUS
<1>1. Work \in [Block -> Nat]
  BY Zenon, TreeConstants DEF TreeConstants
<1>4. PICK b \in Block \ S : \A x \in Block \ S : Work[b] <= Work[x]
  <2>1. Block \ S \in SUBSET Block
    OBVIOUS
  <2>. QED BY Zenon, <2>1, LeastWork
<1>5. b # Genesis
  OBVIOUS
<1>6. Prev[b] \in Block /\ Work[Prev[b]] < Work[b]
  BY Zenon, <1>5, ParentWork
<1>7. Prev[b] \notin S
  BY Zenon, <1>5
<1>8. Work[b] <= Work[Prev[b]]
  BY Zenon, <1>4, <1>6, <1>7
<1>9. Work[b] \in Nat /\ Work[Prev[b]] \in Nat
  BY <1>1, <1>6
<1>. QED BY SMTT(30), <1>6, <1>8, <1>9

\* A block has finitely many ancestors.
LEMMA FiniteAncestors == \A b \in Block : IsFiniteSet(Anc[b])
<1>. DEFINE S == {b \in Block : IsFiniteSet(Anc[b])}
<1>1. Genesis \in S
  BY SMTT(30), TreeFacts, FS_Singleton
<1>2. ASSUME NEW b \in Block \ {Genesis}, Prev[b] \in S PROVE b \in S
  <2>1. Anc[b] = Anc[Prev[b]] \cup {b}
    BY SMTT(30), TreeFacts
  <2>2. IsFiniteSet(Anc[Prev[b]])
    BY <1>2
  <2>3. IsFiniteSet(Anc[Prev[b]] \cup {b})
    BY <2>2, FS_AddElement, Zenon
  <2>. QED BY <2>1, <2>3
<1>. HIDE DEF S
<1>3. S = Block
  <2>1. S \in SUBSET Block
    BY DEF S
  <2>. QED BY <1>1, <1>2, <2>1, TreeInduction
<1>. QED BY <1>3 DEF S

\* nHeight grows by one from parent to child, and an ancestor is lower.
LEMMA HeightFacts ==
    /\ \A b \in Block : Height(b) \in Nat
    /\ \A b \in Block \ {Genesis} : Height(b) = Height(Prev[b]) + 1
    /\ \A b \in Block : \A a \in Anc[b] : Height(a) <= Height(b)
    /\ Height(Genesis) = 0
<1>1. \A b \in Block : Cardinality(Anc[b]) \in Nat
  BY FiniteAncestors, FS_CardinalityType
<1>2. \A b \in Block : \A a \in Anc[b] : Cardinality(Anc[a]) <= Cardinality(Anc[b])
  <2>. SUFFICES ASSUME NEW b \in Block, NEW a \in Anc[b]
                PROVE  Cardinality(Anc[a]) <= Cardinality(Anc[b])
    OBVIOUS
  <2>1. Anc[a] \in SUBSET Anc[b] /\ IsFiniteSet(Anc[b])
    BY TreeFacts, FiniteAncestors
  <2>. QED BY <2>1, FS_Subset
<1>3. Cardinality(Anc[Genesis]) = 1
  BY ZenonT(30), TreeFacts, FS_Singleton
<1>4. \A b \in Block : Cardinality(Anc[b]) >= 1
  <2>. SUFFICES ASSUME NEW b \in Block PROVE Cardinality(Anc[b]) >= 1
    OBVIOUS
  <2>1. Genesis \in Anc[b] /\ Genesis \in Block
    BY TreeFacts
  <2>. QED BY <1>1, <1>2, <1>3, <2>1
<1>5. ASSUME NEW b \in Block \ {Genesis}
      PROVE  Cardinality(Anc[b]) = Cardinality(Anc[Prev[b]]) + 1
  <2>1. Anc[b] = Anc[Prev[b]] \cup {b} /\ Prev[b] \in Block
    BY Zenon, TreeFacts
  <2>2. b \notin Anc[Prev[b]]
    <3>1. b # Prev[b] /\ Work[Prev[b]] < Work[b] /\ Work[b] \in Nat /\ Work[Prev[b]] \in Nat
      BY SMTT(30), ParentWork, TreeConstants DEF TreeConstants
    <3>2. \A a \in Anc[Prev[b]] \ {Prev[b]} : Work[a] < Work[Prev[b]]
      BY Zenon, <2>1, TreeConstants DEF TreeConstants
    <3>. QED BY SMTT(30), <3>1, <3>2
  <2>3. IsFiniteSet(Anc[Prev[b]])
    BY <2>1, FiniteAncestors
  <2>. QED BY <2>1, <2>2, <2>3, FS_AddElement
<1>6. \A b \in Block : \A a \in Anc[b] : a \in Block
  BY TreeFacts
<1>7. \A b \in Block \ {Genesis} : Prev[b] \in Block
  BY TreeFacts
<1>8. \A b \in Block : Height(b) \in Nat /\ Height(b) = Cardinality(Anc[b]) - 1
  BY SMTT(30), <1>1, <1>4 DEF Height
<1>9. \A b \in Block \ {Genesis} : Height(b) = Height(Prev[b]) + 1
  <2>. SUFFICES ASSUME NEW b \in Block \ {Genesis} PROVE Height(b) = Height(Prev[b]) + 1
    OBVIOUS
  <2>1. Prev[b] \in Block
    BY <1>7
  <2>. QED BY SMTT(30), <1>1, <1>5, <2>1 DEF Height
<1>10. ASSUME NEW b \in Block, NEW a \in Anc[b] PROVE Height(a) <= Height(b)
  <2>1. a \in Block /\ Cardinality(Anc[a]) <= Cardinality(Anc[b])
    BY <1>2, <1>6
  <2>. QED BY SMTT(30), <1>1, <2>1 DEF Height
<1>11. Height(Genesis) = 0
  BY SMTT(30), <1>3 DEF Height
<1>. QED BY Zenon, <1>8, <1>9, <1>10, <1>11

\* A chain has one block at each height.
LEMMA OneAtHeight ==
    ASSUME NEW x \in Block
    PROVE  /\ \A h \in 0 .. Height(x) : \E b \in Anc[x] : Height(b) = h
           /\ \A b, c \in Anc[x] : Height(b) = Height(c) => b = c
<1>. USE HeightFacts
<1>. DEFINE Some(y) == \A h \in 0 .. Height(y) : \E b \in Anc[y] : Height(b) = h
            Only(y) == \A b, c \in Anc[y] : Height(b) = Height(c) => b = c
            S == {y \in Block : Some(y) /\ Only(y)}
<1>1. Genesis \in S
  BY SMTT(30), TreeFacts
<1>2. ASSUME NEW y \in Block \ {Genesis}, Prev[y] \in S PROVE y \in S
  <2>0. /\ Anc[y] = {y} \cup Anc[Prev[y]] /\ Prev[y] \in Block /\ y \in Anc[y]
        /\ Height(y) = Height(Prev[y]) + 1 /\ Height(Prev[y]) \in Nat
        /\ Some(Prev[y]) /\ Only(Prev[y])
    BY <1>2, TreeFacts
  <2>1. Some(y)
    <3>. SUFFICES ASSUME NEW h \in 0 .. Height(y) PROVE \E b \in Anc[y] : Height(b) = h
      OBVIOUS
    <3>1. h = Height(y) \/ h \in 0 .. Height(Prev[y])
      BY SMTT(30), <2>0
    <3>. QED BY <2>0, <3>1
  <2>2. \A b \in Anc[Prev[y]] : Height(b) # Height(y)
    <3>. SUFFICES ASSUME NEW b \in Anc[Prev[y]] PROVE Height(b) # Height(y)
      OBVIOUS
    <3>1. Height(b) <= Height(Prev[y]) /\ b \in Block
      BY <2>0, TreeFacts
    <3>2. Height(b) \in Nat
      BY <3>1
    <3>. QED BY SMTT(30), <2>0, <3>1, <3>2
  <2>3. Only(y)
    BY <2>0, <2>2
  <2>. QED BY <2>1, <2>3
<1>3. S \in SUBSET Block
  OBVIOUS
<1>. HIDE DEF S
<1>4. S = Block
  BY <1>1, <1>2, <1>3, TreeInduction
<1>. QED BY <1>4 DEF S

\* What CChain::operator[] returns.
LEMMA AtFacts ==
    ASSUME NEW x \in Block
    PROVE  /\ \A h : At(x, h) \in Anc[x] \cup {NoBlock}
           /\ \A h \in Nat : h > Height(x) => At(x, h) = NoBlock
           /\ \A b \in Anc[x] : At(x, Height(b)) = b
<1>1. \A h : At(x, h) \in Anc[x] \cup {NoBlock}
  <2>. SUFFICES ASSUME NEW h, h \in 0 .. Height(x) PROVE At(x, h) \in Anc[x]
    BY Zenon DEF At
  <2>1. \E b \in Anc[x] : Height(b) = h
    BY Zenon, OneAtHeight
  <2>2. At(x, h) = CHOOSE b \in Anc[x] : Height(b) = h
    BY Zenon DEF At
  <2>. QED BY Zenon, <2>1, <2>2
<1>2. \A h \in Nat : h > Height(x) => At(x, h) = NoBlock
  <2>. SUFFICES ASSUME NEW h \in Nat, h > Height(x) PROVE At(x, h) = NoBlock
    OBVIOUS
  <2>1. h \notin 0 .. Height(x)
    BY SMTT(30), HeightFacts
  <2>. QED BY Zenon, <2>1 DEF At
<1>3. ASSUME NEW b \in Anc[x] PROVE At(x, Height(b)) = b
  <2>0. b \in Block
    BY TreeFacts
  <2>1. Height(b) \in 0 .. Height(x)
    BY SMTT(30), <2>0, HeightFacts
  <2>2. At(x, Height(b)) = CHOOSE c \in Anc[x] : Height(c) = Height(b)
    BY Zenon, <2>1 DEF At
  <2>3. \A c \in Anc[x] : Height(c) = Height(b) => c = b
    BY Zenon, OneAtHeight
  <2>. QED BY Zenon, <2>2, <2>3
<1>. QED BY <1>1, <1>2, <1>3
-----------------------------------------------------------------------------
(* What the writers do to the readers. *)

\* The undo data of the active chain is on disk.
UndoInv == Anc[tip] \ {Genesis} \subseteq undo

LEMMA UndoStep ==
    ASSUME IInv, UndoInv, NEW t \in Thread, Proceed(t)
    PROVE  UndoInv' /\ undo \subseteq undo'
<1>1. undo \subseteq undo'
  BY ZenonT(30), Frame DEF TreeFrame, ConnectTip, StepFails
<1>2. CASE DisconnectTip(t)
  <2>1. tip' = Prev[tip] /\ tip \in Block /\ tip # Genesis
    BY ZenonT(30), <1>2, Disconnected DEF DisconnectTip, SetTip, IInv
  <2>2. Anc[tip'] \subseteq Anc[tip]
    BY Zenon, <2>1, TreeFacts
  <2>. QED BY Zenon, <1>1, <2>2 DEF UndoInv
<1>3. CASE ConnectTip(t)
  <2>1. PICK b \in Block : /\ b # Genesis /\ Prev[b] = tip /\ tip' = b
                           /\ undo' = undo \cup {b}
    BY Zenon, <1>3 DEF ConnectTip, SetTip, Successor
  <2>2. Anc[b] = {b} \cup Anc[tip]
    BY ZenonT(30), <2>1, TreeFacts
  <2>. QED BY ZenonT(30), <2>1, <2>2 DEF UndoInv
<1>4. CASE tip' = tip
  BY ZenonT(30), <1>1, <1>4 DEF UndoInv
<1>. QED BY ZenonT(30), <1>1, <1>2, <1>3, <1>4, Frame DEF ChainFrame

LEMMA UndoInvariant == Spec => []UndoInv
<1>1. Init => UndoInv
  BY TreeFacts DEF Init, UndoInv
<1>2. IInv /\ UndoInv /\ [Next]_vars => UndoInv'
  <2>. SUFFICES ASSUME IInv, UndoInv, [Next]_vars PROVE UndoInv'
    OBVIOUS
  <2>1. UNCHANGED <<tip, undo>> \/ \E t \in Thread : Proceed(t)
    BY Zenon DEF Next, Interrupt, Begin, vars
  <2>. QED BY Zenon, <2>1, UndoStep DEF UndoInv
<1>. QED BY <1>1, <1>2, Inductive, PTL DEF Spec

\* What a writer's step leaves to the readers: data stays, and the visible tip
\* loses no work without a fatal error.
LEMMA WriterKeeps ==
    ASSUME IInv, VisibleInv, UndoInv, [Next]_vars
    PROVE  /\ have \subseteq have' /\ undo \subseteq undo'
           /\ fatal' = "no" => fatal = "no" /\ Work[shown] <= Work[shown']
<1>0. /\ fatal \in {"no", "yes"} /\ shown \in Block /\ tip \in Block
      /\ seq \in [Block -> Nat] /\ Work \in [Block -> Nat]
  BY ZenonT(30), TipsUsable, TreeConstants DEF IInv, TypeOK, TreeConstants
<1>1. CASE UNCHANGED <<have, undo, fatal, shown>>
  BY SMTT(30), <1>0, <1>1
<1>2. ASSUME NEW t \in Thread, Proceed(t)
      PROVE  /\ have \subseteq have' /\ undo \subseteq undo'
             /\ fatal' = "no" => fatal = "no" /\ Work[shown] <= Work[shown']
  <2>1. have \subseteq have' /\ undo \subseteq undo'
    <3>1. have \subseteq have'
      BY Zenon, <1>2, Frame DEF TreeFrame, StoreBlock, Link
    <3>. QED BY Zenon, <1>2, <3>1, UndoStep
  <2>2. ASSUME Ending(t), fatal' = "no" PROVE fatal = "no" /\ Work[shown] <= Work[shown']
    <3>1. shown' = tip /\ fatal = "no" /\ ~Worse(tip, shown)
      BY <2>2, EndingStep DEF Better
    <3>2. ~(Work[tip] < Work[shown])
      BY Zenon, <1>0, <3>1, WorseOrder
    <3>3. Work[tip] \in Nat /\ Work[shown] \in Nat
      BY <1>0
    <3>. QED BY SMTT(30), <3>1, <3>2, <3>3
  <2>3. ASSUME ~Ending(t), fatal' = "no" PROVE fatal = "no" /\ shown' = shown
    BY <1>2, <2>3, Moves
  <2>4. Work[shown] \in Nat
    BY <1>0
  <2>. QED BY SMTT(30), <2>1, <2>2, <2>3, <2>4
<1>3. UNCHANGED <<have, undo, fatal, shown>> \/ \E t \in Thread : Proceed(t)
  BY Zenon DEF Next, Interrupt, Begin, vars
<1>. QED BY Zenon, <1>1, <1>2, <1>3

-----------------------------------------------------------------------------
(* The calls of the readers. *)

\* A call of two parts: the tip now visible is among those seen, so is one of
\* the height read, and none seen has more work.
OpenOf(r) ==
    rpc[r] \in {"begun", "height"} =>
        /\ rop[r] \in {"tip", "at_height", "next"} /\ arg[r] \in Nat /\ shown \in seen[r]
        /\ rpc[r] = "height" => \E x \in seen[r] : ht[r] = Height(x)
        /\ fatal = "no" => \A x \in seen[r] : Work[x] <= Work[shown]

\* A call that has its result.
DoneOf(r) ==
    rpc[r] = "done" =>
        /\ rop[r] \in {"at_height", "next"} => \E x \in seen[r] : out[r] = At(x, arg[r])
        /\ /\ rop[r] = "tip" /\ fatal = "no"
           /\ \A x, y \in seen[r] : x \in Anc[y] \/ y \in Anc[x]
           => out[r] \in seen[r]
        /\ rop[r] = "read" => out[r] = arg[r]

EntryOf(r) == entry[r] # NoBlock => entry[r] \in have /\ HaveUndo(entry[r])

ReadInv == \A r \in Reader : OpenOf(r) /\ DoneOf(r) /\ EntryOf(r)

\* A reader's step changes its own call only.
ReaderFrame(r) ==
    \A u \in Reader \ {r} :
        /\ rpc'[u] = rpc[u] /\ rop'[u] = rop[u] /\ arg'[u] = arg[u] /\ ht'[u] = ht[u]
        /\ out'[u] = out[u] /\ entry'[u] = entry[u] /\ seen'[u] = seen[u]

LEMMA ReaderFrameStep ==
    ASSUME ReaderType, NEW r \in Reader, ReaderStep(r)
    PROVE  ReaderFrame(r)
<1>. USE DEF ReaderFrame, ReaderType
<1>1. CASE CallTip(r) \/ CallAtHeight(r) \/ CallNext(r)
  BY ZenonT(30), <1>1 DEF CallTip, CallAtHeight, CallNext, Call
<1>2. CASE GetHeight(r)
  BY ZenonT(30), <1>2 DEF GetHeight
<1>3. CASE GetTip(r)
  BY ZenonT(30), <1>3 DEF GetTip, Finish
<1>4. CASE TooHigh(r)
  BY Zenon, <1>4 DEF TooHigh, Finish
<1>5. CASE GetAtHeight(r)
  BY Zenon, <1>5 DEF GetAtHeight, Finish
<1>6. CASE Lookup(r)
  BY Zenon, <1>6 DEF Lookup, Single
<1>7. CASE Read(r)
  BY Zenon, <1>7 DEF Read, Single
<1>8. CASE Returns(r)
  BY Zenon, <1>8 DEF Returns
<1>. QED BY Zenon, <1>1, <1>2, <1>3, <1>4, <1>5, <1>6, <1>7, <1>8 DEF ReaderStep

\* While cs_main is free the tip is the one shown, and its chain can be read.
LEMMA TipRead ==
    ASSUME IInv, VisibleInv, UndoInv, csMain = NoThread
    PROVE  /\ tip = shown /\ tip \in Block
           /\ \A b \in Anc[tip] : b \in have /\ HaveUndo(b)
<1>1. tip \in Block
  BY TipsUsable
<1>2. tip = shown
  <2>1. LockInv /\ NoThread \notin Thread
    BY TreeFacts DEF IInv
  <2>2. \A u \in Thread : pc[u] \notin InStep
    BY <2>1, Zenon DEF LockInv, InStep
  <2>. QED BY <2>2, Zenon DEF VisibleInv, RestInv
<1>. QED BY Zenon, <1>1, <1>2 DEF IInv, TipInv, UndoInv, HaveUndo

\* A step of a reader keeps what is said of the reader.
LEMMA ReaderKeeps ==
    ASSUME IInv, VisibleInv, UndoInv, ReaderType, ReadInv, NEW r \in Reader, ReaderStep(r)
    PROVE  OpenOf(r)' /\ DoneOf(r)' /\ EntryOf(r)'
<1>0. /\ UNCHANGED <<shown, fatal, have, undo>> /\ OpenOf(r) /\ DoneOf(r) /\ EntryOf(r)
      /\ rpc \in [Reader -> {"idle", "begun", "height", "done"}]
      /\ rop \in [Reader -> {"tip", "at_height", "next", "lookup", "read"}]
      /\ arg \in [Reader -> Nat \cup Block \cup {Unknown}] /\ ht \in [Reader -> Nat]
      /\ out \in [Reader -> MaybeBlock] /\ entry \in [Reader -> MaybeBlock]
      /\ cursor \in [Reader -> Nat] /\ seen \in [Reader -> SUBSET Block]
      /\ shown \in Block
  <2>1. UNCHANGED vars
    BY ZenonT(30) DEF ReaderStep
  <2>. QED BY ZenonT(30), <2>1, TipsUsable DEF vars, ReadInv, ReaderType
<1>1. ASSUME NEW op \in {"tip", "at_height", "next"}, NEW x \in Nat, Call(r, op, x)
      PROVE  OpenOf(r)' /\ DoneOf(r)' /\ EntryOf(r)'
  <2>1. /\ rpc'[r] = "begun" /\ rop'[r] = op /\ arg'[r] = x /\ seen'[r] = {shown}
        /\ entry' = entry
    BY Zenon, <1>0, <1>1 DEF Call
  <2>2. Work[shown] <= Work[shown] /\ shown' = shown /\ rpc'[r] # "height"
    <3>1. Work[shown] \in Nat
      BY ZenonT(30), <1>0, TreeConstants DEF TreeConstants
    <3>. QED BY SMTT(30), <1>0, <2>1, <3>1
  <2>3. OpenOf(r)'
    BY ZenonT(30), <2>1, <2>2 DEF OpenOf
  <2>4. DoneOf(r)' /\ EntryOf(r)'
    BY ZenonT(30), <1>0, <2>1 DEF DoneOf, EntryOf, HaveUndo
  <2>. QED BY <2>3, <2>4
<1>2. CASE CallTip(r) \/ CallAtHeight(r) \/ CallNext(r)
  <2>1. CASE CallTip(r)
    BY <1>1, <2>1 DEF CallTip
  <2>2. CASE CallAtHeight(r)
    <3>1. PICK h \in 0 .. MaxHeight : Call(r, "at_height", h)
      BY Zenon, <2>2 DEF CallAtHeight
    <3>2. h \in Nat
      BY SMTT(30), ReaderConstants DEF ReaderConstants
    <3>. QED BY <1>1, <3>1, <3>2
  <2>3. CASE CallNext(r)
    <3>1. Call(r, "next", cursor[r]) /\ cursor[r] \in Nat
      BY Zenon, <1>0, <2>3 DEF CallNext
    <3>. QED BY <1>1, <3>1
  <2>. QED BY <1>2, <2>1, <2>2, <2>3
<1>3. CASE GetHeight(r)
  <2>1. /\ rpc[r] = "begun" /\ csMain = NoThread /\ ht' = [ht EXCEPT ![r] = Height(tip)]
        /\ rpc' = [rpc EXCEPT ![r] = "height"] /\ UNCHANGED <<rop, arg, out, entry, seen>>
    BY Zenon, <1>3 DEF GetHeight, ChainHeight
  <2>2. rpc'[r] = "height" /\ ht'[r] = Height(shown)
    BY Zenon, <1>0, <2>1, TipRead
  <2>3. OpenOf(r)'
    BY Zenon, <1>0, <2>1, <2>2 DEF OpenOf
  <2>4. DoneOf(r)' /\ EntryOf(r)'
    BY Zenon, <1>0, <2>1, <2>2 DEF DoneOf, EntryOf, HaveUndo
  <2>. QED BY <2>3, <2>4
<1>4. CASE GetTip(r)
  <2>1. /\ rpc[r] = "height" /\ rop[r] = "tip" /\ csMain = NoThread
        /\ UNCHANGED <<rop, arg, seen>> /\ out' = [out EXCEPT ![r] = At(tip, ht[r])]
        /\ rpc' = [rpc EXCEPT ![r] = "done"] /\ entry' = [entry EXCEPT ![r] = At(tip, ht[r])]
    BY ZenonT(30), <1>4 DEF GetTip, Finish
  <2>2. rpc'[r] = "done" /\ out'[r] = At(tip, ht[r]) /\ entry'[r] = At(tip, ht[r])
    BY ZenonT(30), <1>0, <2>1
  <2>3. EntryOf(r)'
    BY ZenonT(30), <1>0, <2>1, <2>2, TipRead, AtFacts DEF EntryOf, HaveUndo
  <2>4. OpenOf(r)'
    BY ZenonT(30), <2>2 DEF OpenOf
  <2>5. ASSUME fatal = "no", \A x, y \in seen[r] : x \in Anc[y] \/ y \in Anc[x]
        PROVE  out'[r] \in seen[r]
    <3>1. PICK x \in seen[r] : ht[r] = Height(x)
      BY ZenonT(30), <1>0, <2>1 DEF OpenOf
    <3>2. /\ x \in Block /\ tip \in Block /\ tip = shown /\ tip \in seen[r]
          /\ Work[x] <= Work[tip]
      BY ZenonT(30), <1>0, <2>1, <2>5, <3>1, TipRead DEF OpenOf
    <3>3. x \in Anc[tip]
      <4>1. CASE tip \in Anc[x] \ {x}
        <5>1. Work[tip] < Work[x]
          BY ZenonT(30), <3>2, <4>1, TreeConstants DEF TreeConstants
        <5>2. Work[tip] \in Nat /\ Work[x] \in Nat
          BY <3>2, TreeConstants DEF TreeConstants
        <5>. QED BY SMTT(30), <3>2, <5>1, <5>2
      <4>2. CASE tip = x
        BY ZenonT(30), <3>2, <4>2, TreeFacts
      <4>. QED BY ZenonT(30), <2>5, <3>1, <3>2, <4>1, <4>2
    <3>4. At(tip, ht[r]) = x
      BY ZenonT(30), <3>1, <3>2, <3>3, AtFacts
    <3>. QED BY ZenonT(30), <2>2, <3>4
  <2>6. DoneOf(r)'
    BY ZenonT(30), <1>0, <2>1, <2>2, <2>5 DEF DoneOf
  <2>. QED BY <2>3, <2>4, <2>6
<1>5. CASE TooHigh(r)
  <2>1. /\ rpc[r] = "height" /\ rop[r] # "tip" /\ arg[r] > ht[r]
        /\ UNCHANGED <<rop, arg, seen, entry>> /\ out' = [out EXCEPT ![r] = NoBlock]
        /\ rpc' = [rpc EXCEPT ![r] = "done"]
    BY Zenon, <1>5 DEF TooHigh, Finish
  <2>2. rpc'[r] = "done" /\ out'[r] = NoBlock
    BY Zenon, <1>0, <2>1
  <2>3. PICK x \in seen[r] : ht[r] = Height(x)
    BY ZenonT(30), <1>0, <2>1 DEF OpenOf
  <2>4. arg[r] \in Nat /\ rop[r] \in {"at_height", "next"}
    BY ZenonT(30), <1>0, <2>1 DEF OpenOf
  <2>5. x \in Block
    BY ZenonT(30), <1>0
  <2>6. At(x, arg[r]) = NoBlock
    BY ZenonT(30), <2>1, <2>3, <2>4, <2>5, AtFacts
  <2>7. DoneOf(r)'
    BY ZenonT(30), <2>1, <2>2, <2>4, <2>6 DEF DoneOf
  <2>8. OpenOf(r)' /\ EntryOf(r)'
    BY ZenonT(30), <1>0, <2>1, <2>2 DEF OpenOf, EntryOf, HaveUndo
  <2>. QED BY <2>7, <2>8
<1>6. CASE GetAtHeight(r)
  <2>1. /\ rpc[r] = "height" /\ rop[r] # "tip" /\ csMain = NoThread
        /\ UNCHANGED <<rop, arg, seen>> /\ out' = [out EXCEPT ![r] = At(tip, arg[r])]
        /\ rpc' = [rpc EXCEPT ![r] = "done"] /\ entry' = [entry EXCEPT ![r] = At(tip, arg[r])]
    BY Zenon, <1>6 DEF GetAtHeight, Finish, EntryAt
  <2>2. rpc'[r] = "done" /\ out'[r] = At(tip, arg[r]) /\ entry'[r] = At(tip, arg[r])
    BY Zenon, <1>0, <2>1
  <2>3. EntryOf(r)'
    BY Zenon, <1>0, <2>1, <2>2, TipRead, AtFacts DEF EntryOf, HaveUndo
  <2>4. tip \in seen[r] /\ rop[r] \in {"at_height", "next"}
    BY Zenon, <1>0, <2>1, TipRead DEF OpenOf
  <2>5. DoneOf(r)'
    BY Zenon, <2>1, <2>2, <2>4 DEF DoneOf
  <2>6. OpenOf(r)'
    BY Zenon, <2>2 DEF OpenOf
  <2>. QED BY <2>3, <2>5, <2>6
<1>7. CASE Lookup(r)
  <2>1. rpc'[r] = "done" /\ rop'[r] = "lookup" /\ entry' = entry
    BY Zenon, <1>0, <1>7 DEF Lookup, Single
  <2>. QED BY Zenon, <1>0, <2>1 DEF OpenOf, DoneOf, EntryOf, HaveUndo
<1>8. CASE Read(r)
  <2>1. /\ rpc'[r] = "done" /\ rop'[r] = "read" /\ entry' = entry /\ arg'[r] = entry[r]
        /\ entry[r] # NoBlock
        /\ out'[r] = IF entry[r] \in have /\ HaveUndo(entry[r]) THEN entry[r] ELSE NoBlock
    BY Zenon, <1>0, <1>8 DEF Read, Single
  <2>2. out'[r] = arg'[r]
    BY Zenon, <1>0, <2>1 DEF EntryOf
  <2>. QED BY Zenon, <1>0, <2>1, <2>2 DEF OpenOf, DoneOf, EntryOf, HaveUndo
<1>9. CASE Returns(r)
  <2>1. rpc'[r] = "idle" /\ entry' = entry
    BY Zenon, <1>0, <1>9 DEF Returns
  <2>. QED BY Zenon, <1>0, <2>1 DEF OpenOf, DoneOf, EntryOf, HaveUndo
<1>. QED BY Zenon, <1>2, <1>3, <1>4, <1>5, <1>6, <1>7, <1>8, <1>9 DEF ReaderStep
\* A step of a writer keeps what is said of every reader: the tip it shows
\* has no less work, unless the error was fatal, and no data goes.
LEMMA WriterKeepsReads ==
    ASSUME IInv, IInv', VisibleInv, VisibleInv', UndoInv, ReaderType, ReadInv, WriterStep,
           NEW r \in Reader
    PROVE  OpenOf(r)' /\ DoneOf(r)' /\ EntryOf(r)'
<1>1. /\ rpc' = rpc /\ rop' = rop /\ arg' = arg /\ ht' = ht /\ out' = out /\ entry' = entry
      /\ rpc[r] # "idle" => seen'[r] = seen[r] \cup {shown'}
      /\ seen[r] \subseteq Block /\ OpenOf(r) /\ DoneOf(r) /\ EntryOf(r)
  BY Zenon DEF WriterStep, ReaderType, ReadInv
<1>2. /\ have \subseteq have' /\ undo \subseteq undo'
      /\ fatal' = "no" => fatal = "no" /\ Work[shown] <= Work[shown']
  BY Zenon, WriterKeeps DEF WriterStep
<1>3. shown \in Block /\ shown' \in Block
  BY Zenon, TipsUsable DEF IInv, TypeOK
<1>4. EntryOf(r)'
  BY Zenon, <1>1, <1>2 DEF EntryOf, HaveUndo
<1>5. DoneOf(r)'
  BY Zenon, <1>1, <1>2 DEF DoneOf
<1>6. ASSUME rpc[r] \in {"begun", "height"} PROVE OpenOf(r)'
  <2>1. /\ rop[r] \in {"tip", "at_height", "next"} /\ arg[r] \in Nat /\ shown \in seen[r]
        /\ rpc[r] = "height" => \E x \in seen[r] : ht[r] = Height(x)
        /\ fatal = "no" => \A x \in seen[r] : Work[x] <= Work[shown]
    BY Zenon, <1>1, <1>6 DEF OpenOf
  <2>2. seen'[r] = seen[r] \cup {shown'}
    BY <1>1, <1>6
  <2>3. ASSUME fatal' = "no", NEW x \in seen'[r] PROVE Work[x] <= Work[shown']
    <3>1. Work[shown] \in Nat /\ Work[shown'] \in Nat /\ Work[shown] <= Work[shown']
      BY <1>2, <1>3, <2>3, TreeConstants DEF TreeConstants
    <3>2. CASE x \in seen[r]
      <4>1. Work[x] <= Work[shown] /\ x \in Block
        BY Zenon, <1>1, <1>2, <2>1, <2>3, <3>2
      <4>2. Work[x] \in Nat
        BY <4>1, TreeConstants DEF TreeConstants
      <4>. QED BY SMTT(30), <3>1, <4>1, <4>2
    <3>3. CASE x = shown'
      BY SMTT(30), <3>1, <3>3
    <3>. QED BY Zenon, <2>2, <2>3, <3>2, <3>3
  <2>4. rpc'[r] = "height" => \E x \in seen'[r] : ht'[r] = Height(x)
    BY Zenon, <1>1, <2>1, <2>2
  <2>. QED BY Zenon, <1>1, <2>1, <2>2, <2>3, <2>4 DEF OpenOf
<1>7. CASE rpc[r] \notin {"begun", "height"}
  BY Zenon, <1>1, <1>4, <1>5, <1>7 DEF OpenOf
<1>. QED BY <1>4, <1>5, <1>6, <1>7

LEMMA ReaderTypeStep ==
    ASSUME IInv, IInv', VisibleInv, VisibleInv', ReaderType, [ReaderNext]_allVars
    PROVE  ReaderType'
<1>0. /\ rpc \in [Reader -> {"idle", "begun", "height", "done"}]
      /\ rop \in [Reader -> {"tip", "at_height", "next", "lookup", "read"}]
      /\ arg \in [Reader -> Nat \cup Block \cup {Unknown}] /\ ht \in [Reader -> Nat]
      /\ out \in [Reader -> MaybeBlock] /\ entry \in [Reader -> MaybeBlock]
      /\ cursor \in [Reader -> Nat] /\ seen \in [Reader -> SUBSET Block]
      /\ shown \in Block /\ shown' \in Block /\ tip \in Block /\ index \subseteq Block
      /\ Height(tip) \in Nat /\ \A h : At(tip, h) \in MaybeBlock
  <2>1. /\ shown \in Block /\ shown' \in Block /\ tip \in Block /\ index \subseteq Block
    BY Zenon, TipsUsable DEF IInv, TypeOK
  <2>2. Height(tip) \in Nat /\ \A h : At(tip, h) \in MaybeBlock
    BY Zenon, <2>1, HeightFacts, AtFacts, TreeFacts
  <2>. QED BY Zenon, <2>1, <2>2 DEF ReaderType
<1>1. CASE UNCHANGED allVars
  BY ZenonT(30), <1>1 DEF allVars, reader, ReaderType
<1>2. CASE WriterStep
  BY <1>0, <1>2 DEF WriterStep, ReaderType
<1>3. ASSUME NEW r \in Reader, ReaderStep(r) PROVE ReaderType'
  <2>1. ASSUME NEW op \in {"tip", "at_height", "next"}, NEW x \in Nat, Call(r, op, x),
               cursor' \in [Reader -> Nat]
        PROVE  ReaderType'
    BY <1>0, <2>1 DEF Call, ReaderType
  <2>2. CASE CallTip(r)
    <3>1. Call(r, "tip", 0) /\ cursor' = cursor
      BY ZenonT(30), <2>2 DEF CallTip
    <3>. QED BY <1>0, <2>1, <3>1
  <2>3. CASE CallAtHeight(r)
    <3>1. PICK h \in 0 .. MaxHeight : Call(r, "at_height", h) /\ cursor' = cursor
      BY Zenon, <2>3 DEF CallAtHeight
    <3>2. h \in Nat
      BY SMTT(30), ReaderConstants DEF ReaderConstants
    <3>. QED BY <1>0, <2>1, <3>1, <3>2
  <2>4. CASE CallNext(r)
    <3>1. Call(r, "next", cursor[r]) /\ cursor' = [cursor EXCEPT ![r] = @ + 1]
      BY Zenon, <2>4 DEF CallNext
    <3>2. cursor[r] \in Nat /\ cursor' \in [Reader -> Nat]
      BY SMTT(30), <1>0, <3>1
    <3>. QED BY <2>1, <3>1, <3>2
  <2>5. CASE GetHeight(r)
    BY <1>0, <2>5 DEF GetHeight, ChainHeight, ReaderType
  <2>6. CASE GetTip(r)
    <3>1. At(tip, ht[r]) \in MaybeBlock
      BY Zenon, <1>0
    <3>. QED BY <1>0, <2>6, <3>1 DEF GetTip, Finish, ReaderType
  <2>7. CASE TooHigh(r)
    BY <1>0, <2>7 DEF TooHigh, Finish, ReaderType
  <2>8. CASE GetAtHeight(r)
    <3>1. At(tip, arg[r]) \in MaybeBlock
      BY Zenon, <1>0
    <3>. QED BY <1>0, <2>8, <3>1 DEF GetAtHeight, Finish, EntryAt, ReaderType
  <2>9. ASSUME NEW op \in {"lookup", "read"}, NEW x \in Block, NEW b \in MaybeBlock,
               Single(r, op, x, b)
        PROVE  ReaderType'
    BY <1>0, <2>9 DEF Single, ReaderType
  <2>10. CASE Lookup(r)
    <3>1. PICK b \in index :
              Single(r, "lookup", b, IF KeyPassed(b) \in index THEN KeyPassed(b) ELSE NoBlock)
      BY Zenon, <2>10 DEF Lookup
    <3>2. (IF KeyPassed(b) \in index THEN KeyPassed(b) ELSE NoBlock) \in MaybeBlock
      BY Zenon, <1>0
    <3>. QED BY <1>0, <2>9, <3>1, <3>2
  <2>11. CASE Read(r)
    <3>1. /\ entry[r] # NoBlock
          /\ Single(r, "read", entry[r],
                    IF entry[r] \in have /\ HaveUndo(entry[r]) THEN entry[r] ELSE NoBlock)
      BY Zenon, <2>11 DEF Read
    <3>2. entry[r] \in Block
      BY Zenon, <1>0, <3>1
    <3>3. (IF entry[r] \in have /\ HaveUndo(entry[r]) THEN entry[r] ELSE NoBlock) \in MaybeBlock
      BY Zenon, <3>2
    <3>. QED BY <2>9, <3>1, <3>2, <3>3
  <2>12. CASE Returns(r)
    BY <1>0, <2>12 DEF Returns, ReaderType
  <2>. QED BY Zenon, <1>3, <2>2, <2>3, <2>4, <2>5, <2>6, <2>7, <2>8, <2>10, <2>11, <2>12
           DEF ReaderStep
<1>. QED BY Zenon, <1>1, <1>2, <1>3 DEF ReaderNext

LEMMA ReadStep ==
    ASSUME IInv, IInv', VisibleInv, VisibleInv', UndoInv, ReaderType, ReadInv,
           [ReaderNext]_allVars
    PROVE  ReadInv'
<1>1. CASE UNCHANGED allVars
  BY Zenon, <1>1 DEF allVars, reader, vars, ReadInv, OpenOf, DoneOf, EntryOf, HaveUndo
<1>2. CASE WriterStep
  BY Zenon, <1>2, WriterKeepsReads DEF ReadInv
<1>3. ASSUME NEW r \in Reader, ReaderStep(r) PROVE ReadInv'
  <2>1. ASSUME NEW u \in Reader \ {r} PROVE OpenOf(u)' /\ DoneOf(u)' /\ EntryOf(u)'
    <3>1. /\ rpc'[u] = rpc[u] /\ rop'[u] = rop[u] /\ arg'[u] = arg[u] /\ ht'[u] = ht[u]
          /\ out'[u] = out[u] /\ entry'[u] = entry[u] /\ seen'[u] = seen[u]
      BY Zenon, <1>3, ReaderFrameStep DEF ReaderFrame
    <3>2. UNCHANGED <<shown, fatal, have, undo>> /\ OpenOf(u) /\ DoneOf(u) /\ EntryOf(u)
      BY Zenon, <1>3 DEF ReaderStep, vars, ReadInv
    <3>. QED BY Zenon, <3>1, <3>2 DEF OpenOf, DoneOf, EntryOf, HaveUndo
  <2>2. OpenOf(r)' /\ DoneOf(r)' /\ EntryOf(r)'
    BY Zenon, <1>3, ReaderKeeps
  <2>. QED BY Zenon, <2>1, <2>2 DEF ReadInv
<1>. QED BY Zenon, <1>1, <1>2, <1>3 DEF ReaderNext

-----------------------------------------------------------------------------
(* The theorems. *)

\* The readers are only added to what Chainman does.
LEMMA ReadersChangeNothing == ReaderSpec => Spec
<1>1. ReaderInit => Init
  BY DEF ReaderInit
<1>2. [ReaderNext]_allVars => [Next]_vars
  BY Zenon DEF ReaderNext, WriterStep, ReaderStep, allVars
<1>. QED BY <1>1, <1>2, PTL DEF ReaderSpec, Spec

LEMMA ReaderInvariant == ReaderSpec => [](ReaderType /\ ReadInv)
<1>1. ReaderInit => ReaderType /\ ReadInv
  <2>. SUFFICES ASSUME ReaderInit PROVE ReaderType /\ ReadInv
    OBVIOUS
  <2>1. ReaderType
    BY DEF ReaderInit, ReaderType
  <2>2. \A r \in Reader : rpc[r] = "idle" /\ entry[r] = NoBlock
    BY ZenonT(30) DEF ReaderInit
  <2>3. ReadInv
    BY <2>2 DEF ReadInv, OpenOf, DoneOf, EntryOf
  <2>. QED BY <2>1, <2>3
<1>2. /\ IInv /\ IInv' /\ VisibleInv /\ VisibleInv' /\ UndoInv /\ ReaderType /\ ReadInv
      /\ [ReaderNext]_allVars
      => (ReaderType /\ ReadInv)'
  BY ZenonT(30), ReaderTypeStep, ReadStep
<1>. QED BY <1>1, <1>2, ReadersChangeNothing, Inductive, VisibleInvariant, UndoInvariant, PTL
         DEF ReaderSpec

\* at_height and ChainIterator::next are linearizable, whatever the writers do
\* between their two calls into the library.
THEOREM AtHeight == ReaderSpec => []AtHeightLinearizable
<1>1. ReadInv => AtHeightLinearizable
  BY Zenon DEF ReadInv, DoneOf, AtHeightLinearizable
<1>. QED BY <1>1, ReaderInvariant, PTL

\* tip is linearizable too while the chain only grows.
THEOREM TipInGrowth == ReaderSpec => []TipIfOnlyGrowth
<1>1. ReadInv => TipIfOnlyGrowth
  BY Zenon DEF ReadInv, DoneOf, TipIfOnlyGrowth
<1>. QED BY <1>1, ReaderInvariant, PTL

\* An entry the chain gave can be read ever after.
THEOREM EntriesStayReadable == ReaderSpec => []EntriesReadable
<1>1. ReadInv => EntriesReadable
  BY Zenon DEF ReadInv, DoneOf, EntriesReadable
<1>. QED BY <1>1, ReaderInvariant, PTL
=============================================================================
