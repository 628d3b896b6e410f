-------------------------- MODULE ChainmanProgress ---------------------------
(***************************************************************************)
(* Proofs about Chainman, third part: ActivateBestChain comes to an end.   *)
(* Its target stays ahead of the tip while the loop goes on (ReachInv), so *)
(* some call can always take a step, and each step inside it uses up       *)
(* something of which a finite tree has only so much.                      *)
(***************************************************************************)
EXTENDS ChainmanMostWork, FiniteSetTheorems

USE DEF locks, headers, flags, data, chain, abc, call, tips, env,
        Pc, Activating, Locked, MaybeBlock

\* Between two steps the target is still ahead, it is no worse than the first
\* tip of the section, and none of its ancestors is known to be invalid, until
\* the step that finds one invalid drops it.
ReachOf(t) ==
    /\ pc[t] = "step" => found = "no" /\ tip # mostWork
    /\ pc[t] = "loop" \/ (pc[t] = "find" /\ progressed = "no") => tip # mostWork
    /\ pc[t] \in InStep /\ mostWork # NoBlock => ~Worse(mostWork, startTip)
    /\ /\ pc[t] \in Activating /\ mostWork # NoBlock
       /\ pc[t] = "connected" => found = "no"
       => Anc[mostWork] \cap failed = {}

ReachInv == \A t \in Thread : ReachOf(t)

\* A block is stored only if the stages before ConnectBlock accept it.
StageInv ==
    /\ \A b \in index : Verdict[b] \notin {"pow", "header"}
    /\ \A b \in have : Verdict[b] \in {"valid", "connect"}

LEMMA StageStep ==
    ASSUME IInv, StageInv, NEW t \in Thread, Proceed(t)
    PROVE  StageInv'
<1>. DEFINE b == job[t].blk
<1>0. b \in Block /\ Verdict \in [Block -> Stages] /\ Verdict[Genesis] = "valid"
  BY Zenon, JobFacts, TreeConstants DEF IInv, TreeConstants
<1>1. ASSUME AcceptBlockHeader(b) = "valid" PROVE Verdict[b] \notin {"pow", "header"}
  BY <1>0, <1>1 DEF AcceptBlockHeader, StageInv
<1>2. CASE AcceptHeader(t)
  <2>1. have' = have /\ (index' = index \/ (AcceptBlockHeader(b) = "valid" /\ index' = index \cup {b}))
    BY Zenon, <1>2 DEF AcceptHeader, AddToBlockIndex
  <2>. QED BY ZenonT(30), <1>1, <2>1 DEF StageInv
<1>3. CASE RejectBody(t) \/ WriteFails(t)
  <2>1. have' = have /\ AcceptBlockHeader(b) = "valid" /\ index' = index \cup {b}
    BY ZenonT(30), <1>3 DEF RejectBody, WriteFails, BodyAccepted, HeaderAccepted,
       AddToBlockIndex, InvalidBlockFound
  <2>. QED BY ZenonT(30), <1>1, <2>1 DEF StageInv
<1>4. CASE StoreBlock(t)
  <2>1. /\ have' = have \cup {b} /\ index' = index \cup {b}
        /\ AcceptBlockHeader(b) = "valid" /\ CheckBlock(job[t]) = "valid"
        /\ ContextualCheckBlock(job[t]) = "valid"
    BY ZenonT(30), <1>4 DEF StoreBlock, BodyAccepted, HeaderAccepted, AddToBlockIndex
  <2>2. Verdict[b] \notin {"check", "context", "weight"}
    BY <2>1 DEF CheckBlock, ContextualCheckBlock
  <2>3. Verdict[b] \in {"valid", "connect"}
    BY <1>0, <1>1, <2>1, <2>2 DEF Stages
  <2>. QED BY ZenonT(30), <1>1, <2>1, <2>3 DEF StageInv
<1>5. CASE ConnectInvalid(t)
  <2>1. have' = have /\ \E x \in Block : Verdict[x] = "connect" /\ index' = index \cup {x}
    BY ZenonT(30), <1>5 DEF ConnectInvalid, InvalidBlockFound
  <2>. QED BY <2>1 DEF StageInv
<1>6. CASE UNCHANGED <<index, have>>
  BY ZenonT(30), <1>6 DEF StageInv
<1>7. Link(t) => have' = have
  BY Zenon DEF Link
<1>. QED BY ZenonT(30), <1>2, <1>3, <1>4, <1>5, <1>6, <1>7, Frame DEF TreeFrame

\* A block is not below its parent.
LEMMA ParentBelow ==
    ASSUME NEW b \in Block \ {Genesis}
    PROVE  b \notin Anc[Prev[b]]
<1>1. Prev[b] \in Block /\ Work[Prev[b]] < Work[b]
  BY ZenonT(30), ParentWork
<1>2. b \in Anc[Prev[b]] => b = Prev[b] \/ Work[b] < Work[Prev[b]]
  BY ZenonT(30), <1>1, TreeConstants DEF TreeConstants
<1>3. Work[b] \in Nat /\ Work[Prev[b]] \in Nat
  BY <1>1, TreeConstants DEF TreeConstants
<1>. QED BY SMTT(30), <1>1, <1>2, <1>3

\* What lies between a block and a chain A: going to the parent shortens it
\* off A, coming from the parent shortens it on A.
Between(x, A) == (Anc[x] \ A) \cup (A \ Anc[x])

LEMMA WayShorter ==
    ASSUME NEW b \in Block \ {Genesis}, NEW A
    PROVE  /\ b \notin A => /\ Between(Prev[b], A) \subseteq Between(b, A)
                            /\ Between(Prev[b], A) # Between(b, A)
           /\ b \in A => /\ Between(b, A) \subseteq Between(Prev[b], A)
                         /\ Between(b, A) # Between(Prev[b], A)
<1>1. Anc[b] = {b} \cup Anc[Prev[b]] /\ b \notin Anc[Prev[b]]
  BY ZenonT(30), TreeFacts, ParentBelow
<1>. QED BY SMTT(30), <1>1 DEF Between

\* From a block on the way to a there is a next one.
LEMMA NextOnWay ==
    ASSUME NEW a \in Block, NEW x \in Anc[a] \ {a}
    PROVE  \E b \in Anc[a] \ {Genesis} : Prev[b] = x
<1>. DEFINE S == {y \in Anc[a] : x \in Anc[y] /\ y # x}
<1>1. Work \in [Block -> Nat]
  BY TreeConstants DEF TreeConstants
<1>2. S \in SUBSET Block /\ S # {}
  BY ZenonT(30), TreeFacts
<1>. HIDE DEF S
<1>3. PICK y \in S : \A z \in S : Work[y] <= Work[z]
  BY ZenonT(30), <1>2, LeastWork
<1>4. y \in Block /\ y \in Anc[a] /\ x \in Anc[y] /\ y # x
  BY ZenonT(30), <1>2, <1>3 DEF S
<1>5. y # Genesis
  BY ZenonT(30), <1>4, TreeFacts
<1>6. /\ Prev[y] \in Block /\ Work[Prev[y]] < Work[y] /\ Prev[y] \in Anc[a]
      /\ x \in Anc[Prev[y]]
  <2>1. Prev[y] \in Block /\ Prev[y] \in Anc[y] /\ Work[Prev[y]] < Work[y]
    BY ZenonT(30), <1>4, <1>5, ParentWork
  <2>2. Anc[y] = {y} \cup Anc[Prev[y]] /\ Anc[y] \subseteq Anc[a]
    BY ZenonT(30), <1>4, <1>5, TreeFacts
  <2>. QED BY ZenonT(30), <1>4, <2>1, <2>2
<1>7. Prev[y] \notin S
  BY SMTT(30), <1>1, <1>3, <1>4, <1>6
<1>8. Prev[y] = x
  BY ZenonT(30), <1>6, <1>7 DEF S
<1>. QED BY ZenonT(30), <1>4, <1>5, <1>8

\* Linked blocks have a best one among them.
LEMMA BestOf ==
    ASSUME SeqInv, seq \in [Block -> Nat], linked \subseteq Block,
           NEW U \in SUBSET linked, U # {}
    PROVE  \E m \in U : \A c \in U \ {m} : Worse(c, m)
<1>1. \A c \in U : c \in Block /\ c \in linked /\ Work[c] \in Nat /\ seq[c] \in Nat
  BY TreeConstants DEF TreeConstants
<1>2. PICK top \in Block : \A a \in Block : Work[a] <= Work[top]
  BY WorkBounded DEF WorkBounded
<1>3. Work[top] \in Nat
  BY TreeConstants DEF TreeConstants
<1>4. PICK w \in U : \A c \in U : Work[c] <= Work[w]
  <2>. DEFINE T == {Work[top] - Work[c] : c \in U}
  <2>1. \A c \in U : Work[top] - Work[c] \in Nat
    BY SMTT(30), <1>1, <1>2, <1>3
  <2>2. T \in SUBSET Nat /\ T # {}
    BY ZenonT(30), <2>1
  <2>3. \A n \in T : \E c \in U : n = Work[top] - Work[c]
    BY ZenonT(30)
  <2>4. \A c \in U : Work[top] - Work[c] \in T
    BY ZenonT(30)
  <2>. HIDE DEF T
  <2>5. PICK n \in T : \A m \in T : n <= m
    BY ZenonT(30), <2>2, Least
  <2>6. PICK c \in U : n = Work[top] - Work[c]
    BY ZenonT(30), <2>3
  <2>7. \A d \in U : Work[top] - Work[c] <= Work[top] - Work[d]
    BY ZenonT(30), <2>4, <2>5, <2>6
  <2>8. \A d \in U : Work[d] <= Work[c]
    BY SMTT(30), <1>1, <1>3, <2>7
  <2>. QED BY ZenonT(30), <2>8
<1>5. PICK m \in U : Work[m] = Work[w] /\ \A c \in U : Work[c] = Work[w] => seq[m] <= seq[c]
  <2>. DEFINE T == {seq[c] : c \in {d \in U : Work[d] = Work[w]}}
  <2>1. T \in SUBSET Nat /\ T # {}
    BY ZenonT(30), <1>1
  <2>2. \A n \in T : \E c \in U : Work[c] = Work[w] /\ n = seq[c]
    BY ZenonT(30)
  <2>3. \A c \in U : Work[c] = Work[w] => seq[c] \in T
    BY ZenonT(30)
  <2>. HIDE DEF T
  <2>4. PICK n \in T : \A k \in T : n <= k
    BY ZenonT(30), <2>1, Least
  <2>. QED BY ZenonT(30), <2>2, <2>3, <2>4
<1>6. \A c \in U : seq[c] = seq[m] => c = m
  BY ZenonT(30), <1>1 DEF SeqInv
<1>. QED BY SMTT(30), <1>1, <1>4, <1>5, <1>6 DEF Worse, WorseIn

\* As long as a call is under way, one can go on: the holder of cs_main never
\* waits, the holder of m_chainstate_mutex waits for cs_main only, and the
\* other calls wait for these two.
LEMMA GoesOn ==
    ASSUME IInv, VisibleInv, SeqInv, ReachInv, StageInv,
           NEW t \in Thread, pc[t] \in Locked
    PROVE  CanGoOn(t)
<1>1. CASE pc[t] \in {"link", "connected", "leave"}
  BY <1>1 DEF CanGoOn
<1>2. CASE pc[t] = "find"
  <2>1. \E best \in MaybeBlock : FindMostWorkChain(best)
    <3>. DEFINE usable == {c \in candidates : FailedOn(c) = {}}
    <3>1. CASE usable = {}
      BY <3>1 DEF FindMostWorkChain
    <3>2. CASE usable # {}
      <4>1. usable \in SUBSET linked /\ usable \in SUBSET Block
        BY ZenonT(30), TipsUsable DEF IInv, LinkedInv
      <4>. HIDE DEF usable
      <4>2. PICK m \in usable : \A c \in usable \ {m} : Worse(c, m)
        BY ZenonT(30), <3>2, <4>1, TipsUsable, BestOf
      <4>3. FindMostWorkChain(m)
        BY ZenonT(30), <3>2, <4>2 DEF FindMostWorkChain, usable
      <4>. QED BY ZenonT(30), <4>1, <4>2, <4>3
    <3>. QED BY <3>1, <3>2
  <2>. QED BY <1>2, <2>1 DEF CanGoOn
<1>3. CASE pc[t] = "step"
  <2>1. /\ mostWork \in linked /\ mostWork \in Block /\ tip # mostWork
        /\ Anc[mostWork] \subseteq have /\ Anc[mostWork] \subseteq Block
    BY ZenonT(30), <1>3, TipsUsable, TreeFacts DEF IInv, LocalInv, LinkedInv, ReachInv, ReachOf
  <2>2. CASE tip \in Anc[mostWork]
    <3>1. PICK b \in Anc[mostWork] \ {Genesis} : Prev[b] = tip
      BY ZenonT(30), <2>1, <2>2, NextOnWay
    <3>2. b \in Block /\ Successor(b) /\ Verdict[b] \in {"valid", "connect"}
      BY ZenonT(30), <2>1, <3>1 DEF Successor, StageInv
    <3>. QED BY <1>3, <3>2 DEF CanGoOn
  <2>3. CASE tip \notin Anc[mostWork]
    BY <1>3, <2>3 DEF CanGoOn, Above
  <2>. QED BY <2>2, <2>3
<1>. QED BY <1>1, <1>2, <1>3

LEMMA SomeGoesOn ==
    ASSUME IInv, VisibleInv, SeqInv, ReachInv, StageInv
    PROVE  NoCallStuck
<1>. SUFFICES ASSUME NEW t \in Thread, pc[t] # "idle"
              PROVE  \E u \in Thread : pc[u] # "idle" /\ CanGoOn(u)
  BY ZenonT(30) DEF NoCallStuck
<1>1. /\ csMain \in Thread \cup {NoThread} /\ chainMutex \in Thread \cup {NoThread}
      /\ NoThread \notin Thread /\ LockInv /\ pc[t] \in Pc
  BY ZenonT(30), TreeFacts DEF IInv, TypeOK
<1>2. CASE csMain \in Thread
  <2>1. pc[csMain] \in Locked
    BY ZenonT(30), <1>1, <1>2 DEF LockInv
  <2>2. CanGoOn(csMain)
    BY ZenonT(30), <1>2, <2>1, GoesOn
  <2>. QED BY <1>2, <2>1, <2>2
<1>3. CASE csMain = NoThread /\ chainMutex \in Thread
  <2>1. pc[chainMutex] \in Activating \ Locked
    BY ZenonT(30), <1>1, <1>3 DEF LockInv
  <2>2. CanGoOn(chainMutex)
    BY <1>3, <2>1 DEF CanGoOn
  <2>. QED BY <1>3, <2>1, <2>2
<1>4. CASE csMain = NoThread /\ chainMutex = NoThread
  <2>1. pc[t] \notin Locked /\ pc[t] \notin Activating
    BY ZenonT(30), <1>1, <1>4 DEF LockInv
  <2>2. CanGoOn(t)
    BY <1>1, <1>4, <2>1 DEF CanGoOn
  <2>. QED BY <2>2
<1>. QED BY <1>1, <1>2, <1>3, <1>4

\* A step inside of ActivateBestChain finds the other threads outside of it,
\* and one outside leaves the thread inside where it is.
LEMMA ReachActs ==
    ASSUME IInv, NEW t \in Thread, Proceed(t), pc[t] \in Activating, ReachOf(t)'
    PROVE  ReachInv'
<1>. SUFFICES ASSUME NEW u \in Thread \ {t} PROVE ReachOf(u)'
  BY ZenonT(30) DEF ReachInv
<1>1. pc'[u] = pc[u]
  BY ZenonT(30), PlaceFrame DEF IInv, TypeOK, Places
<1>2. pc[u] \notin Activating
  BY ZenonT(30) DEF IInv, LockInv
<1>. QED BY ZenonT(30), <1>1, <1>2 DEF ReachOf, InStep

\* RejectBody flags nothing on the way to the target, whose data is all there.
LEMMA TargetClean ==
    ASSUME IInv, NEW t \in Thread, Proceed(t), pc[t] \notin Activating,
           mostWork # NoBlock, Anc[mostWork] \cap failed = {}
    PROVE  Anc[mostWork] \cap failed' = {}
<1>1. failed' = failed \/ RejectBody(t)
  BY ZenonT(30), Frame DEF TreeFrame, ConnectInvalid
<1>2. CASE RejectBody(t)
  <2>. DEFINE b == job[t].blk
  <2>1. b \notin have /\ (failed' = failed \/ failed' = failed \cup Descendants(b, index \cup {b}))
    BY ZenonT(30), <1>2 DEF RejectBody, InvalidBlockFound
  <2>2. Anc[mostWork] \subseteq have /\ mostWork \in Block
    BY ZenonT(30) DEF IInv, LinkedInv, TypeOK
  <2>3. ASSUME NEW x \in Anc[mostWork] PROVE b \notin Anc[x]
    <3>1. Anc[x] \subseteq Anc[mostWork]
      BY ZenonT(30), <2>2, TreeFacts
    <3>. QED BY ZenonT(30), <2>1, <2>2, <3>1
  <2>. QED BY ZenonT(30), <2>1, <2>3 DEF Descendants
<1>. QED BY <1>1, <1>2

LEMMA ReachOutside ==
    ASSUME IInv, VisibleInv, ReachInv, NEW t \in Thread, Proceed(t), pc[t] \notin Activating
    PROVE  /\ ReachInv'
           /\ \A u \in Thread : {pc[u], pc'[u]} \subseteq Activating => Advances(u)
<1>0. pc \in [Thread -> Pc]
  BY ZenonT(30) DEF IInv, TypeOK
<1>1. UNCHANGED <<tip, abc>>
  <2>1. Flush(t) => pc[t] = "flush"
    BY ZenonT(30) DEF Flush
  <2>. QED BY ZenonT(30), <2>1, Frame DEF ChainFrame, LoopBegin, Find, DisconnectTip, Above,
         ConnectTip, ConnectInvalid, StepFails, Connected, LeaveIdle, FlushFails
<1>2. linked \subseteq linked' /\ failed \subseteq failed'
  BY ZenonT(30), Frame, FailedGrows DEF TreeFrame, StoreBlock, Link
<1>3. pc'[t] \in Activating => pc'[t] = "loop" /\ mostWork = NoBlock
  <2>1. CASE ActivateBestChain(t)
    BY ZenonT(30), <1>0, <2>1 DEF ActivateBestChain, VisibleInv
  <2>2. CASE Accept(t)
    <3>1. \/ pc' = pc
          \/ \E p \in {"idle", "done", "notify", "link", "header_tip", "abc"} :
                pc' = [pc EXCEPT ![t] = p]
      BY ZenonT(30), <2>2 DEF Accept, Done, AcceptHeader, RejectUnindexed, RejectBody,
         WriteFails, StoreBlock, KnownBlock, Link, LinkDone, NotifyHeaderTip, HeaderTip,
         Reject, AfterNotify
    <3>. QED BY ZenonT(30), <1>0, <3>1
  <2>3. CASE Activate(t) /\ ~ActivateBestChain(t)
    BY ZenonT(30), <2>3 DEF Activate, LoopBegin, Find, CoinsMismatch, DisconnectTip, Above,
       ConnectTip, ConnectInvalid, StepFails, Connected, LeaveIdle, LeaveMoved, Flush,
       FlushFails
  <2>. QED BY ZenonT(30), <2>1, <2>2, <2>3 DEF Proceed
<1>4. ASSUME NEW u \in Thread, u # t PROVE pc'[u] = pc[u]
  BY ZenonT(30), <1>0, <1>4, PlaceFrame DEF Places
<1>5. ReachOf(t)'
  <2>1. tip \in Block /\ NoBlock \notin Block
    BY ZenonT(30), TreeFacts DEF IInv, TypeOK
  <2>. QED BY ZenonT(30), <1>1, <1>3, <2>1 DEF ReachOf, InStep
<1>6. ASSUME NEW u \in Thread, u # t PROVE ReachOf(u)'
  <2>1. ReachOf(u)
    BY ZenonT(30) DEF ReachInv
  <2>2. pc[u] \in InStep => seq' = seq
    <3>1. seq' = seq \/ Link(t)
      BY ZenonT(30), Frame DEF TreeFrame, StoreBlock
    <3>2. Link(t) => pc[u] \notin InStep
      BY ZenonT(30), OutOfSection DEF Link
    <3>. QED BY ZenonT(30), <3>1, <3>2
  <2>3. pc[u] \in InStep => (Worse(mostWork, startTip)' <=> Worse(mostWork, startTip))
    BY ZenonT(30), <1>1, <2>2 DEF Worse, WorseIn
  <2>4. mostWork # NoBlock /\ Anc[mostWork] \cap failed = {}
        => Anc[mostWork] \cap failed' = {}
    BY ZenonT(30), TargetClean
  <2>. QED BY ZenonT(30), <1>1, <1>4, <1>6, <2>1, <2>3, <2>4 DEF ReachOf
<1>7. ASSUME NEW u \in Thread, {pc[u], pc'[u]} \subseteq Activating PROVE Advances(u)
  <2>1. u # t /\ pc'[u] = pc[u]
    BY ZenonT(30), <1>4, <1>7
  <2>2. Way(u)' = Way(u)
    BY ZenonT(30), <1>1, <2>1 DEF Way
  <2>. QED BY ZenonT(30), <1>1, <1>2, <2>1, <2>2 DEF Advances
<1>. QED BY ZenonT(30), <1>5, <1>6, <1>7 DEF ReachInv

\* The places between two steps lead on, with the target still ahead.
LEMMA LoopReaches ==
    ASSUME IInv, VisibleInv, NewTipInv, NEW t \in Thread, ReachOf(t),
           LoopBegin(t) \/ LeaveMoved(t) \/ (Flush(t) /\ ~LoopDone)
    PROVE  ReachOf(t)' /\ Advances(t)
<1>0. pc \in [Thread -> Pc] /\ seq \in [Block -> Nat] /\ mostWork \in MaybeBlock
  BY ZenonT(30) DEF IInv, TypeOK
<1>1. UNCHANGED <<tip, mostWork, found, failed, linked, seq>>
  BY ZenonT(30) DEF LoopBegin, LeaveMoved, Flush
<1>2. \A x, y : Worse(x, y)' <=> Worse(x, y)
  BY ZenonT(30), <1>1 DEF Worse, WorseIn
<1>3. CASE LoopBegin(t)
  <2>1. pc[t] = "loop" /\ pc'[t] = "find" /\ startTip' = tip /\ progressed' = "no"
    BY ZenonT(30), <1>0, <1>3 DEF LoopBegin
  <2>2. mostWork # NoBlock => ~Worse(mostWork, tip)
    <3>1. mostWork # NoBlock => tip \in Anc[mostWork]
      BY ZenonT(30), <2>1 DEF VisibleInv, ThreadInv, TargetOf
    <3>. QED BY ZenonT(30), <1>0, <3>1, WorseAncestor
  <2>3. ReachOf(t)'
    BY ZenonT(30), <1>1, <1>2, <2>1, <2>2 DEF ReachOf
  <2>4. Way(t)' = Way(t)
    BY ZenonT(30), <1>1, <2>1 DEF Way
  <2>. QED BY ZenonT(30), <1>1, <2>1, <2>3, <2>4 DEF Advances, Onward
<1>4. CASE LeaveMoved(t)
  <2>1. pc[t] = "leave" /\ pc'[t] = "flush"
    BY ZenonT(30), <1>0, <1>4 DEF LeaveMoved
  <2>2. ReachOf(t)'
    BY ZenonT(30), <1>1, <2>1 DEF ReachOf, InStep
  <2>3. Way(t)' = Way(t)
    BY ZenonT(30), <1>1, <2>1 DEF Way
  <2>. QED BY ZenonT(30), <1>1, <2>1, <2>2, <2>3 DEF Advances, Onward
<1>5. CASE Flush(t) /\ ~LoopDone
  <2>1. pc[t] = "flush" /\ pc'[t] = "loop" /\ newTip # mostWork
    BY ZenonT(30), <1>0, <1>5 DEF Flush, LoopDone
  <2>2. tip # mostWork
    BY ZenonT(30), <2>1 DEF NewTipInv
  <2>3. ReachOf(t)'
    BY ZenonT(30), <1>1, <2>1, <2>2 DEF ReachOf, InStep
  <2>4. Way(t)' = Way(t)
    BY ZenonT(30), <1>1, <2>1 DEF Way
  <2>. QED BY ZenonT(30), <1>1, <2>1, <2>3, <2>4 DEF Advances, Onward
<1>. QED BY <1>3, <1>4, <1>5

\* A new target is found, or the one there is lies ahead.
LEMMA FindReaches ==
    ASSUME IInv, VisibleInv, CandidatesInv, NEW t \in Thread, ReachOf(t), Find(t)
    PROVE  ReachOf(t)' /\ Advances(t)
<1>1. /\ UNCHANGED <<tip, startTip, progressed, failed, linked, seq>> /\ pc[t] = "find"
      /\ \/ mostWork # NoBlock /\ mostWork' = mostWork
         \/ mostWork = NoBlock /\ FindMostWorkChain(mostWork')
      /\ \/ mostWork' \in {NoBlock, tip} /\ pc' = [pc EXCEPT ![t] = "leave"]
         \/ mostWork' \notin {NoBlock, tip} /\ pc' = [pc EXCEPT ![t] = "step"] /\ found' = "no"
  BY ZenonT(30) DEF Find
<1>2. /\ pc \in [Thread -> Pc] /\ seq \in [Block -> Nat] /\ candidates \subseteq Block
      /\ tip \in Block /\ shown \in Block /\ shown \in linked /\ NoBlock \notin Block
      /\ mostWork \in MaybeBlock /\ progressed \in {"no", "yes"}
      /\ Anc[tip] \cap failed = {} /\ FlagInv
  BY ZenonT(30), TipsUsable, TreeFacts DEF IInv, TypeOK
<1>3. pc'[t] \in {"leave", "step"} /\ (pc'[t] = "step" => found' = "no" /\ mostWork' # tip)
  BY ZenonT(30), <1>1, <1>2
<1>4. startTip = shown /\ (progressed = "yes" => Worse(tip, startTip))
  BY ZenonT(30), <1>1 DEF VisibleInv, ThreadInv, SectionOf, InStep
<1>5. \A x, y : Worse(x, y)' <=> Worse(x, y)
  BY ZenonT(30), <1>1 DEF Worse, WorseIn
<1>6. CASE mostWork # NoBlock
  <2>1. mostWork' = mostWork /\ ~Worse(mostWork, startTip) /\ Anc[mostWork] \cap failed = {}
    BY ZenonT(30), <1>1, <1>6 DEF ReachOf, InStep
  <2>2. mostWork # tip
    BY ZenonT(30), <1>1, <1>2, <1>4, <2>1 DEF ReachOf
  <2>3. pc'[t] = "step"
    BY ZenonT(30), <1>1, <1>2, <1>6, <2>1, <2>2
  <2>4. ReachOf(t)'
    BY ZenonT(30), <1>1, <1>3, <1>5, <2>1, <2>3 DEF ReachOf
  <2>5. Way(t)' = Way(t)
    BY ZenonT(30), <1>1, <2>1, <2>3 DEF Way
  <2>. QED BY ZenonT(30), <1>1, <2>3, <2>4, <2>5 DEF Advances, Onward
<1>7. CASE mostWork = NoBlock
  <2>. DEFINE usable == {c \in candidates : FailedOn(c) = {}}
  <2>1. PICK c \in candidates : Sound(c) /\ (c = shown \/ Worse(shown, c))
    <3>1. Sound(shown)
      BY ZenonT(30) DEF VisibleInv, ShownInv, Sound
    <3>. QED BY ZenonT(30), <1>2, <3>1 DEF CandidatesInv
  <2>2. c \in usable /\ c \in Block
    <3>1. Anc[c] \cap failed = {} /\ c \in Block
      BY ZenonT(30), <1>2, <2>1, ValidNotFailed DEF Sound
    <3>. QED BY ZenonT(30), <3>1 DEF FailedOn
  <2>3. mostWork' \in usable /\ \A d \in usable \ {mostWork'} : Worse(d, mostWork')
    BY ZenonT(30), <1>1, <1>7, <2>2 DEF FindMostWorkChain
  <2>4. mostWork' \in Block /\ FailedOn(mostWork') = {}
    BY ZenonT(30), <1>2, <2>3
  <2>. HIDE DEF usable
  <2>5. ~Worse(mostWork', startTip)
    <3>1. ~Worse(mostWork', c)
      BY ZenonT(30), <1>2, <2>2, <2>3, <2>4, WorseOrder
    <3>2. CASE c = shown
      BY ZenonT(30), <1>4, <3>1, <3>2
    <3>3. CASE Worse(shown, c)
      <4>1. Worse(shown, mostWork')
        BY ZenonT(30), <1>2, <2>2, <2>4, <3>1, <3>3, WorseOrder
      <4>. QED BY ZenonT(30), <1>2, <1>4, <2>4, <4>1, WorseOrder
    <3>. QED BY <2>1, <3>2, <3>3
  <2>6. Anc[mostWork'] \cap failed = {}
    BY ZenonT(30), <1>2, <2>4 DEF FailedOn
  <2>7. ReachOf(t)'
    BY ZenonT(30), <1>1, <1>3, <1>5, <2>5, <2>6 DEF ReachOf
  <2>8. Way(t) = MaybeBlock
    BY ZenonT(30), <1>7 DEF Way
  <2>9. Way(t)' = (Anc[tip] \ Anc[mostWork']) \cup (Anc[mostWork'] \ Anc[tip])
    BY ZenonT(30), <1>1, <1>2, <1>3, <2>4 DEF Way
  <2>10. Anc[tip] \subseteq Block /\ Anc[mostWork'] \subseteq Block
    BY ZenonT(30), <1>2, <2>4, TreeFacts
  <2>11. Way(t)' \subseteq Way(t) /\ Way(t)' # Way(t)
    BY SMTT(30), <1>2, <2>8, <2>9, <2>10
  <2>. QED BY ZenonT(30), <1>1, <2>7, <2>11 DEF Advances
<1>. QED BY <1>6, <1>7

\* A step shortens the way by a block.  The target is not on the part that is
\* disconnected, for it is no worse than the first tip.
LEMMA StepReaches ==
    ASSUME IInv, VisibleInv, NEW t \in Thread, Proceed(t), ReachOf(t),
           DisconnectTip(t) \/ ConnectTip(t)
    PROVE  ReachOf(t)' /\ Advances(t)
<1>. DEFINE A == Anc[mostWork]
<1>1. /\ UNCHANGED <<mostWork, startTip, found, failed, linked, seq>> /\ pc[t] = "step"
  BY ZenonT(30) DEF DisconnectTip, ConnectTip, Above
<1>2. /\ pc \in [Thread -> Pc] /\ seq \in [Block -> Nat] /\ tip \in Block
      /\ mostWork \in Block /\ shown \in Block /\ NoBlock \notin Block
  BY ZenonT(30), <1>1, TipsUsable, TreeFacts DEF IInv, TypeOK, LocalInv
<1>3. found = "no" /\ tip # mostWork /\ ~Worse(mostWork, startTip) /\ A \cap failed = {}
  BY ZenonT(30), <1>1, <1>2 DEF ReachOf, InStep
<1>4. \A x, y : Worse(x, y)' <=> Worse(x, y)
  BY ZenonT(30), <1>1 DEF Worse, WorseIn
<1>5. Way(t) = Between(tip, A)
  BY ZenonT(30), <1>1, <1>2 DEF Way, Between
<1>6. Way(t)' = Between(tip', A)
  BY ZenonT(30), <1>1, <1>2, <1>3 DEF Way, Between
<1>7. CASE DisconnectTip(t)
  <2>1. tip' = Prev[tip] /\ tip \notin A /\ pc' = pc /\ tip \in Block \ {Genesis}
    BY ZenonT(30), <1>7, Disconnected DEF DisconnectTip, Above, SetTip, IInv
  <2>2. tip' # mostWork
    <3>1. Work[tip'] < Work[tip]
      BY ZenonT(30), <2>1, ParentWork
    <3>2. startTip = shown /\ (tip = shown \/ Worse(tip, shown))
      BY ZenonT(30), <1>1, <2>1 DEF VisibleInv, ThreadInv, SectionOf, InStep
    <3>3. tip' \in Block
      BY ZenonT(30), <2>1, ParentWork
    <3>4. Worse(tip', shown)
      BY ZenonT(30), <1>2, <3>1, <3>2, <3>3, WorseOrder
    <3>. QED BY ZenonT(30), <1>3, <3>2, <3>4
  <2>3. ReachOf(t)'
    BY ZenonT(30), <1>1, <1>3, <1>4, <2>1, <2>2 DEF ReachOf
  <2>. HIDE DEF A
  <2>4. Way(t)' \subseteq Way(t) /\ Way(t)' # Way(t)
    <3>1. /\ Between(Prev[tip], A) \subseteq Between(tip, A)
          /\ Between(Prev[tip], A) # Between(tip, A)
      BY ZenonT(30), <2>1, WayShorter
    <3>. QED BY ZenonT(30), <1>5, <1>6, <2>1, <3>1
  <2>. QED BY ZenonT(30), <1>1, <2>3, <2>4 DEF Advances
<1>8. CASE ConnectTip(t)
  <2>1. /\ tip' \in Block \ {Genesis} /\ tip' \in A /\ Prev[tip'] = tip
        /\ pc' = [pc EXCEPT ![t] = "connected"] \/ (pc' = pc /\ tip' # mostWork)
    BY ZenonT(30), <1>8 DEF ConnectTip, SetTip, Successor
  <2>2. pc'[t] = "connected" \/ (pc'[t] = "step" /\ tip' # mostWork)
    BY ZenonT(30), <1>1, <1>2, <2>1
  <2>3. ReachOf(t)'
    BY ZenonT(30), <1>1, <1>3, <1>4, <2>2 DEF ReachOf
  <2>. HIDE DEF A
  <2>4. Way(t)' \subseteq Way(t) /\ Way(t)' # Way(t)
    <3>1. /\ Between(tip', A) \subseteq Between(Prev[tip'], A)
          /\ Between(tip', A) # Between(Prev[tip'], A)
      BY ZenonT(30), <2>1, WayShorter
    <3>. QED BY ZenonT(30), <1>5, <1>6, <2>1, <3>1
  <2>. QED BY ZenonT(30), <1>1, <2>3, <2>4 DEF Advances
<1>. QED BY <1>7, <1>8

\* A block found invalid was not known to be, and its chain is given up.
LEMMA InvalidReaches ==
    ASSUME IInv, NEW t \in Thread, ReachOf(t), ConnectInvalid(t) \/ Connected(t)
    PROVE  ReachOf(t)' /\ Advances(t)
<1>0. /\ pc \in [Thread -> Pc] /\ found \in {"no", "yes"}
      /\ UNCHANGED <<tip, startTip, linked, seq>>
  BY ZenonT(30) DEF IInv, TypeOK, ConnectInvalid, Connected
<1>1. \A x, y : Worse(x, y)' <=> Worse(x, y)
  BY ZenonT(30), <1>0 DEF Worse, WorseIn
<1>2. CASE ConnectInvalid(t)
  <2>1. /\ pc[t] = "step" /\ pc'[t] = "connected" /\ found' = "yes" /\ mostWork' = mostWork
    BY ZenonT(30), <1>0, <1>2 DEF ConnectInvalid
  <2>2. PICK b \in Block : b \in Anc[mostWork] /\ InvalidBlockFound(b)
    BY ZenonT(30), <1>2 DEF ConnectInvalid, Successor
  <2>3. failed \subseteq failed' /\ b \in failed'
    BY ZenonT(30), <2>2, TreeFacts DEF InvalidBlockFound, Descendants
  <2>4. b \notin failed
    BY ZenonT(30), <2>1, <2>2 DEF ReachOf, IInv, LocalInv
  <2>5. ReachOf(t)'
    BY ZenonT(30), <1>0, <1>1, <2>1 DEF ReachOf, InStep
  <2>. QED BY ZenonT(30), <1>0, <2>3, <2>4, <2>5 DEF Advances
<1>3. CASE Connected(t)
  <2>1. /\ pc[t] = "connected" /\ pc'[t] \in {"find", "leave"} /\ progressed' = "yes"
        /\ mostWork' = (IF found = "yes" THEN NoBlock ELSE mostWork)
        /\ UNCHANGED <<found, failed>>
    BY ZenonT(30), <1>0, <1>3 DEF Connected, TargetAfterStep
  <2>2. ReachOf(t)'
    BY ZenonT(30), <1>0, <1>1, <2>1 DEF ReachOf, InStep
  <2>3. Way(t)' = Way(t)
    BY ZenonT(30), <1>0, <2>1 DEF Way
  <2>. QED BY ZenonT(30), <1>0, <2>1, <2>2, <2>3 DEF Advances, Onward
<1>. QED BY <1>2, <1>3

LEMMA ReachStep ==
    ASSUME IInv, VisibleInv, NewTipInv, CandidatesInv, ReachInv, NEW t \in Thread, Proceed(t)
    PROVE  /\ ReachInv'
           /\ \A u \in Thread : {pc[u], pc'[u]} \subseteq Activating => Advances(u)
<1>1. CASE pc[t] \notin Activating
  BY ZenonT(30), <1>1, ReachOutside
<1>2. CASE pc[t] \in Activating
  <2>1. ReachOf(t) /\ pc \in [Thread -> Pc]
    BY ZenonT(30) DEF ReachInv, IInv, TypeOK
  <2>2. ReachOf(t)' /\ (pc'[t] \in Activating => Advances(t))
    <3>1. CASE CoinsMismatch(t)
      <4>1. UNCHANGED <<tip, abc, failed, linked, seq, pc>>
        BY ZenonT(30), <3>1 DEF CoinsMismatch
      <4>2. ReachOf(t)' /\ Way(t)' = Way(t)
        BY ZenonT(30), <2>1, <4>1 DEF ReachOf, Way, Worse, WorseIn
      <4>. QED BY ZenonT(30), <4>1, <4>2 DEF Advances
    <3>2. CASE StepFails(t) \/ LeaveIdle(t) \/ FlushFails(t) \/ (Flush(t) /\ LoopDone)
      <4>1. pc' = [pc EXCEPT ![t] = "done"]
        BY ZenonT(30), <3>2 DEF StepFails, LeaveIdle, FlushFails, Flush, Return
      <4>2. pc'[t] = "done"
        BY ZenonT(30), <2>1, <4>1
      <4>. QED BY ZenonT(30), <4>2 DEF ReachOf, InStep
    <3>3. ~Accept(t) /\ ~ActivateBestChain(t)
      BY ZenonT(30), <1>2 DEF Accept, Done, AcceptHeader, RejectUnindexed, RejectBody,
         WriteFails, StoreBlock, KnownBlock, Link, LinkDone, NotifyHeaderTip, HeaderTip,
         InAcceptBlock, HeaderAccepted, BodyAccepted, ActivateBestChain
    <3>. QED BY ZenonT(30), <2>1, <3>1, <3>2, <3>3, LoopReaches, FindReaches, StepReaches,
                InvalidReaches DEF Proceed, Activate
  <2>3. ReachInv'
    BY ZenonT(30), <1>2, <2>2, ReachActs
  <2>4. ASSUME NEW u \in Thread, u # t PROVE pc[u] \notin Activating
    BY ZenonT(30), <1>2, <2>4 DEF IInv, LockInv
  <2>. QED BY ZenonT(30), <2>2, <2>3, <2>4
<1>. QED BY <1>1, <1>2

\* What the program does, and what nobody does.
LEMMA ReachStays ==
    ASSUME ReachInv, UNCHANGED <<tip, abc, failed, linked, seq>>,
           \A u \in Thread : pc'[u] = pc[u] \/ {pc[u], pc'[u]} \cap Activating = {}
    PROVE  /\ ReachInv'
           /\ \A u \in Thread : {pc[u], pc'[u]} \subseteq Activating => Advances(u)
<1>1. ASSUME NEW u \in Thread, pc'[u] = pc[u]
      PROVE  ReachOf(u)' /\ Way(u)' = Way(u)
  BY ZenonT(30), <1>1 DEF ReachInv, ReachOf, Way, Worse, WorseIn
<1>2. ASSUME NEW u \in Thread, pc'[u] \notin Activating PROVE ReachOf(u)'
  BY ZenonT(30), <1>2 DEF ReachOf, InStep
<1>. QED BY ZenonT(30), <1>1, <1>2 DEF ReachInv, Advances

LEMMA ReachNext ==
    ASSUME IInv, VisibleInv, MostWorkInv, CandidatesInv, ReachInv, StageInv, [Next]_vars
    PROVE  /\ ReachInv' /\ StageInv'
           /\ \A u \in Thread : {pc[u], pc'[u]} \subseteq Activating => Advances(u)
<1>1. ASSUME NEW t \in Thread, Proceed(t)
      PROVE  /\ ReachInv' /\ StageInv'
             /\ \A u \in Thread : {pc[u], pc'[u]} \subseteq Activating => Advances(u)
  BY ZenonT(30), <1>1, ReachStep, StageStep DEF MostWorkInv
<1>2. ASSUME Interrupt \/ UNCHANGED vars \/ \E t \in Thread, j \in Jobs : Begin(t, j)
      PROVE  /\ UNCHANGED <<tip, abc, failed, linked, seq, index, have>>
             /\ \A u \in Thread : pc'[u] = pc[u] \/ {pc[u], pc'[u]} \cap Activating = {}
  <2>1. /\ UNCHANGED <<tip, abc, failed, linked, seq, index, have>>
        /\ \/ pc' = pc
           \/ \E t \in Thread : pc[t] = "idle" /\ pc' = [pc EXCEPT ![t] = "accept"]
    BY ZenonT(30), <1>2 DEF Interrupt, Begin, vars
  <2>2. pc \in [Thread -> Pc]
    BY ZenonT(30) DEF IInv, TypeOK
  <2>. QED BY ZenonT(30), <2>1, <2>2
<1>3. StageInv /\ UNCHANGED <<index, have>> => StageInv'
  BY ZenonT(30) DEF StageInv
<1>. QED BY ZenonT(30), <1>1, <1>2, <1>3, ReachStays DEF Next

LEMMA ReachInit == Init => ReachInv /\ StageInv
<1>. SUFFICES ASSUME Init PROVE ReachInv /\ StageInv
  OBVIOUS
<1>1. pc = [t \in Thread |-> "idle"] /\ index = {Genesis} /\ have = {Genesis}
  BY ZenonT(30) DEF Init
<1>2. ReachInv
  BY ZenonT(30), <1>1 DEF ReachInv, ReachOf, InStep
<1>3. StageInv
  BY <1>1, TreeFacts DEF StageInv
<1>. QED BY <1>2, <1>3

LEMMA ReachInvariant == Spec => [](ReachInv /\ StageInv)
<1>1. /\ IInv /\ VisibleInv /\ MostWorkInv /\ CandidatesInv /\ ReachInv /\ StageInv
      /\ [Next]_vars
      => ReachInv' /\ StageInv'
  BY ZenonT(30), ReachNext
<1>. QED BY <1>1, ReachInit, Inductive, VisibleInvariant, MostWorkInvariant,
            CandidatesInvariant, PTL DEF Spec

\* As long as a call is under way, some call can go on, for any number of
\* threads and blocks and after any system error: no two calls wait for each
\* other, FindMostWorkChain always has one best candidate and
\* ActivateBestChainStep always has a next block.
THEOREM NoneStuck == Spec => []NoCallStuck
<1>1. IInv /\ VisibleInv /\ SeqInv /\ ReachInv /\ StageInv => NoCallStuck
  BY ZenonT(30), SomeGoesOn
<1>. QED BY <1>1, Inductive, VisibleInvariant, SeqInvariant, ReachInvariant, PTL

\* Each step of ActivateBestChain links a block or flags one, or shortens the
\* way to the target, or goes on along it: on a finite tree its loops end,
\* whatever blocks turn out invalid and whatever other threads submit.
THEOREM Advancing == Spec => ActivationAdvances
<1>1. /\ IInv /\ VisibleInv /\ MostWorkInv /\ CandidatesInv /\ ReachInv /\ StageInv
      /\ [Next]_vars
      => [\A t \in Thread : {pc[t], pc'[t]} \subseteq Activating => Advances(t)]_vars
  BY ZenonT(30), ReachNext
<1>. QED BY <1>1, Inductive, VisibleInvariant, MostWorkInvariant, CandidatesInvariant,
            ReachInvariant, PTL DEF Spec, ActivationAdvances

\* What the loops of ActivateBestChain use up, as numbers: the blocks not yet
\* linked and not yet flagged, the length of the way, the places up to the step.
Unsettled == Cardinality(Block \ linked) + Cardinality(Block \ failed)
Distance(t) == Cardinality(Way(t))
Place == [connected |-> 5, leave |-> 4, flush |-> 3, loop |-> 2, find |-> 1, step |-> 0]

\* In lexicographic order: one of the numbers falls and none before it changes,
\* or it was not the thread's step, or the program aborted.
Descends(t) ==
    /\ {Unsettled, Unsettled', Distance(t), Distance(t)'} \subseteq Nat
    /\ \/ Unsettled' < Unsettled
       \/ /\ Unsettled' = Unsettled
          /\ \/ Distance(t)' < Distance(t)
             \/ /\ Distance(t)' = Distance(t)
                /\ \/ Place[pc'[t]] < Place[pc[t]]
                   \/ pc'[t] = pc[t] /\ (Proceed(t) => process' = "aborted")

\* With every step of the thread inside ActivateBestChain the numbers descend.
ActivationEnds ==
    [][\A t \in Thread : {pc[t], pc'[t]} \subseteq Activating => Descends(t)]_vars

\* A part of a finite set is no larger, and smaller if it is not the whole.
LEMMA Fewer ==
    ASSUME NEW S, IsFiniteSet(S), NEW T \in SUBSET S
    PROVE  /\ Cardinality(S) \in Nat /\ Cardinality(T) \in Nat
           /\ Cardinality(T) <= Cardinality(S)
           /\ T # S => Cardinality(T) < Cardinality(S)
<1>1. /\ IsFiniteSet(T) /\ Cardinality(T) <= Cardinality(S)
      /\ Cardinality(S) = Cardinality(T) => S = T
  BY FS_Subset, Zenon
<1>2. Cardinality(S) \in Nat /\ Cardinality(T) \in Nat
  BY <1>1, FS_CardinalityType, Zenon
<1>. QED BY <1>1, <1>2, SMTT(30)

\* The way is a set of blocks.
LEMMA WayType ==
    ASSUME NEW t \in Thread, TypeOK
    PROVE  Way(t) \subseteq MaybeBlock
<1>1. CASE mostWork = NoBlock \/ (pc[t] = "connected" /\ found = "yes")
  BY ZenonT(30), <1>1 DEF Way
<1>2. CASE ~(mostWork = NoBlock \/ (pc[t] = "connected" /\ found = "yes"))
  <2>1. mostWork \in Block /\ tip \in Block
    BY ZenonT(30), <1>2 DEF TypeOK
  <2>2. Anc[mostWork] \subseteq Block /\ Anc[tip] \subseteq Block
    BY ZenonT(30), <2>1, TreeFacts
  <2>3. Way(t) = (Anc[tip] \ Anc[mostWork]) \cup (Anc[mostWork] \ Anc[tip])
    BY ZenonT(30), <1>2 DEF Way
  <2>. QED BY ZenonT(30), <2>2, <2>3
<1>. QED BY ZenonT(30), <1>1, <1>2

\* A step of ActivateBestChain moves the tip or goes to another place.
LEMMA StepMoves ==
    ASSUME NEW t \in Thread, IInv, pc[t] \in Activating, UNCHANGED <<tip, pc[t]>>,
           Proceed(t)
    PROVE  process' = "aborted"
<1>1. pc \in [Thread -> Pc] /\ tip \in Block /\ mostWork \in MaybeBlock
  BY ZenonT(30) DEF IInv, TypeOK
<1>2. \A p \in Pc : pc' = [pc EXCEPT ![t] = p] => pc[t] = p
  BY ZenonT(30), <1>1
<1>3. ~LoopBegin(t) /\ ~Find(t) /\ ~ConnectInvalid(t) /\ ~Connected(t) /\ ~LeaveMoved(t)
  <2>1. ~LoopBegin(t) /\ ~ConnectInvalid(t) /\ ~LeaveMoved(t)
    BY SMTT(30), <1>2 DEF LoopBegin, ConnectInvalid, LeaveMoved
  <2>2. ~Find(t)
    BY SMTT(30), <1>2 DEF Find
  <2>3. ~Connected(t)
    BY SMTT(30), <1>2 DEF Connected
  <2>. QED BY <2>1, <2>2, <2>3
<1>4. ~StepFails(t) /\ ~LeaveIdle(t) /\ ~Flush(t) /\ ~FlushFails(t)
  <2>1. ~\E outcome : Return(t, outcome)
    BY SMTT(30), <1>2 DEF Return
  <2>2. ~StepFails(t) /\ ~LeaveIdle(t) /\ ~FlushFails(t)
    BY ZenonT(30), <2>1 DEF StepFails, LeaveIdle, FlushFails
  <2>3. ~Flush(t)
    BY SMTT(30), <1>2, <2>1 DEF Flush
  <2>. QED BY <2>2, <2>3
<1>5. \A b \in Block : b # Genesis => Prev[b] \in Block /\ Prev[b] # b
  <2>. SUFFICES ASSUME NEW b \in Block \ {Genesis} PROVE Prev[b] \in Block /\ Prev[b] # b
    BY ZenonT(30)
  <2>1. Prev[b] \in Block /\ b \notin Anc[Prev[b]] /\ b \in Anc[b]
    BY ZenonT(30), ParentBelow, TreeFacts
  <2>. QED BY ZenonT(30), <2>1
<1>6. ~DisconnectTip(t)
  <2>. SUFFICES ASSUME DisconnectTip(t) PROVE FALSE
    OBVIOUS
  <2>1. pc[t] = "step" /\ tip \notin Anc[mostWork] /\ tip' = Prev[tip]
    BY ZenonT(30) DEF DisconnectTip, SetTip, Above
  <2>2. mostWork \in Block
    BY ZenonT(30), <1>1, <2>1 DEF IInv, LocalInv
  <2>3. tip # Genesis
    BY ZenonT(30), <2>1, <2>2, TreeFacts
  <2>. QED BY ZenonT(30), <1>1, <1>5, <2>1, <2>3
<1>7. ~ConnectTip(t)
  BY ZenonT(30), <1>1, <1>5 DEF ConnectTip, SetTip, Successor
<1>8. ~Accept(t) /\ ~ActivateBestChain(t)
  BY ZenonT(30) DEF Accept, Done, AcceptHeader, RejectUnindexed, RejectBody,
     WriteFails, StoreBlock, KnownBlock, Link, LinkDone, NotifyHeaderTip, HeaderTip,
     InAcceptBlock, HeaderAccepted, BodyAccepted, ActivateBestChain
<1>9. CoinsMismatch(t)
  BY ZenonT(30), <1>3, <1>4, <1>6, <1>7, <1>8 DEF Proceed, Activate
<1>. QED BY ZenonT(30), <1>9 DEF CoinsMismatch

\* A step that advances descends.
LEMMA AdvanceDescends ==
    ASSUME NEW t \in Thread, IsFiniteSet(Block), IInv, IInv',
           pc[t] \in Activating, Advances(t)
    PROVE  Descends(t)
<1>1. IsFiniteSet(MaybeBlock)
  BY ZenonT(30), FS_AddElement
<1>2. Way(t) \in SUBSET MaybeBlock /\ Way(t)' \in SUBSET MaybeBlock
  <2>1. Way(t) \in SUBSET MaybeBlock
    BY ZenonT(30), WayType DEF IInv
  <2>2. (TypeOK => Way(t) \subseteq MaybeBlock)'
    BY WayType, PTL
  <2>. QED BY ZenonT(30), <2>1, <2>2 DEF IInv
<1>3. IsFiniteSet(Way(t)) /\ Cardinality(Way(t)) \in Nat
      /\ IsFiniteSet(Way(t)') /\ Cardinality(Way(t)') \in Nat
  BY ZenonT(30), <1>1, <1>2, FS_Subset, FS_CardinalityType
<1> DEFINE L == Block \ linked
           F == Block \ failed
<1>4. /\ L \in SUBSET Block /\ F \in SUBSET Block
      /\ L' \in SUBSET Block /\ F' \in SUBSET Block
  BY ZenonT(30)
<1>5. /\ IsFiniteSet(L) /\ Cardinality(L) \in Nat
      /\ IsFiniteSet(F) /\ Cardinality(F) \in Nat
      /\ Cardinality(L') \in Nat /\ Cardinality(F') \in Nat
  BY ZenonT(30), <1>4, FS_Subset, FS_CardinalityType
<1>6. /\ Unsettled = Cardinality(L) + Cardinality(F)
      /\ Unsettled' = Cardinality(L') + Cardinality(F')
      /\ Distance(t) = Cardinality(Way(t)) /\ Distance(t)' = Cardinality(Way(t)')
  BY DEF Unsettled, Distance
<1>7. {Unsettled, Unsettled', Distance(t), Distance(t)'} \subseteq Nat
  BY SMTT(30), <1>3, <1>5, <1>6
<1>8. CASE /\ linked \subseteq linked' /\ failed \subseteq failed'
           /\ linked' # linked \/ failed' # failed
  <2>1. L' \in SUBSET L /\ F' \in SUBSET F /\ (L' # L \/ F' # F)
    BY ZenonT(30), <1>8 DEF IInv, TypeOK
  <2>2. /\ Cardinality(L') <= Cardinality(L)
        /\ L' # L => Cardinality(L') < Cardinality(L)
    BY ZenonT(30), <1>5, <2>1, Fewer
  <2>3. /\ Cardinality(F') <= Cardinality(F)
        /\ F' # F => Cardinality(F') < Cardinality(F)
    BY ZenonT(30), <1>5, <2>1, Fewer
  <2>. HIDE DEF L, F
  <2>4. Unsettled' < Unsettled
    BY SMTT(30), <1>5, <1>6, <2>1, <2>2, <2>3
  <2>. QED BY ZenonT(30), <1>7, <2>4 DEF Descends
<1>9. CASE UNCHANGED <<linked, failed>>
  <2>1. Unsettled' = Unsettled
    BY ZenonT(30), <1>6, <1>9
  <2>2. CASE Way(t)' \subseteq Way(t) /\ Way(t)' # Way(t)
    <3>1. Way(t)' \in SUBSET Way(t)
      BY ZenonT(30), <2>2
    <3>2. Cardinality(Way(t)') < Cardinality(Way(t))
      BY ZenonT(30), <1>3, <2>2, <3>1, Fewer
    <3>3. Distance(t)' < Distance(t)
      BY ZenonT(30), <1>6, <3>2
    <3>. QED BY ZenonT(30), <1>7, <2>1, <3>3 DEF Descends
  <2>3. CASE /\ Way(t)' = Way(t)
             /\ <<pc[t], pc'[t]>> \in Onward \/ UNCHANGED <<tip, pc[t]>>
    <3>1. Distance(t)' = Distance(t)
      BY ZenonT(30), <1>6, <2>3
    <3>2. \/ Place[pc'[t]] < Place[pc[t]]
          \/ pc'[t] = pc[t] /\ (Proceed(t) => process' = "aborted")
      <4>1. CASE <<pc[t], pc'[t]>> \in Onward
        BY SMTT(30), <4>1 DEF Onward, Place
      <4>2. CASE UNCHANGED <<tip, pc[t]>>
        BY ZenonT(30), <4>2, StepMoves
      <4>. QED BY ZenonT(30), <4>1, <4>2, <2>3
    <3>. QED BY ZenonT(30), <1>7, <2>1, <3>1, <3>2 DEF Descends
  <2>4. \/ Way(t)' \subseteq Way(t) /\ Way(t)' # Way(t)
        \/ /\ Way(t)' = Way(t)
           /\ <<pc[t], pc'[t]>> \in Onward \/ UNCHANGED <<tip, pc[t]>>
        \/ /\ linked \subseteq linked' /\ failed \subseteq failed'
           /\ linked' # linked \/ failed' # failed
    BY ZenonT(30) DEF Advances
  <2>. QED BY ZenonT(30), <1>8, <2>2, <2>3, <2>4
<1>. QED BY ZenonT(30), <1>8, <1>9 DEF Advances

\* On a finite tree the loops of ActivateBestChain have a variant: three
\* natural numbers that fall in lexicographic order with every step of the
\* thread inside it, so no run of ActivateBestChain takes steps for ever.
THEOREM Variant ==
    ASSUME IsFiniteSet(Block)
    PROVE  Spec => ActivationEnds
<1>1. /\ IInv /\ IInv'
      /\ [\A t \in Thread : {pc[t], pc'[t]} \subseteq Activating => Advances(t)]_vars
      => [\A t \in Thread : {pc[t], pc'[t]} \subseteq Activating => Descends(t)]_vars
  BY ZenonT(30), AdvanceDescends
<1>. QED BY <1>1, Inductive, Advancing, PTL DEF ActivationAdvances, ActivationEnds
=============================================================================
