-------------------------- MODULE ChainmanMostWork ---------------------------
(***************************************************************************)
(* Proofs about Chainman, second part: once every call has returned the    *)
(* tip is the best of all stored sound chains.  Two arguments meet here.   *)
(* No stored block is forgotten: it is linked, or its parent is missing    *)
(* (HeldInv).  And no linked block is overlooked: for each one a call is   *)
(* still to run ActivateBestChain, or the call that runs it has chosen a   *)
(* target that is no worse (ServeInv).  Then the asserts of the code, and  *)
(* what the listeners are told.                                            *)
(***************************************************************************)
EXTENDS ChainmanProofs, WellFoundedInduction

USE DEF locks, headers, flags, data, chain, abc, call, tips, env,
        Pc, Activating, Locked, MaybeBlock

\* The blocks no rule refuses, with all their ancestors.
Sound(b) == \A a \in Anc[b] : Verdict[a] = "valid"

\* A stored block is linked, or it waits for its turn or for its parent.
Held(b) ==
    \/ b \in linked
    \/ \E i \in 1 .. Len(queue) : queue[i] = b
    \/ \E i \in 1 .. Len(unlinked[Prev[b]]) : unlinked[Prev[b]][i] = b

HeldInv ==
    /\ \A b \in have : Sound(b) => Held(b)
    /\ queue # <<>> => \E t \in Thread : pc[t] = "link"
    /\ \A t \in Thread : pc[t] = "link" => job[t].op = "block"

\* The local that decides whether the outer loop goes on.
NewTipInv ==
    \A t \in Thread :
        \/ pc[t] = "flush"
        \/ pc[t] \in {"find", "leave"} /\ progressed = "yes"
        => newTip = tip

\* A call that will still run ActivateBestChain.
Serving(t) == pc[t] \in {"link", "notify", "header_tip", "abc"} /\ job[t].op = "block"
Coming == \E t \in Thread : Serving(t)

\* The target, once chosen, is no worse than b.
Chosen(b) == mostWork = NoBlock \/ ~Worse(mostWork, b)

\* The ActivateBestChain t is in will not return with a tip worse than b.
Pursued(t, b) ==
    /\ pc[t] = "leave" /\ progressed = "no" => ~Worse(tip, b)
    /\ (pc[t] = "connected" => found = "no") /\ (pc[t] = "leave" => progressed = "yes")
          => Chosen(b)

Served(b) ==
    \/ Coming
    \/ /\ \A t \in Thread : pc[t] \in Activating => Pursued(t, b)
       /\ (\A t \in Thread : pc[t] \notin Activating) => ~Worse(tip, b)

ServeInv ==
    fatal = "no" /\ interrupted = "no" => \A b \in linked : Sound(b) => Served(b)

MostWorkInv == HeldInv /\ NewTipInv /\ ServeInv

-----------------------------------------------------------------------------
(* No stored block is forgotten. *)

LEMMA SameHeld ==
    ASSUME HeldInv, UNCHANGED <<have, linked, queue, unlinked>>,
           \A u \in Thread : pc'[u] = "link" <=> pc[u] = "link",
           \A u \in Thread : pc[u] = "link" => job'[u] = job[u]
    PROVE  HeldInv'
<1>1. \A b : Held(b) => Held(b)'
  BY Zenon DEF Held
<1>2. \A b \in have' : Sound(b) => Held(b)'
  BY Zenon, <1>1 DEF HeldInv
<1>3. queue' # <<>> => \E t \in Thread : pc'[t] = "link"
  BY Zenon DEF HeldInv
<1>4. \A t \in Thread : pc'[t] = "link" => job'[t].op = "block"
  BY Zenon DEF HeldInv
<1>. QED BY Zenon, <1>2, <1>3, <1>4 DEF HeldInv

\* The steps of the loop of ReceivedBlockTransactions are the only ones that
\* take a block from where it waits, and they link it.
LEMMA LinkHeld ==
    ASSUME IInv, HeldInv, NEW t \in Thread, Link(t)
    PROVE  HeldInv'
<1>. DEFINE b == Head(queue)
            w == unlinked[b]
<1>1. /\ UNCHANGED <<have, job, pc>> /\ pc[t] = "link" /\ queue # <<>>
      /\ linked' = linked \cup {b} /\ queue' = Tail(queue) \o w
      /\ unlinked' = [unlinked EXCEPT ![b] = <<>>]
  BY Zenon DEF Link, Waiting
<1>2. queue \in Seq(Block) /\ b \in Block /\ unlinked \in [Block -> Seq(Block)]
  <2>1. queue \in Seq(Block) /\ unlinked \in [Block -> Seq(Block)]
    BY Zenon DEF IInv, TypeOK
  <2>. QED BY SMTT(30), <1>1, <2>1
<1>3. w \in Seq(Block) /\ b = queue[1]
  BY SMTT(30), <1>1, <1>2
<1>. HIDE DEF b, w
<1>4. /\ Tail(queue) \in Seq(Block) /\ Len(Tail(queue)) = Len(queue) - 1
      /\ \A i \in 1 .. Len(queue) - 1 : Tail(queue)[i] = queue[i + 1]
      /\ Len(queue) \in Nat
  BY SMTT(30), <1>1, <1>2
<1>5. \A i \in 2 .. Len(queue) : \E k \in 1 .. Len(queue') : queue'[k] = queue[i]
  <2>. SUFFICES ASSUME NEW i \in 2 .. Len(queue)
                PROVE  \E k \in 1 .. Len(queue') : queue'[k] = queue[i]
    OBVIOUS
  <2>1. i - 1 \in 1 .. Len(Tail(queue)) /\ Tail(queue)[i - 1] = queue[i]
    BY SMTT(30), <1>4
  <2>2. i - 1 \in 1 .. Len(queue') /\ queue'[i - 1] = queue[i]
    BY SMTT(30), <1>1, <1>3, <1>4, <2>1
  <2>. QED BY <2>2
<1>6. \A j \in 1 .. Len(w) : \E k \in 1 .. Len(queue') : queue'[k] = w[j]
  <2>. SUFFICES ASSUME NEW j \in 1 .. Len(w)
                PROVE  \E k \in 1 .. Len(queue') : queue'[k] = w[j]
    OBVIOUS
  <2>. DEFINE k == Len(Tail(queue)) + j
  <2>1. k \in 1 .. Len(queue') /\ queue'[k] = w[j]
    BY SMTT(30), <1>1, <1>3, <1>4
  <2>. QED BY <2>1
<1>7. ASSUME NEW x \in have, Held(x) PROVE Held(x)'
  <2>1. CASE x \in linked
    BY <1>1, <2>1 DEF Held
  <2>2. ASSUME NEW i \in 1 .. Len(queue), queue[i] = x PROVE Held(x)'
    <3>1. CASE i = 1
      BY <1>1, <1>3, <2>2, <3>1 DEF Held
    <3>2. CASE i # 1
      <4>1. i \in 2 .. Len(queue)
        BY SMTT(30), <1>4, <3>2
      <4>. QED BY Zenon, <1>5, <2>2, <4>1 DEF Held
    <3>. QED BY <3>1, <3>2
  <2>3. ASSUME NEW i \in 1 .. Len(unlinked[Prev[x]]), unlinked[Prev[x]][i] = x
        PROVE  Held(x)'
    <3>1. CASE Prev[x] = b
      <4>1. i \in 1 .. Len(w) /\ w[i] = x
        BY Zenon, <2>3, <3>1 DEF w
      <4>. QED BY Zenon, <1>6, <4>1 DEF Held
    <3>2. CASE Prev[x] # b /\ x # Genesis
      <4>1. Prev[x] \in Block
        BY <3>2, TreeFacts DEF IInv, TypeOK
      <4>2. unlinked'[Prev[x]] = unlinked[Prev[x]]
        BY <1>1, <1>2, <3>2, <4>1
      <4>. QED BY Zenon, <2>3, <4>2 DEF Held
    <3>3. CASE x = Genesis
      BY <2>1, <3>3 DEF IInv, LinkedInv
    <3>. QED BY <3>1, <3>2, <3>3
  <2>. QED BY Zenon, <1>7, <2>1, <2>2, <2>3 DEF Held
<1>. QED BY Zenon, <1>1, <1>7 DEF HeldInv

\* A block with a linked parent starts the queue, any other waits for its
\* parent, unless the parent is known to be invalid.
LEMMA StoreHeld ==
    ASSUME IInv, HeldInv, NEW t \in Thread, StoreBlock(t)
    PROVE  HeldInv'
<1>0. PICK b : b = job[t].blk
  OBVIOUS
<1>. DEFINE p == Prev[b]
<1>1. /\ UNCHANGED <<linked, job, failed>> /\ have' = have \cup {b} /\ csMain = NoThread
      /\ b \notin have /\ job[t].op = "block" /\ pc[t] = "accept"
      /\ \/ /\ p \in linked /\ queue' = <<b>> /\ pc' = [pc EXCEPT ![t] = "link"]
            /\ unlinked' = unlinked
         \/ /\ p \notin linked /\ queue' = queue /\ pc' = [pc EXCEPT ![t] = "notify"]
            /\ \/ p \in failed /\ unlinked' = unlinked
               \/ p \notin failed /\ unlinked' = [unlinked EXCEPT ![p] = Append(@, b)]
  BY <1>0, Zenon DEF StoreBlock, BodyAccepted, HeaderAccepted, InAcceptBlock
<1>2. /\ pc \in [Thread -> Pc] /\ unlinked \in [Block -> Seq(Block)]
      /\ b \in Block
  BY Zenon, <1>0, JobFacts DEF IInv, TypeOK
<1>3. queue = <<>>
  <2>1. \A u \in Thread : pc[u] # "link"
    BY <1>1, TreeFacts DEF IInv, LockInv
  <2>. QED BY Zenon, <2>1 DEF HeldInv
<1>. HIDE DEF p
<1>4. Genesis \in linked /\ Genesis \in have /\ linked \subseteq have /\ have \subseteq Block
  BY Zenon DEF IInv, LinkedInv, TypeOK
<1>5. b # Genesis /\ p \in Block /\ b \notin linked
  BY <1>1, <1>2, <1>4, TreeFacts DEF p
<1>6. ASSUME NEW x, Held(x), x \in linked \/ unlinked'[Prev[x]] = unlinked[Prev[x]]
      PROVE  Held(x)'
  <2>1. x \in linked \/ \E i \in 1 .. Len(unlinked[Prev[x]]) : unlinked[Prev[x]][i] = x
    BY SMTT(30), <1>3, <1>6 DEF Held
  <2>. QED BY Zenon, <1>1, <1>6, <2>1 DEF Held
<1>7. ASSUME p \notin linked, unlinked' = [unlinked EXCEPT ![p] = Append(unlinked[p], b)]
      PROVE  Held(b)' /\ \A x \in have : Held(x) => Held(x)'
  <2>. DEFINE s == unlinked[p]
  <2>1. /\ s \in Seq(Block) /\ unlinked'[p] = Append(s, b)
        /\ \A q \in Block : q # p => unlinked'[q] = unlinked[q]
    BY <1>2, <1>5, <1>7
  <2>. HIDE DEF s
  <2>2. /\ Len(Append(s, b)) = Len(s) + 1 /\ Append(s, b)[Len(s) + 1] = b
        /\ Len(s) \in Nat /\ \A i \in 1 .. Len(s) : Append(s, b)[i] = s[i]
    BY SMTT(30), <1>2, <2>1
  <2>3. Held(b)'
    <3>1. Len(s) + 1 \in 1 .. Len(unlinked'[p]) /\ unlinked'[p][Len(s) + 1] = b
      BY SMTT(30), <2>1, <2>2
    <3>. QED BY Zenon, <3>1 DEF Held, p
  <2>4. ASSUME NEW x \in have, Held(x), x \notin linked, Prev[x] = p PROVE Held(x)'
    <3>1. PICK i \in 1 .. Len(s) : s[i] = x
      BY SMTT(30), <1>3, <2>4 DEF Held, s
    <3>2. i \in 1 .. Len(unlinked'[p]) /\ unlinked'[p][i] = x
      BY SMTT(30), <2>1, <2>2, <3>1
    <3>. QED BY Zenon, <2>4, <3>2 DEF Held
  <2>5. ASSUME NEW x \in have, x \notin linked PROVE Prev[x] \in Block
    BY <1>4, <2>5, TreeFacts
  <2>. QED BY Zenon, <1>6, <2>1, <2>3, <2>4, <2>5
<1>8. CASE p \in linked
  <2>1. queue' = <<b>> /\ pc' = [pc EXCEPT ![t] = "link"] /\ unlinked' = unlinked
    BY Zenon, <1>1, <1>8
  <2>2. Held(b)'
    BY SMTT(30), <2>1 DEF Held
  <2>3. \A x \in have' : Sound(x) => Held(x)'
    BY Zenon, <1>1, <1>6, <2>1, <2>2 DEF HeldInv
  <2>4. /\ \E u \in Thread : pc'[u] = "link"
        /\ \A u \in Thread : pc'[u] = "link" => job'[u].op = "block"
    BY Zenon, <1>1, <1>2, <2>1 DEF HeldInv
  <2>. QED BY Zenon, <2>3, <2>4 DEF HeldInv, Sound
<1>9. CASE p \notin linked
  <2>1. queue' = <<>> /\ pc' = [pc EXCEPT ![t] = "notify"]
    BY Zenon, <1>1, <1>3, <1>9
  <2>2. Sound(b) => p \notin failed
    <3>1. Sound(b) => Anc[b] \cap failed = {}
      BY <1>2, ValidNotFailed DEF Sound, IInv
    <3>2. p \in Anc[b]
      BY <1>2, <1>5, ParentWork DEF p
    <3>. QED BY <3>1, <3>2
  <2>3. \A x \in have' : Sound(x) => Held(x)'
    <3>1. CASE unlinked' = unlinked /\ p \in failed
      BY Zenon, <1>1, <1>6, <2>2, <3>1 DEF HeldInv
    <3>2. CASE unlinked' = [unlinked EXCEPT ![p] = Append(unlinked[p], b)]
      BY Zenon, <1>1, <1>7, <1>9, <3>2 DEF HeldInv
    <3>. QED BY Zenon, <1>1, <1>9, <3>1, <3>2
  <2>4. \A u \in Thread : pc'[u] = "link" => job'[u].op = "block"
    BY Zenon, <1>1, <1>2, <2>1 DEF HeldInv
  <2>. QED BY Zenon, <2>1, <2>3, <2>4 DEF HeldInv, Sound
<1>. QED BY <1>8, <1>9

LEMMA HeldStep ==
    ASSUME IInv, HeldInv, NEW t \in Thread, Proceed(t)
    PROVE  HeldInv'
<1>. pc \in [Thread -> Pc] /\ job \in [Thread -> Jobs \cup {NoJob}]
  BY Zenon DEF IInv, TypeOK
<1>1. CASE LinkDone(t)
  <2>1. /\ UNCHANGED <<have, linked, queue, unlinked, job>> /\ queue = <<>>
        /\ pc' = [pc EXCEPT ![t] = "notify"]
    BY <1>1, Zenon DEF LinkDone
  <2>2. \A u \in Thread : pc'[u] = "link" => pc[u] = "link"
    BY <2>1, Zenon
  <2>. QED BY Zenon, <2>1, <2>2 DEF HeldInv, Held
<1>2. ASSUME \/ Done(t) \/ AcceptHeader(t) \/ RejectUnindexed(t) \/ RejectBody(t)
             \/ WriteFails(t) \/ KnownBlock(t) \/ NotifyHeaderTip(t) \/ HeaderTip(t)
      PROVE  HeldInv'
  <2>1. /\ UNCHANGED <<have, linked, queue, unlinked>>
        /\ job' = job \/ job' = [job EXCEPT ![t] = NoJob]
        /\ pc[t] \in {"done", "accept", "notify", "header_tip"}
        /\ \E p \in {"idle", "done", "notify", "header_tip", "abc"} : pc' = [pc EXCEPT ![t] = p]
    BY <1>2, Zenon DEF Done, AcceptHeader, RejectUnindexed, RejectBody, WriteFails,
       KnownBlock, NotifyHeaderTip, HeaderTip, Reject, InAcceptBlock, HeaderAccepted,
       BodyAccepted, AfterNotify
  <2>2. \A u \in Thread : pc'[u] = "link" <=> pc[u] = "link"
    BY <2>1, Zenon
  <2>3. \A u \in Thread : pc[u] = "link" => job'[u] = job[u]
    BY <2>1, Zenon
  <2>. QED BY <2>1, <2>2, <2>3, SameHeld, Zenon
<1>3. ASSUME Activate(t) PROVE HeldInv'
  <2>1. UNCHANGED <<have, linked, queue, unlinked, job>>
    BY <1>3, Zenon DEF Activate, ActivateBestChain, LoopBegin, Find, CoinsMismatch,
       DisconnectTip, ConnectTip, ConnectInvalid, StepFails, Connected, LeaveIdle,
       LeaveMoved, Flush, FlushFails
  <2>2. \/ pc' = pc
        \/ /\ pc[t] \in Activating \cup {"abc"}
           /\ \E p \in Activating \cup {"done"} : pc' = [pc EXCEPT ![t] = p]
    BY <1>3, Zenon DEF Activate, ActivateBestChain, LoopBegin, Find, CoinsMismatch,
       DisconnectTip, ConnectTip, ConnectInvalid, StepFails, Connected, LeaveIdle,
       LeaveMoved, Flush, FlushFails, Return
  <2>3. \A u \in Thread : pc'[u] = "link" <=> pc[u] = "link"
    BY <2>2, Zenon
  <2>. QED BY <2>1, <2>3, SameHeld, Zenon
<1>. QED BY <1>1, <1>2, <1>3, StoreHeld, LinkHeld, Zenon DEF Proceed, Accept

-----------------------------------------------------------------------------
(* No linked block is overlooked. *)

\* The calls that are not in ActivateBestChain: none that is to run it gives
\* up, and the one in it goes on where it was.
LEMMA ServeStays ==
    ASSUME NewTipInv, ServeInv, UNCHANGED <<tip, abc, linked, seq>>,
           fatal' = "no" /\ interrupted' = "no" => fatal = "no" /\ interrupted = "no",
           \A u \in Thread : pc'[u] = pc[u] \/ {pc[u], pc'[u]} \cap Activating = {},
           Coming => Coming'
    PROVE  NewTipInv' /\ ServeInv'
<1>1. \A u \in Thread : pc'[u] \in Activating => pc'[u] = pc[u]
  BY Zenon
<1>2. \A u \in Thread : pc[u] \in Activating => pc'[u] = pc[u]
  BY Zenon
<1>3. NewTipInv'
  BY <1>1 DEF NewTipInv
<1>4. ASSUME NEW b, Served(b) PROVE Served(b)'
  <2>1. CASE Coming
    BY <2>1, Zenon DEF Served
  <2>2. CASE ~Coming
    <3>1. \A u \in Thread : pc'[u] \in Activating => Pursued(u, b)'
      BY Zenon, <1>1, <1>4, <2>2 DEF Served, Pursued, Chosen, Worse, WorseIn
    <3>2. (\A u \in Thread : pc'[u] \notin Activating) => ~Worse(tip, b)'
      BY Zenon, <1>2, <1>4, <2>2 DEF Served, Worse, WorseIn
    <3>. QED BY <3>1, <3>2, Zenon DEF Served
  <2>. QED BY <2>1, <2>2
<1>. QED BY Zenon, <1>3, <1>4 DEF ServeInv, Sound

LEMMA AcceptServes ==
    ASSUME IInv, HeldInv, NewTipInv, ServeInv, NEW t \in Thread,
           \/ Done(t) \/ AcceptHeader(t) \/ RejectUnindexed(t) \/ RejectBody(t)
           \/ WriteFails(t) \/ StoreBlock(t) \/ KnownBlock(t) \/ LinkDone(t)
           \/ NotifyHeaderTip(t) \/ HeaderTip(t) \/ CoinsMismatch(t)
    PROVE  NewTipInv' /\ ServeInv'
<1>. pc \in [Thread -> Pc] /\ job \in [Thread -> Jobs \cup {NoJob}]
  BY Zenon DEF IInv, TypeOK
<1>1. /\ UNCHANGED <<tip, abc, linked, seq, interrupted>>
      /\ job' = job \/ (pc[t] = "done" /\ job' = [job EXCEPT ![t] = NoJob])
      /\ fatal' \in {fatal, "yes"}
  BY Zenon DEF Done, AcceptHeader, RejectUnindexed, RejectBody, WriteFails, StoreBlock,
     KnownBlock, LinkDone, NotifyHeaderTip, HeaderTip, CoinsMismatch, FatalError
<1>2. \/ pc' = pc
      \/ /\ pc[t] \in {"done", "accept"}
         /\ \E p \in {"idle", "done", "notify", "link"} : pc' = [pc EXCEPT ![t] = p]
      \/ /\ pc[t] \in {"link", "notify", "header_tip"}
         /\ \E p \in {"notify", "header_tip", "abc", "done"} :
               pc' = [pc EXCEPT ![t] = p] /\ (p = "done" => job[t].op # "block")
  BY Zenon DEF Done, AcceptHeader, RejectUnindexed, RejectBody, WriteFails, StoreBlock,
     KnownBlock, LinkDone, NotifyHeaderTip, HeaderTip, CoinsMismatch, Reject,
     InAcceptBlock, HeaderAccepted, BodyAccepted, AfterNotify
<1>3. \A u \in Thread : pc'[u] = pc[u] \/ {pc[u], pc'[u]} \cap Activating = {}
  BY <1>2
<1>4. \A u \in Thread : Serving(u) => Serving(u)'
  BY Zenon, <1>1, <1>2 DEF Serving
<1>5. Coming => Coming'
  BY Zenon, <1>4 DEF Coming
<1>6. fatal' = "no" /\ interrupted' = "no" => fatal = "no" /\ interrupted = "no"
  BY <1>1
<1>. QED BY Zenon, <1>1, <1>3, <1>5, <1>6, ServeStays

\* A block that is linked has a call behind it.
LEMMA LinkServes ==
    ASSUME IInv, HeldInv, NewTipInv, NEW t \in Thread, Link(t)
    PROVE  NewTipInv' /\ ServeInv'
<1>1. UNCHANGED <<tip, abc, pc, job>> /\ pc[t] = "link"
  BY Zenon DEF Link
<1>2. Serving(t)'
  BY Zenon, <1>1 DEF Serving, HeldInv
<1>. QED BY Zenon, <1>1, <1>2 DEF NewTipInv, ServeInv, Served, Coming

\* A step of the one call in ActivateBestChain.
LEMMA ServeActs ==
    ASSUME IInv, ServeInv, NEW t \in Thread, Proceed(t), pc[t] \in Activating,
           UNCHANGED <<linked, job, seq, interrupted>>, fatal' \in {fatal, "yes"},
           \E p \in Pc : pc' = [pc EXCEPT ![t] = p],
           pc'[t] = "flush" \/ (pc'[t] \in {"find", "leave"} /\ progressed' = "yes")
              => newTip' = tip',
           ASSUME NEW b \in linked, fatal = "no", interrupted = "no", fatal' = "no",
                  Sound(b), Pursued(t, b)
           PROVE  IF pc'[t] \in Activating THEN Pursued(t, b)' ELSE ~Worse(tip', b)
    PROVE  NewTipInv' /\ ServeInv'
<1>. pc \in [Thread -> Pc] /\ fatal \in {"no", "yes"}
  BY Zenon DEF IInv, TypeOK
<1>1. \A u \in Thread \ {t} : pc'[u] = pc[u] /\ pc'[u] \notin Activating
  <2>1. \A u \in Thread \ {t} : pc[u] \notin Activating
    BY TreeFacts DEF IInv, LockInv
  <2>. QED BY <2>1, Zenon
<1>2. NewTipInv'
  BY <1>1 DEF NewTipInv
<1>3. \A x, y : Worse(x, y)' <=> Worse(x, y)
  BY Zenon DEF Worse, WorseIn
<1>4. Coming => Coming'
  BY Zenon, <1>1 DEF Coming, Serving
<1>5. ASSUME NEW b \in linked, fatal = "no", interrupted = "no", fatal' = "no",
             Sound(b), Served(b), ~Coming
      PROVE  Served(b)'
  <2>1. Pursued(t, b)
    BY <1>5, Zenon DEF Served
  <2>2. IF pc'[t] \in Activating THEN Pursued(t, b)' ELSE ~Worse(tip', b)
    BY <1>5, <2>1, Zenon
  <2>3. \A u \in Thread : pc'[u] \in Activating => Pursued(u, b)'
    BY Zenon, <1>1, <2>2
  <2>4. (\A u \in Thread : pc'[u] \notin Activating) => ~Worse(tip, b)'
    BY Zenon, <1>3, <2>2
  <2>. QED BY Zenon, <2>3, <2>4 DEF Served
<1>6. ServeInv'
  <2>. SUFFICES ASSUME fatal' = "no", interrupted' = "no", NEW b \in linked, Sound(b)
                PROVE  Served(b)'
    BY Zenon DEF ServeInv, Sound
  <2>1. fatal = "no" /\ interrupted = "no"
    OBVIOUS
  <2>2. Served(b)
    BY Zenon, <2>1 DEF ServeInv
  <2>3. CASE Coming
    BY Zenon, <1>4, <2>3 DEF Served
  <2>. QED BY <1>5, <2>1, <2>2, <2>3
<1>. QED BY <1>2, <1>6

LEMMA BeginServes ==
    ASSUME IInv, VisibleInv, NewTipInv, NEW t \in Thread, ActivateBestChain(t)
    PROVE  NewTipInv' /\ ServeInv'
<1>1. /\ UNCHANGED <<tip, abc>> /\ chainMutex = NoThread
      /\ pc' = [pc EXCEPT ![t] = "loop"] /\ pc \in [Thread -> Pc]
  BY Zenon DEF ActivateBestChain, IInv, TypeOK
<1>2. mostWork' = NoBlock /\ \A u \in Thread \ {t} : pc'[u] \notin Activating
  BY <1>1, TreeFacts DEF IInv, LockInv, VisibleInv
<1>3. pc'[t] = "loop"
  BY Zenon, <1>1
<1>4. NewTipInv'
  BY <1>2, <1>3 DEF NewTipInv
<1>5. ASSUME NEW b PROVE Served(b)'
  <2>1. \A u \in Thread : pc'[u] \in Activating => Pursued(u, b)'
    BY <1>2, <1>3 DEF Pursued, Chosen
  <2>. QED BY Zenon, <1>3, <2>1 DEF Served
<1>. QED BY Zenon, <1>4, <1>5 DEF ServeInv

LEMMA LoopBeginServes ==
    ASSUME IInv, ServeInv, NEW t \in Thread, Proceed(t), LoopBegin(t)
    PROVE  NewTipInv' /\ ServeInv'
<1>1. /\ UNCHANGED <<tip, mostWork, linked, job, seq, interrupted, fatal>> /\ pc[t] = "loop"
      /\ pc' = [pc EXCEPT ![t] = "find"] /\ progressed' = "no" /\ pc \in [Thread -> Pc]
  BY Zenon DEF LoopBegin, IInv, TypeOK
<1>2. pc'[t] = "find" /\ \E p \in Pc : pc' = [pc EXCEPT ![t] = p]
  BY Zenon, <1>1
<1>3. ASSUME NEW b, Pursued(t, b) PROVE Pursued(t, b)'
  BY Zenon, <1>1, <1>2, <1>3 DEF Pursued, Chosen, Worse, WorseIn
<1>. QED BY Zenon, <1>1, <1>2, <1>3, ServeActs

\* The target is the best candidate, and a block that is no candidate is
\* behind the tip the section began with.
LEMMA FindServes ==
    ASSUME IInv, VisibleInv, NewTipInv, ServeInv, NEW t \in Thread, Proceed(t), Find(t)
    PROVE  NewTipInv' /\ ServeInv'
<1>1. /\ UNCHANGED <<tip, shown, newTip, progressed, linked, job, seq, interrupted, fatal,
                     startTip>>
      /\ pc[t] = "find" /\ pc \in [Thread -> Pc]
      /\ \/ mostWork # NoBlock /\ mostWork' = mostWork
         \/ mostWork = NoBlock /\ FindMostWorkChain(mostWork')
      /\ mostWork' \in MaybeBlock
      /\ \/ mostWork' \in {NoBlock, tip} /\ pc' = [pc EXCEPT ![t] = "leave"]
         \/ mostWork' \notin {NoBlock, tip} /\ pc' = [pc EXCEPT ![t] = "step"]
  BY Zenon DEF Find, IInv, TypeOK
<1>2. /\ pc'[t] \in {"leave", "step"} /\ (pc'[t] = "leave" => mostWork' \in {NoBlock, tip})
      /\ \E p \in Pc : pc' = [pc EXCEPT ![t] = p]
  BY Zenon, <1>1
<1>3. VisibleInv'
  BY Zenon, FindVisible
<1>4. pc'[t] = "leave" /\ progressed' = "yes" => newTip' = tip'
  BY Zenon, <1>1 DEF NewTipInv
<1>5. /\ shown \in Block /\ tip \in Block /\ seq \in [Block -> Nat] /\ linked \subseteq Block
      /\ candidates \subseteq Block /\ progressed \in {"no", "yes"}
  BY Zenon, TipsUsable DEF IInv, TypeOK
<1>6. \A x, y : Worse(x, y)' <=> Worse(x, y)
  BY Zenon, <1>1 DEF Worse, WorseIn
<1>7. /\ startTip = shown /\ (progressed = "no" => tip = shown)
      /\ tip = shown \/ Worse(tip, shown)
  BY Zenon, <1>1, <1>5 DEF VisibleInv, ThreadInv, SectionOf, InStep
<1>8. fatal = "no" /\ mostWork' # NoBlock => ~Worse(mostWork', shown)
  BY Zenon, <1>1, <1>2, <1>3, <1>6, <1>7 DEF VisibleInv, ThreadInv, GainOf, InStep
<1>9. ASSUME NEW b \in linked, fatal = "no", Sound(b), Pursued(t, b)
      PROVE  Pursued(t, b)'
  <2>1. Anc[b] \cap failed = {} /\ b \in Block
    BY <1>5, <1>9, ValidNotFailed DEF Sound, IInv
  <2>2. b \in candidates \/ Worse(b, shown)
    <3>1. b \in candidates \/ Worse(b, shown) \/ Worse(b, tip)
      BY <1>9, <2>1, Zenon DEF VisibleInv, KeptInv
    <3>. QED BY Zenon, <1>5, <1>7, <2>1, <3>1, WorseOrder
  <2>3. CASE mostWork # NoBlock
    <3>1. ~Worse(mostWork', b) /\ mostWork' # NoBlock
      BY Zenon, <1>1, <1>9, <2>3 DEF Pursued, Chosen
    <3>. QED BY Zenon, <1>1, <1>2, <1>6, <3>1 DEF Pursued, Chosen
  <2>4. CASE mostWork = NoBlock /\ b \in candidates
    <3>. DEFINE usable == {c \in candidates : FailedOn(c) = {}}
    <3>1. b \in usable
      BY <2>1, <2>4 DEF FailedOn
    <3>2. mostWork' \in usable /\ \A c \in usable \ {mostWork'} : Worse(c, mostWork')
      BY Zenon, <1>1, <2>4, <3>1 DEF FindMostWorkChain
    <3>. HIDE DEF usable
    <3>3. mostWork' \in Block
      BY ZenonT(30), <1>5, <3>2 DEF usable
    <3>4. ~Worse(mostWork', b) /\ mostWork' # NoBlock
      BY ZenonT(30), <1>5, <2>1, <3>1, <3>2, <3>3, WorseOrder, TreeFacts
    <3>. QED BY ZenonT(30), <1>1, <1>2, <1>6, <3>4 DEF Pursued, Chosen
  <2>5. CASE Worse(b, shown)
    <3>1. mostWork' # NoBlock => ~Worse(mostWork', b)
      BY ZenonT(30), <1>1, <1>5, <1>8, <1>9, <2>1, <2>5, WorseOrder
    <3>2. progressed = "no" => ~Worse(tip, b)
      BY ZenonT(30), <1>5, <1>7, <2>1, <2>5, WorseOrder
    <3>. QED BY ZenonT(30), <1>1, <1>2, <1>6, <3>1, <3>2 DEF Pursued, Chosen
  <2>. QED BY <2>2, <2>3, <2>4, <2>5
<1>10. pc'[t] # "flush" /\ pc'[t] # "find" /\ pc'[t] \in Activating
  BY <1>2
<1>. QED BY Zenon, <1>1, <1>2, <1>4, <1>9, <1>10, ServeActs

LEMMA StepServes ==
    ASSUME IInv, ServeInv, NEW t \in Thread, Proceed(t),
           DisconnectTip(t) \/ ConnectTip(t) \/ ConnectInvalid(t)
    PROVE  NewTipInv' /\ ServeInv'
<1>1. /\ UNCHANGED <<mostWork, progressed, linked, job, seq, interrupted, fatal>>
      /\ pc[t] = "step" /\ pc \in [Thread -> Pc]
      /\ pc' = pc \/ pc' = [pc EXCEPT ![t] = "connected"]
  BY Zenon DEF DisconnectTip, ConnectTip, ConnectInvalid, Above, IInv, TypeOK
<1>2. pc'[t] \in {"step", "connected"} /\ \E p \in Pc : pc' = [pc EXCEPT ![t] = p]
  BY <1>1
<1>3. ASSUME NEW b, Pursued(t, b) PROVE Pursued(t, b)'
  <2>1. Chosen(b)'
    BY Zenon, <1>1, <1>3 DEF Pursued, Chosen, Worse, WorseIn
  <2>. QED BY Zenon, <1>2, <2>1 DEF Pursued
<1>4. pc'[t] # "flush" /\ pc'[t] # "find" /\ pc'[t] # "leave" /\ pc'[t] \in Activating
  BY <1>2
<1>. QED BY Zenon, <1>1, <1>2, <1>3, <1>4, ServeActs

LEMMA ConnectedServes ==
    ASSUME IInv, ServeInv, NEW t \in Thread, Proceed(t), Connected(t)
    PROVE  NewTipInv' /\ ServeInv'
<1>1. /\ UNCHANGED <<tip, linked, job, seq, interrupted, fatal>>
      /\ pc[t] = "connected" /\ pc \in [Thread -> Pc]
      /\ progressed' = "yes" /\ newTip' = tip
      /\ mostWork' = (IF found = "yes" THEN NoBlock ELSE mostWork)
      /\ found \in {"no", "yes"}
      /\ pc' = [pc EXCEPT ![t] = "find"] \/ pc' = [pc EXCEPT ![t] = "leave"]
  BY Zenon DEF Connected, TargetAfterStep, IInv, TypeOK
<1>2. pc'[t] \in {"find", "leave"} /\ \E p \in Pc : pc' = [pc EXCEPT ![t] = p]
  BY <1>1
<1>3. ASSUME NEW b, Pursued(t, b) PROVE Pursued(t, b)'
  <2>1. Chosen(b)'
    BY Zenon, <1>1, <1>3 DEF Pursued, Chosen, Worse, WorseIn
  <2>. QED BY <1>1, <2>1 DEF Pursued
<1>4. pc'[t] \in Activating
  BY <1>2
<1>. QED BY Zenon, <1>1, <1>2, <1>3, <1>4, ServeActs

\* ActivateBestChain returns only with a tip that is no worse than what it
\* served: nothing was better, or the target is reached.
LEMMA EndingServes ==
    ASSUME IInv, NewTipInv, ServeInv, NEW t \in Thread, Proceed(t), Ending(t)
    PROVE  NewTipInv' /\ ServeInv'
<1>. /\ pc \in [Thread -> Pc] /\ progressed \in {"no", "yes"}
     /\ seq \in [Block -> Nat] /\ tip \in Block /\ NoBlock \notin Block
  BY Zenon, TreeFacts DEF IInv, TypeOK
<1>1. CASE LeaveIdle(t)
  <2>1. /\ UNCHANGED <<tip, linked, job, seq, interrupted, fatal>>
        /\ pc[t] = "leave" /\ progressed = "no" /\ pc' = [pc EXCEPT ![t] = "done"]
    BY <1>1, Zenon DEF LeaveIdle, Return
  <2>2. pc'[t] = "done" /\ \E p \in Pc : pc' = [pc EXCEPT ![t] = p]
    BY <2>1, Zenon
  <2>3. ASSUME NEW b, Pursued(t, b) PROVE ~Worse(tip', b)
    BY <2>1, <2>3, Zenon DEF Pursued
  <2>. QED BY Zenon, <2>1, <2>2, <2>3, ServeActs
<1>2. CASE LeaveMoved(t)
  <2>1. /\ UNCHANGED <<tip, linked, job, seq, interrupted, fatal, newTip, mostWork>>
        /\ pc[t] = "leave" /\ progressed = "yes" /\ pc' = [pc EXCEPT ![t] = "flush"]
    BY <1>2, Zenon DEF LeaveMoved
  <2>2. pc'[t] = "flush" /\ \E p \in Pc : pc' = [pc EXCEPT ![t] = p]
    BY <2>1, Zenon
  <2>3. ASSUME NEW b, Pursued(t, b) PROVE Pursued(t, b)'
    BY <2>1, <2>2, <2>3, Zenon DEF Pursued, Chosen, Worse, WorseIn
  <2>4. newTip' = tip'
    BY <2>1, Zenon DEF NewTipInv
  <2>. QED BY Zenon, <2>1, <2>2, <2>3, <2>4, ServeActs
<1>3. CASE Flush(t) /\ interrupted = "no"
  <2>1. /\ UNCHANGED <<tip, linked, job, seq, interrupted, fatal>> /\ pc[t] = "flush"
        /\ \/ newTip = mostWork /\ pc' = [pc EXCEPT ![t] = "done"]
           \/ pc' = [pc EXCEPT ![t] = "loop"] /\ mostWork' = mostWork
    BY <1>3, Zenon DEF Flush, LoopDone, Return
  <2>2. newTip = tip
    BY <2>1, Zenon DEF NewTipInv
  <2>3. ASSUME NEW b, Pursued(t, b)
        PROVE  IF pc'[t] \in Activating THEN Pursued(t, b)' ELSE ~Worse(tip', b)
    <3>1. Chosen(b)
      BY <2>1, <2>3, Zenon DEF Pursued
    <3>2. CASE newTip = mostWork /\ pc' = [pc EXCEPT ![t] = "done"]
      BY <2>1, <2>2, <3>1, <3>2, Zenon DEF Chosen
    <3>3. CASE pc' = [pc EXCEPT ![t] = "loop"] /\ mostWork' = mostWork
      <4>1. pc'[t] = "loop"
        BY <3>3, Zenon
      <4>. QED BY <2>1, <3>1, <3>3, <4>1, Zenon DEF Pursued, Chosen, Worse, WorseIn
    <3>. QED BY <2>1, <3>2, <3>3, Zenon
  <2>4. pc'[t] \in {"done", "loop"} /\ \E p \in Pc : pc' = [pc EXCEPT ![t] = p]
    BY <2>1, Zenon
  <2>5. pc'[t] # "flush" /\ pc'[t] # "find" /\ pc'[t] # "leave"
    BY <2>4
  <2>. QED BY Zenon, <2>1, <2>3, <2>4, <2>5, ServeActs
<1>4. ASSUME (Flush(t) /\ interrupted # "no") \/ StepFails(t) \/ FlushFails(t)
      PROVE  NewTipInv' /\ ServeInv'
  <2>1. /\ UNCHANGED <<linked, job, seq, interrupted>> /\ fatal' \in {fatal, "yes"}
        /\ fatal' = "yes" \/ interrupted # "no"
        /\ pc[t] \in {"flush", "step"}
        /\ pc' = [pc EXCEPT ![t] = "done"] \/ pc' = [pc EXCEPT ![t] = "loop"]
    BY <1>4, Zenon DEF Flush, StepFails, FlushFails, Return, FatalError
  <2>2. pc'[t] \in {"done", "loop"} /\ \E p \in Pc : pc' = [pc EXCEPT ![t] = p]
    BY <2>1, Zenon
  <2>3. pc'[t] # "flush" /\ pc'[t] # "find" /\ pc'[t] # "leave" /\ pc[t] \in Activating
    BY <2>1, <2>2
  <2>4. ASSUME fatal' = "no", interrupted = "no" PROVE FALSE
    BY <2>1, <2>4
  <2>. QED BY Zenon, <2>1, <2>2, <2>3, <2>4, ServeActs
<1>. QED BY <1>1, <1>2, <1>3, <1>4, Zenon DEF Ending

LEMMA MostWorkStep ==
    ASSUME IInv, VisibleInv, MostWorkInv, NEW t \in Thread, Proceed(t)
    PROVE  MostWorkInv'
<1>. HeldInv /\ NewTipInv /\ ServeInv
  BY Zenon DEF MostWorkInv
<1>1. HeldInv'
  BY Zenon, HeldStep
<1>2. NewTipInv' /\ ServeInv'
  BY Zenon, AcceptServes, LinkServes, BeginServes, LoopBeginServes, FindServes, StepServes,
     ConnectedServes, EndingServes DEF Proceed, Accept, Activate, Ending
<1>. QED BY Zenon, <1>1, <1>2 DEF MostWorkInv

\* What the program does: a call begins, or it interrupts.
LEMMA MostWorkOutside ==
    ASSUME IInv, MostWorkInv, Interrupt \/ \E t \in Thread, j \in Jobs : Begin(t, j)
    PROVE  MostWorkInv'
<1>. HeldInv /\ NewTipInv /\ ServeInv
  BY Zenon DEF MostWorkInv
<1>1. CASE Interrupt
  <2>1. /\ UNCHANGED <<have, linked, queue, unlinked, pc, job, tip, abc, seq, fatal>>
        /\ interrupted' = "yes"
    BY <1>1, Zenon DEF Interrupt
  <2>2. HeldInv'
    BY <2>1, SameHeld, Zenon
  <2>3. NewTipInv' /\ ServeInv'
    BY <2>1 DEF NewTipInv, ServeInv
  <2>. QED BY <2>2, <2>3, Zenon DEF MostWorkInv
<1>2. ASSUME NEW t \in Thread, NEW j \in Jobs, Begin(t, j) PROVE MostWorkInv'
  <2>1. /\ UNCHANGED <<have, linked, queue, unlinked, tip, abc, seq, fatal, interrupted>>
        /\ pc[t] = "idle" /\ pc' = [pc EXCEPT ![t] = "accept"]
        /\ job' = [job EXCEPT ![t] = j]
        /\ pc \in [Thread -> Pc] /\ job \in [Thread -> Jobs \cup {NoJob}]
    BY <1>2, Zenon DEF Begin, IInv, TypeOK
  <2>2. /\ \A u \in Thread : pc'[u] = "link" <=> pc[u] = "link"
        /\ \A u \in Thread : pc[u] = "link" => job'[u] = job[u]
    BY <2>1, Zenon
  <2>3. HeldInv'
    BY <2>1, <2>2, SameHeld, Zenon
  <2>4. \A u \in Thread : pc'[u] = pc[u] \/ {pc[u], pc'[u]} \cap Activating = {}
    BY <2>1
  <2>5. \A u \in Thread : Serving(u) => Serving(u)'
    BY <2>1, ZenonT(30) DEF Serving
  <2>6. Coming => Coming'
    BY <2>5, ZenonT(30) DEF Coming
  <2>7. NewTipInv' /\ ServeInv'
    BY <2>1, <2>4, <2>6, ServeStays, ZenonT(30)
  <2>. QED BY <2>3, <2>7, ZenonT(30) DEF MostWorkInv
<1>. QED BY <1>1, <1>2, ZenonT(30)

LEMMA MostWorkInit == Init => MostWorkInv
<1>. SUFFICES ASSUME Init PROVE MostWorkInv
  OBVIOUS
<1>1. /\ pc = [t \in Thread |-> "idle"] /\ tip = Genesis /\ queue = <<>>
      /\ linked = {Genesis} /\ have = {Genesis}
      /\ seq = [b \in Block |-> IF b = Genesis THEN 2 ELSE 1]
  BY Zenon DEF Init
<1>2. \A t \in Thread : pc[t] = "idle"
  BY <1>1, Zenon
<1>3. HeldInv /\ NewTipInv
  BY <1>1, <1>2 DEF HeldInv, Held, NewTipInv
<1>4. ~Worse(Genesis, Genesis)
  <2>1. seq \in [Block -> Nat]
    BY <1>1
  <2>. QED BY <2>1, WorseOrder, TreeFacts
<1>5. ServeInv
  BY <1>1, <1>2, <1>4 DEF ServeInv, Served
<1>. QED BY <1>3, <1>5, Zenon DEF MostWorkInv

LEMMA MostWorkInvariant == Spec => []MostWorkInv
<1>1. IInv /\ VisibleInv /\ MostWorkInv /\ [Next]_vars => MostWorkInv'
  <2>. SUFFICES ASSUME IInv, VisibleInv, MostWorkInv, [Next]_vars PROVE MostWorkInv'
    OBVIOUS
  <2>1. CASE UNCHANGED vars
    <3>1. UNCHANGED <<have, linked, queue, unlinked, pc, job, tip, abc, seq, fatal, interrupted>>
      BY <2>1, Zenon DEF vars
    <3>2. Coming => Coming'
      BY <3>1, Zenon DEF Coming, Serving
    <3>3. HeldInv' /\ NewTipInv' /\ ServeInv'
      BY <3>1, <3>2, SameHeld, ServeStays, Zenon DEF MostWorkInv
    <3>. QED BY <3>3, Zenon DEF MostWorkInv
  <2>. QED BY <2>1, MostWorkStep, MostWorkOutside, Zenon DEF Next
<1>. QED BY <1>1, MostWorkInit, Inductive, VisibleInvariant, PTL DEF Spec

-----------------------------------------------------------------------------
(* The theorem. *)

\* The least-number principle.
LEMMA Least ==
    ASSUME NEW T \in SUBSET Nat, T # {}
    PROVE  \E x \in T : \A y \in T : x <= y
<1>. DEFINE R == OpToRel(<, Nat)
<1>1. PICK x \in T : \A y \in T : ~(<<y, x>> \in R)
  <2>1. IsWellFoundedOn(R, Nat)
    BY Zenon, NatLessThanWellFounded
  <2>. HIDE DEF R
  <2>. QED BY Zenon, <2>1, WFMin
<1>2. \A i, j \in Nat : i < j => <<i, j>> \in R
  BY Zenon DEF R, OpToRel
<1>. HIDE DEF R
<1>3. \A y \in T : ~(y < x)
  BY ZenonT(30), <1>1, <1>2
<1>. QED BY SMTT(30), <1>3

\* A set of blocks has one of least work.
LEMMA LeastWork ==
    ASSUME NEW S \in SUBSET Block, S # {}
    PROVE  \E x \in S : \A y \in S : Work[x] <= Work[y]
<1>. DEFINE T == {Work[x] : x \in S}
<1>1. \A x \in S : Work[x] \in Nat
  BY TreeConstants DEF TreeConstants
<1>2. T \in SUBSET Nat /\ T # {}
  BY Zenon, <1>1
<1>3. \A x \in S : Work[x] \in T
  BY Zenon
<1>4. \A n \in T : \E x \in S : n = Work[x]
  BY Zenon
<1>. HIDE DEF T
<1>5. PICK n \in T : \A m \in T : n <= m
  BY Zenon, <1>2, Least
<1>. QED BY Zenon, <1>3, <1>4, <1>5

\* With no call under way, a stored block whose ancestors are stored and sound
\* is linked: otherwise one of least work, whose parent then is linked, waits
\* for a parent that is not.
LEMMA StoredLinked ==
    ASSUME IInv, HeldInv, Quiet, NEW b \in Block, Acceptable(b)
    PROVE  b \in linked
<1>. SUFFICES ASSUME b \notin linked PROVE FALSE
  OBVIOUS
<1>. DEFINE Left == {x \in Block : Acceptable(x) /\ x \notin linked}
<1>1. Work \in [Block -> Nat]
  BY TreeConstants DEF TreeConstants
<1>2. PICK x \in Left : \A y \in Left : Work[x] <= Work[y]
  <2>1. Left \in SUBSET Block /\ Left # {}
    BY Zenon
  <2>. HIDE DEF Left
  <2>. QED BY Zenon, <2>1, LeastWork
<1>. HIDE DEF Left
<1>3. x \in Block /\ Acceptable(x) /\ x \notin linked /\ x # Genesis
  BY <1>2, Zenon DEF Left, IInv, LinkedInv
<1>4. Prev[x] \in Block /\ Work[Prev[x]] < Work[x] /\ Anc[Prev[x]] \subseteq Anc[x]
  BY <1>3, ParentWork, TreeFacts
<1>5. Prev[x] \in linked
  <2>1. Prev[x] \notin Left
    BY SMTT(30), <1>1, <1>2, <1>3, <1>4
  <2>2. Acceptable(Prev[x])
    BY <1>3, <1>4, Zenon DEF Acceptable
  <2>. QED BY <1>4, <2>1, <2>2, Zenon DEF Left
<1>6. x \in have /\ Sound(x)
  BY <1>3, TreeFacts, Zenon DEF Acceptable, Sound
<1>7. queue = <<>>
  <2>1. \A t \in Thread : pc[t] # "link"
    BY DEF Quiet
  <2>. QED BY <2>1, Zenon DEF HeldInv
<1>8. PICK i \in 1 .. Len(unlinked[Prev[x]]) : unlinked[Prev[x]][i] = x
  <2>1. Held(x)
    BY Zenon, <1>6 DEF HeldInv
  <2>2. 1 .. Len(queue) = {}
    BY SMT, <1>7
  <2>. QED BY Zenon, <1>3, <2>1, <2>2 DEF Held
<1>. QED BY <1>4, <1>5, <1>8, Zenon DEF IInv, UnlinkedInv

\* When every call has returned, with no fatal error and no interrupt, the tip
\* is the best of all sound stored chains, the first received among equals:
\* whatever the number of threads and blocks, the order they came in and the
\* interleaving of the calls (ProcessNewBlock, ReceivedBlockTransactions,
\* FindMostWorkChain, ActivateBestChain).
THEOREM MostWorkChain == Spec => []MostWorkChainActive
<1>1. IInv /\ MostWorkInv => MostWorkChainActive
  <2>. SUFFICES ASSUME IInv, MostWorkInv, Quiet, fatal = "no", interrupted = "no",
                       NEW b \in Block, Acceptable(b)
                PROVE  ~Worse(tip, b)
    BY Zenon DEF MostWorkChainActive
  <2>. HeldInv /\ ServeInv
    BY Zenon DEF MostWorkInv
  <2>1. b \in linked /\ Sound(b)
    BY Zenon, StoredLinked DEF Acceptable, Sound
  <2>2. Served(b)
    BY Zenon, <2>1 DEF ServeInv
  <2>3. ~Coming /\ \A t \in Thread : pc[t] \notin Activating
    BY DEF Quiet, Coming, Serving
  <2>. QED BY Zenon, <2>2, <2>3 DEF Served
<1>. QED BY <1>1, Inductive, MostWorkInvariant, PTL

-----------------------------------------------------------------------------
(* The asserts. *)

\* A linked block no rule refuses is a candidate, or a better one is: the
\* candidates are pruned against a tip that is no better than one of them.
CandidatesInv ==
    \A b \in linked : Sound(b) =>
        \/ b \in candidates
        \/ \E c \in candidates : Sound(c) /\ Worse(b, c)

\* The coins view is left ahead of the chain by a fatal error only.
CoinsInv == coins # tip \/ process = "aborted" => fatal = "yes"

\* Steps that remove at most blocks that some rule refuses.
LEMMA CandidatesKept ==
    ASSUME CandidatesInv, UNCHANGED <<linked, seq>>,
           \A c \in candidates : Sound(c) => c \in candidates'
    PROVE  CandidatesInv'
BY Zenon DEF CandidatesInv, Sound, Worse, WorseIn

\* A sound linked block stays, or the candidate that is better does.
LEMMA CandidatesStep ==
    ASSUME IInv, VisibleInv, CandidatesInv, NEW t \in Thread, Proceed(t)
    PROVE  CandidatesInv'
<1>0. /\ seq \in [Block -> Nat] /\ candidates \subseteq linked /\ linked \subseteq Block
      /\ tip \in linked /\ tip \in Block /\ FlagInv /\ Sound(tip)
  BY Zenon, TipsUsable DEF IInv, LinkedInv, TipInv, Sound
<1>1. ASSUME NEW b \in Block, Verdict[b] # "valid", UNCHANGED <<linked, seq>>,
             candidates' = candidates \ {b}
      PROVE  CandidatesInv'
  <2>1. ~Sound(b)
    BY Zenon, <1>1, TreeFacts DEF Sound
  <2>. QED BY Zenon, <1>1, <2>1, CandidatesKept
<1>2. CASE RejectBody(t)
  <2>1. UNCHANGED <<linked, seq>>
    BY Zenon, <1>2 DEF RejectBody
  <2>2. CASE Condemns(ContextualCheckBlock(job[t]))
    <3>1. /\ Verdict[job[t].blk] \in {"context", "weight"}
          /\ candidates' = candidates \ {job[t].blk}
      BY Zenon, <1>2, <2>2 DEF RejectBody, Condemns, ContextualCheckBlock, InvalidBlockFound
    <3>2. job[t].blk \in Block
      BY Zenon, JobFacts DEF IInv
    <3>. QED BY <1>1, <2>1, <3>1, <3>2
  <2>3. CASE ~Condemns(ContextualCheckBlock(job[t]))
    BY Zenon, <1>2, <2>1, <2>3, CandidatesKept DEF RejectBody
  <2>. QED BY <2>2, <2>3
<1>3. CASE ConnectInvalid(t)
  <2>1. PICK b \in Block : Verdict[b] = "connect" /\ candidates' = candidates \ {b}
    BY Zenon, <1>3 DEF ConnectInvalid, InvalidBlockFound
  <2>2. UNCHANGED <<linked, seq>>
    BY Zenon, <1>3 DEF ConnectInvalid
  <2>. QED BY <1>1, <2>1, <2>2
<1>4. CASE Find(t)
  <2>1. UNCHANGED <<linked, seq>> /\ (candidates' = candidates
                                      \/ \E best : candidates' = Remaining(best))
    BY Zenon, <1>4 DEF Find
  <2>2. ASSUME NEW c \in candidates, Sound(c) PROVE c \in candidates'
    <3>1. Anc[c] \cap failed = {}
      BY Zenon, <1>0, <2>2, ValidNotFailed DEF Sound
    <3>. QED BY Zenon, <2>1, <3>1, RemainingKeeps
  <2>. QED BY Zenon, <2>1, <2>2, CandidatesKept
<1>5. CASE ConnectTip(t)
  <2>1. /\ UNCHANGED <<linked, seq>> /\ tip' \in Block
        /\ candidates' = {c \in candidates : ~Worse(c, tip')}
    BY Zenon, <1>5 DEF ConnectTip, SetTip, PruneBlockIndexCandidates
  <2>2. tip' \in linked /\ Sound(tip')
    <3>1. IInv' /\ VisibleInv'
      BY <1>5, NextIInv, VisibleNext, Zenon DEF Next
    <3>2. tip' \in linked'
      BY <3>1, Zenon DEF VisibleInv, ShownInv
    <3>3. \A a \in Anc[tip'] : Verdict[a] = "valid"
      BY <3>1, Zenon DEF IInv, TipInv
    <3>. QED BY Zenon, <2>1, <3>2, <3>3 DEF Sound
  <2>3. PICK d \in candidates : Sound(d) /\ (d = tip' \/ Worse(tip', d))
    BY Zenon, <2>2 DEF CandidatesInv
  <2>4. d \in candidates' /\ d \in Block
    BY Zenon, <1>0, <2>1, <2>3, WorseOrder
  <2>5. ASSUME NEW b \in linked, Sound(b), b \notin candidates'
        PROVE  \E c \in candidates' : Sound(c) /\ Worse(b, c)
    <3>0. b \in Block
      BY <1>0
    <3>1. CASE b \in candidates
      <4>1. Worse(b, tip')
        BY Zenon, <2>1, <2>5, <3>1
      <4>2. Worse(b, d)
        BY Zenon, <1>0, <2>1, <2>3, <2>4, <3>0, <4>1, WorseOrder
      <4>. QED BY Zenon, <2>3, <2>4, <4>2
    <3>2. CASE b \notin candidates
      <4>1. PICK c \in candidates : Sound(c) /\ Worse(b, c)
        BY Zenon, <2>5, <3>2 DEF CandidatesInv
      <4>2. CASE c \in candidates'
        BY Zenon, <4>1, <4>2
      <4>3. CASE Worse(c, tip')
        <5>1. c \in Block
          BY <1>0
        <5>2. Worse(b, tip')
          BY Zenon, <1>0, <2>1, <3>0, <4>1, <4>3, <5>1, WorseOrder
        <5>3. Worse(b, d)
          BY Zenon, <1>0, <2>1, <2>3, <2>4, <3>0, <5>2, WorseOrder
        <5>. QED BY Zenon, <2>3, <2>4, <5>3
      <4>. QED BY Zenon, <2>1, <4>2, <4>3
    <3>. QED BY <3>1, <3>2
  <2>6. \A x, y : Worse(x, y)' <=> Worse(x, y)
    BY Zenon, <2>1 DEF Worse, WorseIn
  <2>. QED BY Zenon, <2>1, <2>5, <2>6 DEF CandidatesInv, Sound
<1>6. CASE Link(t)
  <2>1. PICK b : /\ b = Head(queue) /\ queue # <<>> /\ tip' = tip
                 /\ linked' = linked \cup {b} /\ seq' = [seq EXCEPT ![b] = nextSeq]
                 /\ candidates' = IF WorseIn(seq', b, tip) THEN candidates
                                                          ELSE candidates \cup {b}
    BY Zenon, <1>6 DEF Link
  <2>2. b \notin linked /\ b \in Block
    <3>1. queue \in Seq(Block)
      BY Zenon DEF IInv, TypeOK
    <3>2. 1 \in 1 .. Len(queue) /\ b = queue[1] /\ b \in Block
      BY SMTT(30), <2>1, <3>1
    <3>. QED BY Zenon, <3>2 DEF IInv, QueueInv, Fresh
  <2>3. \A x, y \in linked : Worse(x, y) => WorseIn(seq', x, y)
    <3>1. \A x \in linked : seq'[x] = seq[x]
      BY Zenon, <1>0, <2>1, <2>2
    <3>. QED BY Zenon, <3>1 DEF Worse, WorseIn
  <2>4. seq' \in [Block -> Nat]
    BY Zenon, NextIInv DEF IInv, Next, TypeOK
  <2>. DEFINE Covered(x) == \/ x \in candidates'
                            \/ \E c \in candidates' : Sound(c) /\ WorseIn(seq', x, c)
  <2>5. ASSUME NEW x \in linked, Sound(x) PROVE Covered(x)
    <3>1. CASE x \in candidates
      BY Zenon, <2>1, <3>1
    <3>2. CASE x \notin candidates
      <4>1. PICK c \in candidates : Sound(c) /\ Worse(x, c)
        BY Zenon, <2>5, <3>2 DEF CandidatesInv
      <4>2. c \in linked /\ c \in candidates'
        BY Zenon, <1>0, <2>1
      <4>. QED BY Zenon, <2>3, <4>1, <4>2
    <3>. QED BY <3>1, <3>2
  <2>6. Covered(b)
    <3>. SUFFICES ASSUME WorseIn(seq', b, tip)
                  PROVE  \E c \in candidates' : Sound(c) /\ WorseIn(seq', b, c)
      BY Zenon, <2>1
    <3>1. CASE tip \in candidates'
      BY Zenon, <1>0, <3>1
    <3>2. ASSUME NEW c \in candidates', WorseIn(seq', tip, c)
          PROVE  WorseIn(seq', b, c)
      <4>1. c \in Block
        BY <1>0, <2>1, <2>2
      <4>2. /\ Work[b] \in Nat /\ Work[tip] \in Nat /\ Work[c] \in Nat
            /\ seq'[b] \in Nat /\ seq'[tip] \in Nat /\ seq'[c] \in Nat
        BY <1>0, <2>2, <2>4, <4>1, TreeConstants DEF TreeConstants
      <4>. QED BY SMTT(30), <3>2, <4>2 DEF WorseIn
    <3>. QED BY Zenon, <1>0, <2>5, <3>1, <3>2
  <2>. QED BY Zenon, <2>1, <2>5, <2>6 DEF CandidatesInv, Sound, Worse
<1>7. CASE candidates' = candidates /\ ~Link(t)
  <2>1. UNCHANGED <<linked, seq>>
    BY Zenon, <1>7, Frame DEF TreeFrame, StoreBlock
  <2>. QED BY Zenon, <1>7, <2>1, CandidatesKept
<1>. QED BY Zenon, <1>2, <1>3, <1>4, <1>5, <1>6, <1>7, Frame DEF ChainFrame

LEMMA CoinsStep ==
    ASSUME TypeOK, CoinsInv, NEW t \in Thread, Proceed(t)
    PROVE  CoinsInv'
<1>1. fatal' \in {fatal, "yes"}
  BY Zenon, Frame DEF ListenFrame, WriteFails, StepFails, FlushFails, FatalError
<1>2. CASE DisconnectTip(t)
  <2>1. tip' = coins' /\ process' = process
    BY Zenon, <1>2 DEF DisconnectTip, SetTip
  <2>. QED BY Zenon, <1>1, <2>1 DEF CoinsInv
<1>3. CASE ConnectTip(t)
  <2>1. tip' = coins' /\ process' = process
    BY Zenon, <1>3 DEF ConnectTip, SetTip
  <2>. QED BY Zenon, <1>1, <2>1 DEF CoinsInv
<1>4. CASE StepFails(t)
  BY Zenon, <1>4 DEF StepFails, FatalError, CoinsInv
<1>5. CASE CoinsMismatch(t)
  BY Zenon, <1>5 DEF CoinsMismatch, CoinsInv
<1>6. CASE UNCHANGED <<coins, tip, process>>
  BY Zenon, <1>1, <1>6 DEF CoinsInv
<1>. QED BY Zenon, <1>2, <1>3, <1>4, <1>5, <1>6, Frame DEF ChainFrame, ListenFrame

LEMMA CandidatesInvariant == Spec => [](CandidatesInv /\ CoinsInv)
<1>1. Init => CandidatesInv /\ CoinsInv
  <2>. SUFFICES ASSUME Init PROVE CandidatesInv /\ CoinsInv
    OBVIOUS
  <2>1. /\ linked = {Genesis} /\ candidates = {Genesis} /\ coins = Genesis
        /\ tip = Genesis /\ process = "running"
    BY Zenon DEF Init
  <2>. QED BY <2>1 DEF CandidatesInv, CoinsInv
<1>2. IInv /\ VisibleInv /\ CandidatesInv /\ CoinsInv /\ [Next]_vars
      => CandidatesInv' /\ CoinsInv'
  <2>. SUFFICES ASSUME IInv, VisibleInv, CandidatesInv, CoinsInv, [Next]_vars
                PROVE  CandidatesInv' /\ CoinsInv'
    OBVIOUS
  <2>1. CASE UNCHANGED <<candidates, linked, seq, coins, tip, process, fatal>>
    <3>1. CoinsInv'
      BY Zenon, <2>1 DEF CoinsInv
    <3>. QED BY Zenon, <2>1, <3>1, CandidatesKept
  <2>2. \/ UNCHANGED <<candidates, linked, seq, coins, tip, process, fatal>>
        \/ \E t \in Thread : Proceed(t)
    BY Zenon DEF Next, Interrupt, Begin, vars
  <2>3. TypeOK
    BY DEF IInv
  <2>. QED BY Zenon, <2>1, <2>2, <2>3, CandidatesStep, CoinsStep
<1>. QED BY <1>1, <1>2, Inductive, VisibleInvariant, PTL DEF Spec

\* The asserts of the code hold: setBlockIndexCandidates is never empty and
\* holds only blocks whose data is all there, and the coins view is at the tip
\* wherever DisconnectTip and ConnectBlock look, unless a system error between
\* the two was reported before.
THEOREM Asserts == Spec => []AssertsHold
<1>1. IInv /\ CandidatesInv /\ CoinsInv => AssertsHold
  <2>. SUFFICES ASSUME IInv, CandidatesInv, CoinsInv PROVE AssertsHold
    OBVIOUS
  <2>1. Genesis \in linked /\ candidates \subseteq linked
    BY Zenon DEF IInv, LinkedInv
  <2>2. Sound(Genesis)
    BY Zenon, TreeFacts DEF Sound
  <2>3. candidates # {}
    BY Zenon, <2>1, <2>2 DEF CandidatesInv
  <2>. QED BY Zenon, <2>1, <2>3 DEF AssertsHold, CoinsInv
<1>. QED BY <1>1, Inductive, CandidatesInvariant, PTL

-----------------------------------------------------------------------------
(* The listeners. *)

\* Inside the section the last block_tip was for the first tip, and the blocks
\* connected since the last callbacks lead from the listeners' tip to the tip.
\* None is disconnected once one was connected: the tip is then an ancestor of
\* the target.
InSync(t) ==
    pc[t] \in InStep =>
        /\ tipSeen = startTip
        /\ pc[t] \in {"find", "leave"} \/ connected = <<>> => lsTip = tip
        /\ pc[t] \in {"step", "connected"} /\ connected # <<>> =>
              /\ Prev[connected[1]] = lsTip /\ connected[Len(connected)] = tip
              /\ pc[t] = "step" => tip \in Anc[mostWork]

SyncInv ==
    fatal = "no" =>
        /\ (\A t \in Thread : pc[t] \notin InStep) => lsTip = tip /\ tipSeen = tip
        /\ \A t \in Thread : InSync(t)

\* The ends of a sequence that has grown.
LEMMA AppendEnds ==
    ASSUME NEW s \in Seq(Block), NEW x \in Block
    PROVE  /\ Append(s, x) # <<>> /\ Append(s, x)[Len(Append(s, x))] = x
           /\ s = <<>> => Append(s, x)[1] = x
           /\ s # <<>> => Append(s, x)[1] = s[1]
<1>1. Append(s, x) # <<>> /\ Append(s, x)[Len(Append(s, x))] = x
  BY SMTT(30)
<1>2. s = <<>> => Append(s, x)[1] = x
  BY SMTT(30)
<1>3. s # <<>> => Append(s, x)[1] = s[1]
  BY SMTT(30)
<1>. QED BY <1>1, <1>2, <1>3

\* Steps outside the section.
LEMMA SyncStays ==
    ASSUME SyncInv, UNCHANGED <<lsTip, tipSeen, tip, startTip, connected, mostWork>>,
           fatal' = fatal,
           \A u \in Thread : pc'[u] = pc[u] \/ (pc[u] \notin InStep /\ pc'[u] \notin InStep)
    PROVE  SyncInv'
<1>1. ASSUME NEW u \in Thread, InSync(u) PROVE InSync(u)'
  <2>1. CASE pc'[u] = pc[u]
    BY Zenon, <1>1, <2>1 DEF InSync
  <2>2. CASE pc'[u] \notin InStep
    BY Zenon, <2>2 DEF InSync
  <2>. QED BY Zenon, <2>1, <2>2
<1>. QED BY Zenon, <1>1 DEF SyncInv

\* Steps of ActivateBestChain: the other threads are outside the section.
LEMMA SyncActs ==
    ASSUME IInv, NEW t \in Thread, Proceed(t), pc[t] \in Activating,
           \/ pc'[t] \in InStep /\ InSync(t)'
           \/ pc'[t] \notin InStep /\ lsTip' = tip' /\ tipSeen' = tip'
    PROVE  SyncInv'
<1>1. \A u \in Thread \ {t} : pc'[u] \notin InStep
  <2>1. \A u \in Thread \ {t} : pc'[u] = pc[u]
    BY Zenon, PlaceFrame DEF IInv, TypeOK, Places
  <2>2. \A u \in Thread \ {t} : pc[u] \notin Activating
    BY Zenon DEF IInv, LockInv
  <2>. QED BY <2>1, <2>2 DEF InStep
<1>2. \A u \in Thread : InSync(u)'
  BY ZenonT(30), <1>1 DEF InSync
<1>. QED BY ZenonT(30), <1>2 DEF SyncInv

LEMMA SyncStep ==
    ASSUME IInv, VisibleInv, NewTipInv, SyncInv, NEW t \in Thread, Proceed(t)
    PROVE  SyncInv'
<1>. SUFFICES ASSUME fatal' = "no" PROVE SyncInv'
  BY ZenonT(30) DEF SyncInv
<1>0. /\ pc \in [Thread -> Pc] /\ connected \in Seq(Block) /\ tip \in Block
      /\ fatal = "no" /\ InSync(t) /\ SectionOf(t) /\ GainOf(t)
  <2>1. fatal \in {"no", "yes"} /\ fatal' \in {fatal, "yes"}
    BY ZenonT(30), Frame DEF ListenFrame, WriteFails, StepFails, FlushFails, FatalError, IInv, TypeOK
  <2>2. fatal = "no"
    BY <2>1
  <2>. QED BY Zenon, <2>2 DEF IInv, TypeOK, SyncInv, VisibleInv, ThreadInv
<1>1. CASE LoopBegin(t)
  <2>1. /\ UNCHANGED <<lsTip, tipSeen, tip>> /\ csMain = NoThread /\ startTip' = tip
        /\ pc[t] = "loop" /\ pc' = [pc EXCEPT ![t] = "find"]
    BY Zenon, <1>1 DEF LoopBegin
  <2>2. lsTip = tip /\ tipSeen = tip
    BY Zenon, <1>0, <2>1, OutOfSection DEF SyncInv
  <2>3. pc'[t] = "find"
    BY Zenon, <1>0, <2>1
  <2>4. InSync(t)'
    BY Zenon, <2>1, <2>2, <2>3 DEF InSync
  <2>. QED BY Zenon, <2>1, <2>3, <2>4, SyncActs DEF InStep
<1>2. CASE Find(t)
  <2>1. /\ UNCHANGED <<lsTip, tipSeen, tip, startTip>> /\ pc[t] = "find"
        /\ \/ pc' = [pc EXCEPT ![t] = "leave"]
           \/ pc' = [pc EXCEPT ![t] = "step"] /\ connected' = <<>>
    BY Zenon, <1>2 DEF Find
  <2>2. lsTip = tip /\ tipSeen = startTip
    BY Zenon, <1>0, <2>1 DEF InSync, InStep
  <2>3. pc'[t] = "leave" \/ (pc'[t] = "step" /\ connected' = <<>>)
    BY Zenon, <1>0, <2>1
  <2>4. InSync(t)'
    BY Zenon, <2>1, <2>2, <2>3 DEF InSync
  <2>. QED BY Zenon, <2>1, <2>3, <2>4, SyncActs DEF InStep
<1>3. CASE DisconnectTip(t)
  <2>1. /\ UNCHANGED <<tipSeen, startTip, connected, mostWork, pc>> /\ pc[t] = "step"
        /\ tip \notin Anc[mostWork] /\ tip' = Prev[tip]
        /\ lsTip' = IF lsTip = tip THEN Prev[tip] ELSE NoBlock
    BY Zenon, <1>3 DEF DisconnectTip, Above, SetTip
  <2>2. connected = <<>> /\ lsTip = tip /\ tipSeen = startTip
    BY Zenon, <1>0, <2>1 DEF InSync, InStep
  <2>3. InSync(t)'
    BY Zenon, <2>1, <2>2 DEF InSync
  <2>. QED BY Zenon, <2>1, <2>3, SyncActs DEF InStep
<1>4. CASE ConnectTip(t)
  <2>1. PICK b \in Block :
            /\ b \in Anc[mostWork] /\ Prev[b] = tip /\ tip' = b
            /\ connected' = Append(connected, b)
    BY Zenon, <1>4 DEF ConnectTip, SetTip, Successor
  <2>2. /\ UNCHANGED <<tipSeen, startTip, mostWork, lsTip>> /\ pc[t] = "step"
        /\ pc' \in {pc, [pc EXCEPT ![t] = "connected"]}
    BY Zenon, <1>4 DEF ConnectTip
  <2>3. pc'[t] \in {"step", "connected"}
    BY Zenon, <1>0, <2>2
  <2>4. connected' # <<>> /\ connected'[Len(connected')] = b
    BY Zenon, <1>0, <2>1, AppendEnds
  <2>5. Prev[connected'[1]] = lsTip
    <3>1. CASE connected = <<>>
      <4>1. connected'[1] = b
        BY Zenon, <1>0, <2>1, <3>1, AppendEnds
      <4>. QED BY Zenon, <1>0, <2>1, <2>2, <3>1, <4>1 DEF InSync, InStep
    <3>2. CASE connected # <<>>
      <4>1. connected'[1] = connected[1]
        BY Zenon, <1>0, <2>1, <3>2, AppendEnds
      <4>. QED BY Zenon, <1>0, <2>2, <3>2, <4>1 DEF InSync, InStep
    <3>. QED BY <3>1, <3>2
  <2>6. tipSeen = startTip
    BY Zenon, <1>0, <2>2 DEF InSync, InStep
  <2>7. InSync(t)'
    BY Zenon, <2>1, <2>2, <2>3, <2>4, <2>5, <2>6 DEF InSync
  <2>. QED BY Zenon, <2>2, <2>3, <2>7, SyncActs DEF InStep
<1>5. CASE ConnectInvalid(t)
  <2>1. /\ UNCHANGED <<tipSeen, startTip, connected, tip, lsTip>> /\ pc[t] = "step"
        /\ pc' = [pc EXCEPT ![t] = "connected"]
    BY Zenon, <1>5 DEF ConnectInvalid
  <2>2. pc'[t] = "connected"
    BY Zenon, <1>0, <2>1
  <2>3. InSync(t)'
    BY Zenon, <1>0, <2>1, <2>2 DEF InSync, InStep
  <2>. QED BY Zenon, <2>1, <2>2, <2>3, SyncActs DEF InStep
<1>6. CASE Connected(t)
  <2>1. /\ UNCHANGED <<tipSeen, startTip, tip>> /\ pc[t] = "connected"
        /\ lsTip' = BlockConnected
        /\ pc' = [pc EXCEPT ![t] = IF NoProgress THEN "find" ELSE "leave"]
    BY Zenon, <1>6 DEF Connected
  <2>2. pc'[t] \in {"find", "leave"}
    BY Zenon, <1>0, <2>1
  <2>3. BlockConnected = tip
    <3>1. CASE connected = <<>>
      BY Zenon, <1>0, <2>1, <3>1 DEF BlockConnected, InSync, InStep
    <3>2. CASE connected # <<>>
      <4>1. Prev[connected[1]] = lsTip /\ connected[Len(connected)] = tip
        BY Zenon, <1>0, <2>1, <3>2 DEF InSync, InStep
      <4>. QED BY Zenon, <3>2, <4>1 DEF BlockConnected
    <3>. QED BY <3>1, <3>2
  <2>4. tipSeen = startTip
    BY Zenon, <1>0, <2>1 DEF InSync, InStep
  <2>5. InSync(t)'
    BY Zenon, <2>1, <2>2, <2>3, <2>4 DEF InSync
  <2>. QED BY Zenon, <2>1, <2>2, <2>5, SyncActs DEF InStep
<1>7. CASE LeaveIdle(t)
  <2>1. /\ UNCHANGED <<lsTip, tipSeen, tip>> /\ pc[t] = "leave" /\ progressed = "no"
        /\ pc' = [pc EXCEPT ![t] = "done"]
    BY Zenon, <1>7 DEF LeaveIdle, Return
  <2>2. lsTip = tip /\ tipSeen = tip
    BY Zenon, <1>0, <2>1 DEF InSync, SectionOf, InStep
  <2>3. pc'[t] = "done"
    BY Zenon, <1>0, <2>1
  <2>. QED BY Zenon, <2>1, <2>2, <2>3, SyncActs DEF InStep
<1>8. CASE LeaveMoved(t)
  <2>1. /\ UNCHANGED <<lsTip, tip>> /\ pc[t] = "leave" /\ progressed = "yes"
        /\ tipSeen' = IF newTip \in Anc[startTip] THEN tipSeen ELSE newTip
        /\ pc' = [pc EXCEPT ![t] = "flush"]
    BY Zenon, <1>8 DEF LeaveMoved, BlockTip
  <2>2. lsTip = tip /\ tipSeen = startTip /\ startTip = shown
    BY Zenon, <1>0, <2>1 DEF InSync, SectionOf, InStep
  <2>3. newTip = tip /\ ~Worse(tip, startTip)
    BY Zenon, <1>0, <2>1 DEF NewTipInv, GainOf, InStep
  <2>4. startTip \in Block /\ seq \in [Block -> Nat]
    BY Zenon, <2>2, TipsUsable
  <2>5. tip \in Anc[startTip] => tip = startTip
    <3>. SUFFICES ASSUME tip \in Anc[startTip] \ {startTip} PROVE FALSE
      BY Zenon
    <3>1. Work[tip] < Work[startTip]
      BY Zenon, <2>4, TreeConstants DEF TreeConstants
    <3>. QED BY Zenon, <1>0, <2>3, <2>4, <3>1, WorseOrder
  <2>6. pc'[t] = "flush"
    BY Zenon, <1>0, <2>1
  <2>. QED BY Zenon, <2>1, <2>2, <2>3, <2>5, <2>6, SyncActs DEF InStep
<1>9. CASE Flush(t)
  <2>1. /\ UNCHANGED <<lsTip, tipSeen, tip>> /\ pc[t] = "flush" /\ csMain = NoThread
        /\ \E p \in {"done", "loop"} : pc' = [pc EXCEPT ![t] = p]
    BY Zenon, <1>9 DEF Flush, Return
  <2>2. lsTip = tip /\ tipSeen = tip
    BY Zenon, <1>0, <2>1, OutOfSection DEF SyncInv
  <2>3. pc'[t] \in {"done", "loop"}
    BY Zenon, <1>0, <2>1
  <2>. QED BY Zenon, <2>1, <2>2, <2>3, SyncActs DEF InStep
<1>10. CASE StepFails(t) \/ FlushFails(t)
  BY Zenon, <1>10 DEF StepFails, FlushFails, FatalError
<1>11. CASE CoinsMismatch(t)
  <2>1. UNCHANGED <<lsTip, tipSeen, tip, startTip, connected, mostWork, pc>>
    BY Zenon, <1>11 DEF CoinsMismatch
  <2>. QED BY Zenon, <1>0, <2>1, SyncStays
<1>12. CASE Accept(t) \/ ActivateBestChain(t)
  <2>1. UNCHANGED <<lsTip, tipSeen, tip, startTip, connected, mostWork>>
    BY Zenon, <1>12 DEF Accept, Done, AcceptHeader, RejectUnindexed, RejectBody, WriteFails,
       StoreBlock, KnownBlock, Link, LinkDone, NotifyHeaderTip, HeaderTip, ActivateBestChain
  <2>2. \E p \in {pc[t], "idle", "done", "link", "notify", "header_tip", "abc", "loop"} :
            pc' = [pc EXCEPT ![t] = p]
    BY Zenon, <1>0, <1>12 DEF Accept, Done, AcceptHeader, RejectUnindexed, RejectBody,
       WriteFails, StoreBlock, KnownBlock, Link, LinkDone, NotifyHeaderTip, HeaderTip,
       ActivateBestChain, Reject, AfterNotify
  <2>3. pc[t] \notin InStep
    BY Zenon, <1>12 DEF Accept, Done, AcceptHeader, RejectUnindexed, RejectBody, WriteFails,
       StoreBlock, KnownBlock, Link, LinkDone, NotifyHeaderTip, HeaderTip, ActivateBestChain,
       InAcceptBlock, HeaderAccepted, BodyAccepted, InStep
  <2>4. \A u \in Thread : pc'[u] = pc[u] \/ (pc[u] \notin InStep /\ pc'[u] \notin InStep)
    BY Zenon, <1>0, <2>2, <2>3 DEF InStep
  <2>. QED BY Zenon, <1>0, <2>1, <2>4, SyncStays
<1>. QED BY Zenon, <1>1, <1>2, <1>3, <1>4, <1>5, <1>6, <1>7, <1>8, <1>9, <1>10, <1>11, <1>12
     DEF Proceed, Activate

\* What the callbacks told adds up to the active chain whenever another thread
\* can look at it: no block_connected or block_disconnected is missing, doubled
\* or out of order in a reorganisation, and the last block_tip is the tip.
THEOREM Listeners == Spec => []ListenersInStep
<1>1. Init => SyncInv
  <2>. SUFFICES ASSUME Init PROVE SyncInv
    OBVIOUS
  <2>1. /\ pc = [t \in Thread |-> "idle"] /\ lsTip = Genesis /\ tipSeen = Genesis
        /\ tip = Genesis
    BY Zenon DEF Init
  <2>. QED BY <2>1 DEF SyncInv, InSync, InStep
<1>2. IInv /\ VisibleInv /\ MostWorkInv /\ SyncInv /\ [Next]_vars => SyncInv'
  <2>. SUFFICES ASSUME IInv, VisibleInv, NewTipInv, SyncInv, [Next]_vars PROVE SyncInv'
    BY Zenon DEF MostWorkInv
  <2>1. CASE UNCHANGED <<lsTip, tipSeen, tip, startTip, connected, mostWork, fatal, pc>>
    BY Zenon, <2>1, SyncStays
  <2>2. ASSUME NEW t \in Thread, NEW j \in Jobs, Begin(t, j) PROVE SyncInv'
    <3>1. /\ UNCHANGED <<lsTip, tipSeen, tip, startTip, connected, mostWork, fatal>>
          /\ pc[t] = "idle" /\ pc' = [pc EXCEPT ![t] = "accept"]
      BY Zenon, <2>2 DEF Begin
    <3>2. pc \in [Thread -> Pc]
      BY Zenon DEF IInv, TypeOK
    <3>3. \A u \in Thread : pc'[u] = pc[u] \/ (pc[u] \notin InStep /\ pc'[u] \notin InStep)
      BY Zenon, <3>1, <3>2 DEF InStep
    <3>. QED BY Zenon, <3>1, <3>3, SyncStays
  <2>3. \/ UNCHANGED <<lsTip, tipSeen, tip, startTip, connected, mostWork, fatal, pc>>
        \/ \E t \in Thread, j \in Jobs : Begin(t, j)
        \/ \E t \in Thread : Proceed(t)
    BY Zenon DEF Next, Interrupt, vars
  <2>. QED BY Zenon, <2>1, <2>2, <2>3, SyncStep
<1>3. IInv /\ SyncInv => ListenersInStep
  <2>. SUFFICES ASSUME IInv, SyncInv, csMain = NoThread, fatal = "no"
                PROVE  lsTip = tip /\ tipSeen = tip
    BY Zenon DEF ListenersInStep, Free
  <2>1. \A u \in Thread : pc[u] \notin InStep
    <3>1. LockInv /\ NoThread \notin Thread
      BY TreeFacts DEF IInv
    <3>. QED BY <3>1, Zenon DEF LockInv, InStep
  <2>. QED BY Zenon, <2>1 DEF SyncInv
<1>. QED BY <1>1, <1>2, <1>3, Inductive, VisibleInvariant, MostWorkInvariant, PTL DEF Spec
=============================================================================
