---------------------------- MODULE StorageProofs ----------------------------
(***************************************************************************)
(* The coins database comes through any number of kills, power losses and  *)
(* wipes, for every block tree, set of outpoints and file size.  After any *)
(* of these btck_chainstate_manager_create gives a manager again: what the *)
(* coins database names is in the block index on disk, with the data and   *)
(* the undo data that replay, verification and the activation of the best  *)
(* chain read.                                                             *)
(***************************************************************************)
EXTENDS Storage, WellFoundedInduction, TLAPS

PCs == {"off", "null", "flag", "index", "genesis", "coins", "replay", "tip",
        "verify", "boot", "ready", "abc", "import", "treedb", "batch", "halted"}

\* The part of TypeOK the coins depend on.
CoinTypes ==
    /\ coins \in Coins /\ coinsSafe \in Coins
    /\ best \in MaybeBlock /\ view \in View
    /\ pc \in PCs
    /\ resume \in {"off", "tip", "boot", "abc", "import"}

\* A coins database is either at rest, with the coins of its best block, or in
\* transition, with every coin as it is after the old or after the new head.
Sound(d) ==
    IF d.new = NoBlock THEN d.old = NoBlock /\ d.view = CoinsAfter(d.best)
    ELSE /\ d.best = NoBlock
         /\ \A c \in Coin : d.view[c] \in {CoinsAfter(d.old)[c], CoinsAfter(d.new)[c]}

\* While a manager runs, its cache is exact and the database at rest.
Running == pc \in {"boot", "abc", "ready", "halted", "import", "treedb"}
RunningInv == Running => view = CoinsAfter(best) /\ coins.new = NoBlock

\* In a flush the database is at rest, or on its way to the flushed block.
BatchInv ==
    pc = "batch" => /\ best \in Block /\ view = UTXO[best]
                    /\ coins.new \in {NoBlock, best}

\* In a replay every coin is as after the block reached or the new head.
ReplayInv ==
    pc = "replay" =>
        /\ coins.new \in Block /\ at \in Block
        /\ \A c \in Coin : view[c] \in {UTXO[at][c], UTXO[coins.new][c]}

VerifyInv ==
    /\ pc = "tip" => coins.new = NoBlock
    /\ pc = "verify" => /\ coins.new = NoBlock /\ at \in Block
                        /\ best = coins.best /\ view = UTXO[at]

CoinInv ==
    /\ CoinTypes /\ Sound(coins) /\ Sound(coinsSafe)
    /\ RunningInv /\ BatchInv /\ ReplayInv /\ VerifyInv

-----------------------------------------------------------------------------
(* The operators on coins.                                                 *)

\* A set of coins at every block, and none before the first.
LEMMA CoinsTyped ==
    /\ NoCoins \in View /\ UTXO[Genesis] = NoCoins
    /\ \A b \in Block : UTXO[b] \in View /\ CoinsAfter(b) = UTXO[b]
    /\ CoinsAfter(NoBlock) = NoCoins
BY TreeAssumption, CoinAssumption DEF NoCoins, View, CoinsAfter

\* DisconnectBlock of a tip leaves the coins of its parent.
LEMMA UndoneExact ==
    ASSUME NEW b \in Block \ {Genesis}
    PROVE  Prev[b] \in Block /\ Undone(b, UTXO[b]) = UTXO[Prev[b]]
<1>1. Prev[b] \in Block
    BY TreeAssumption
<1>2. UTXO[Prev[b]] \in View
    BY <1>1, CoinsTyped
<1>3. \A c \in Coin : Undone(b, UTXO[b])[c] = UTXO[Prev[b]][c]
    BY CoinAssumption DEF Undone
<1>. QED
    BY <1>1, <1>2, <1>3 DEF Undone, View

\* ConnectBlock on the coins of the parent leaves those of the block.
LEMMA AppliedExact ==
    ASSUME NEW b \in Block \ {Genesis}
    PROVE  Applied(b, UTXO[Prev[b]]) = UTXO[b]
<1>1. UTXO[b] \in View
    BY CoinsTyped
<1>2. \A c \in Coin : Applied(b, UTXO[Prev[b]])[c] = UTXO[b][c]
    BY CoinAssumption DEF Applied
<1>. QED
    BY <1>1, <1>2 DEF Applied, View

\* Both give a set of coins, whatever they are given.
LEMMA StepTyped ==
    ASSUME NEW b \in Block \ {Genesis}, NEW v \in View
    PROVE  Undone(b, v) \in View /\ Applied(b, v) \in View
<1>1. UTXO[b] \in View /\ UTXO[Prev[b]] \in View
    BY TreeAssumption, CoinsTyped
<1>. QED
    BY <1>1 DEF Undone, Applied, View

\* A genesis block is never undone.
LEMMA OffBranch ==
    ASSUME NEW b \in Block, NEW m \in Block, b \notin Anc[m]
    PROVE  b \in Block \ {Genesis}
BY TreeAssumption

-----------------------------------------------------------------------------
(* Steps that leave the coins alone.                                       *)

\* The process goes on with the same coins.
LEMMA Stays ==
    ASSUME CoinInv, UNCHANGED <<coins, coinsSafe, best, view, at>>,
           pc' \in PCs, resume' \in {"off", "tip", "boot", "abc", "import"},
           \/ pc' = pc
           \/ pc' \in {"off", "null", "flag", "index", "genesis", "coins"}
           \/ Running /\ Running'
    PROVE  CoinInv'
<1>1. CoinTypes' /\ Sound(coins)' /\ Sound(coinsSafe)'
    BY DEF CoinInv, CoinTypes, Sound
<1>2. RunningInv'
    BY DEF CoinInv, RunningInv, Running
<1>3. BatchInv' /\ ReplayInv' /\ VerifyInv'
    BY DEF CoinInv, BatchInv, ReplayInv, VerifyInv, Running
<1>. QED
    BY <1>1, <1>2, <1>3 DEF CoinInv

\* The process ends; coins and coinsSafe are as sound as before.
LEMMA Stops ==
    ASSUME CoinInv, Gone, pc' \in {"off", "null"}, resume' = "off",
           coins' \in {coins, coinsSafe}, coinsSafe' = coinsSafe
    PROVE  CoinInv'
<1>1. CoinTypes'
    BY CoinsTyped DEF CoinInv, CoinTypes, Gone, MaybeBlock, PCs
<1>2. Sound(coins)' /\ Sound(coinsSafe)'
    BY DEF CoinInv, Sound
<1>3. RunningInv' /\ BatchInv' /\ ReplayInv' /\ VerifyInv'
    BY DEF RunningInv, Running, BatchInv, ReplayInv, VerifyInv
<1>. QED
    BY <1>1, <1>2, <1>3 DEF CoinInv

-----------------------------------------------------------------------------
(* create.                                                                 *)

LEMMA InitCoinsDBStep ==
    ASSUME CoinInv, InitCoinsDB PROVE CoinInv'
<1>1. /\ pc = "coins" /\ best' = best /\ resume' = resume
      /\ \/ coins' = EmptyCoins /\ coinsSafe' = EmptyCoins
         \/ coins' = coins /\ coinsSafe' = coinsSafe
    BY Zenon DEF InitCoinsDB, Interrupted, coinsdb
<1>2. \/ coins'.new = NoBlock /\ pc' = "tip" /\ at' = at /\ view' = view
      \/ /\ coins'.new # NoBlock /\ pc' = "replay" /\ view' = coins.view
         /\ at' = IF coins.old = NoBlock THEN Genesis ELSE coins.old
    BY Zenon DEF InitCoinsDB, Interrupted
<1>3. EmptyCoins \in Coins /\ Sound(EmptyCoins) /\ EmptyCoins.new = NoBlock
    BY CoinsTyped DEF EmptyCoins, Coins, MaybeBlock, Sound
<1>4. coins' \in Coins /\ coinsSafe' \in Coins /\ Sound(coins') /\ Sound(coinsSafe')
    BY <1>1, <1>3 DEF CoinInv, CoinTypes
<1>5. CoinTypes'
    BY <1>1, <1>2, <1>4 DEF CoinInv, CoinTypes, PCs, Coins
<1>6. ReplayInv'
  <2>1. CASE pc' = "tip"
      BY <2>1 DEF ReplayInv
  <2>2. CASE pc' = "replay"
    <3>1. coins' = coins /\ coins.new # NoBlock
        BY <1>1, <1>2, <1>3, <2>2
    <3>2. coins.new \in Block /\ coins.old \in MaybeBlock /\ at' \in Block
        BY <3>1, <1>2, <2>2, TreeAssumption DEF CoinInv, CoinTypes, Coins, MaybeBlock
    <3>3. CoinsAfter(coins.old) = UTXO[at']
        BY <3>2, <1>2, <2>2, CoinsTyped DEF MaybeBlock
    <3>. QED
        BY <3>1, <3>2, <3>3, <1>2, <2>2, CoinsTyped DEF CoinInv, Sound, ReplayInv
  <2>. QED
      BY <1>2, <2>1, <2>2
<1>7. RunningInv' /\ BatchInv' /\ VerifyInv'
    BY <1>2 DEF RunningInv, Running, BatchInv, VerifyInv
<1>. QED
    BY <1>4, <1>5, <1>6, <1>7 DEF CoinInv

\* A step of the replay, back or forward, keeps every coin as after the block
\* reached or the new head.
LEMMA ReplayStep ==
    ASSUME CoinInv, RollBack \/ RollForward PROVE CoinInv'
<1>1. /\ pc = "replay" /\ pc' = pc /\ resume' = resume
      /\ coins' = coins /\ coinsSafe' = coinsSafe /\ best' = best
    BY Zenon DEF RollBack, RollForward, coinsdb, control
<1>2. /\ coins.new \in Block /\ at \in Block /\ view \in View
      /\ \A c \in Coin : view[c] \in {UTXO[at][c], UTXO[coins.new][c]}
    BY <1>1 DEF CoinInv, CoinTypes, ReplayInv
<1>3. /\ at' \in Block /\ view' \in View
      /\ \A c \in Coin : view'[c] \in {UTXO[at'][c], UTXO[coins.new][c]}
  <2>1. CASE RollBack
    <3>1. at \notin Anc[coins.new] /\ view' = Undone(at, view) /\ at' = Prev[at]
        BY <2>1, Zenon DEF RollBack
    <3>2. at \in Block \ {Genesis}
        BY <3>1, <1>2, OffBranch
    <3>3. at' \in Block /\ view' \in View
        BY <3>1, <3>2, <1>2, TreeAssumption, StepTyped
    <3>4. \A c \in Coin : view'[c] = IF c \in Touch[at] THEN UTXO[at'][c] ELSE view[c]
        BY <3>1 DEF Undone
    <3>5. \A c \in Coin \ Touch[at] : UTXO[at][c] = UTXO[at'][c]
        BY <3>1, <3>2, CoinAssumption
    <3>. QED
        BY <1>2, <3>3, <3>4, <3>5
  <2>2. CASE RollForward
    <3>1. PICK b \in Anc[coins.new] \ {Genesis} :
             Prev[b] = at /\ view' = Applied(b, view) /\ at' = b
        BY <2>2, Zenon DEF RollForward
    <3>2. b \in Block \ {Genesis}
        BY <3>1, <1>2, TreeAssumption
    <3>3. at' \in Block /\ view' \in View
        BY <3>1, <3>2, <1>2, StepTyped
    <3>4. \A c \in Coin : view'[c] = IF c \in Touch[b] THEN UTXO[b][c] ELSE view[c]
        BY <3>1 DEF Applied
    <3>5. \A c \in Coin \ Touch[b] : UTXO[at][c] = UTXO[b][c]
        BY <3>1, <3>2, CoinAssumption
    <3>. QED
        BY <1>2, <3>1, <3>3, <3>4, <3>5
  <2>. QED
      BY <2>1, <2>2
<1>4. CoinTypes' /\ Sound(coins)' /\ Sound(coinsSafe)'
    BY <1>1, <1>3 DEF CoinInv, CoinTypes, Sound
<1>5. ReplayInv'
    BY <1>1, <1>2, <1>3 DEF ReplayInv
<1>6. RunningInv' /\ BatchInv' /\ VerifyInv'
    BY <1>1 DEF RunningInv, Running, BatchInv, VerifyInv
<1>. QED
    BY <1>4, <1>5, <1>6 DEF CoinInv

\* At the new head the replayed coins are exact.
LEMMA ReplayedStep ==
    ASSUME CoinInv, Replayed PROVE CoinInv'
<1>1. /\ pc = "replay" /\ at = coins.new /\ best' = at /\ pc' = "batch"
      /\ resume' = "tip" /\ coins' = coins /\ coinsSafe' = coinsSafe /\ view' = view
    BY Zenon DEF Replayed, coinsdb
<1>2. /\ at \in Block /\ view \in View
      /\ \A c \in Coin : view[c] = UTXO[at][c]
    BY <1>1 DEF CoinInv, CoinTypes, ReplayInv
<1>3. view = UTXO[at]
    BY <1>2, CoinsTyped DEF View
<1>4. CoinTypes' /\ Sound(coins)' /\ Sound(coinsSafe)'
    BY <1>1, <1>2 DEF CoinInv, CoinTypes, Sound, MaybeBlock, PCs
<1>5. BatchInv'
    BY <1>1, <1>2, <1>3 DEF BatchInv
<1>6. RunningInv' /\ ReplayInv' /\ VerifyInv'
    BY <1>1 DEF RunningInv, Running, ReplayInv, VerifyInv
<1>. QED
    BY <1>4, <1>5, <1>6 DEF CoinInv

LEMMA LoadChainTipStep ==
    ASSUME CoinInv, LoadChainTip PROVE CoinInv'
<1>1. /\ pc = "tip" /\ best' = coins.best /\ view' = coins.view
      /\ resume' = resume /\ coins' = coins /\ coinsSafe' = coinsSafe
      /\ \/ coins.best = NoBlock /\ pc' = "boot"
         \/ coins.best # NoBlock /\ pc' = "verify" /\ at' = coins.best
    BY Zenon DEF LoadChainTip, coinsdb
<1>2. coins.new = NoBlock /\ coins.view = CoinsAfter(coins.best)
    BY <1>1 DEF CoinInv, VerifyInv, Sound
<1>3. CoinTypes' /\ Sound(coins)' /\ Sound(coinsSafe)'
    BY <1>1 DEF CoinInv, CoinTypes, Sound, Coins, PCs
<1>4. RunningInv'
    BY <1>1, <1>2 DEF RunningInv, Running
<1>5. VerifyInv'
    BY <1>1, <1>2, CoinsTyped DEF VerifyInv, CoinInv, CoinTypes, Coins, MaybeBlock
<1>6. BatchInv' /\ ReplayInv'
    BY <1>1 DEF BatchInv, ReplayInv
<1>. QED
    BY <1>3, <1>4, <1>5, <1>6 DEF CoinInv

LEMMA VerifyStep ==
    ASSUME CoinInv, VerifyBlock \/ Verified PROVE CoinInv'
<1>1. /\ pc = "verify" /\ best' = best /\ resume' = resume
      /\ coins' = coins /\ coinsSafe' = coinsSafe
    BY Zenon DEF VerifyBlock, Verified, coinsdb, control
<1>2. /\ coins.new = NoBlock /\ at \in Block /\ best = coins.best /\ view = UTXO[at]
      /\ coins.view = CoinsAfter(coins.best)
    BY <1>1 DEF CoinInv, VerifyInv, Sound
<1>3. Sound(coins)' /\ Sound(coinsSafe)'
    BY <1>1 DEF CoinInv, Sound
<1>4. CASE VerifyBlock
  <2>1. at # Genesis /\ view' = Undone(at, view) /\ at' = Prev[at] /\ pc' = pc
      BY <1>4, Zenon DEF VerifyBlock, ToVerify, control
  <2>2. at' \in Block /\ view' = UTXO[at']
      BY <2>1, <1>2, UndoneExact
  <2>3. CoinTypes'
      BY <1>1, <2>1, <2>2, CoinsTyped DEF CoinInv, CoinTypes
  <2>4. VerifyInv'
      BY <1>1, <1>2, <2>1, <2>2 DEF VerifyInv
  <2>5. RunningInv' /\ BatchInv' /\ ReplayInv'
      BY <1>1, <2>1 DEF RunningInv, Running, BatchInv, ReplayInv
  <2>. QED
      BY <1>3, <2>3, <2>4, <2>5 DEF CoinInv
<1>5. CASE Verified
  <2>1. view' = coins.view /\ pc' = "boot"
      BY <1>5, Zenon DEF Verified
  <2>2. CoinTypes'
      BY <1>1, <2>1 DEF CoinInv, CoinTypes, Coins, PCs
  <2>3. RunningInv'
      BY <1>1, <1>2, <2>1 DEF RunningInv
  <2>4. BatchInv' /\ ReplayInv' /\ VerifyInv'
      BY <2>1 DEF BatchInv, ReplayInv, VerifyInv
  <2>. QED
      BY <1>3, <2>2, <2>3, <2>4 DEF CoinInv
<1>. QED
    BY <1>4, <1>5

-----------------------------------------------------------------------------
(* A running manager.                                                      *)

\* The tip moves while the database is at rest.
LEMMA TipMoves ==
    ASSUME CoinInv, Running, pc' = pc, resume' = resume,
           coins' = coins, coinsSafe' = coinsSafe,
           best' \in Block, view' = UTXO[best']
    PROVE  CoinInv'
<1>1. CoinTypes' /\ Sound(coins)' /\ Sound(coinsSafe)'
    BY CoinsTyped DEF CoinInv, CoinTypes, Sound, MaybeBlock
<1>2. RunningInv'
    BY CoinsTyped DEF CoinInv, RunningInv
<1>3. BatchInv' /\ ReplayInv' /\ VerifyInv'
    BY DEF Running, BatchInv, ReplayInv, VerifyInv
<1>. QED
    BY <1>1, <1>2, <1>3 DEF CoinInv

LEMMA ConnectTipStep ==
    ASSUME CoinInv, ConnectTip PROVE CoinInv'
<1>1. /\ Activating /\ pc' = pc /\ resume' = resume
      /\ coins' = coins /\ coinsSafe' = coinsSafe
    BY Zenon DEF ConnectTip, coinsdb, control
<1>m. PICK m \in MostWork : \E b \in Anc[m] :
         /\ IF b = Genesis THEN best = NoBlock ELSE Prev[b] = best
         /\ IF b = Genesis THEN view' = view ELSE view' = Applied(b, view)
         /\ best' = b
    BY Zenon DEF ConnectTip
<1>2. PICK b \in Anc[m] :
         /\ IF b = Genesis THEN best = NoBlock ELSE Prev[b] = best
         /\ IF b = Genesis THEN view' = view ELSE view' = Applied(b, view)
         /\ best' = b
    BY <1>m
<1>3. b \in Block
    BY <1>2, TreeAssumption DEF MostWork
<1>4. Running /\ view = CoinsAfter(best)
    BY <1>1 DEF Activating, Running, CoinInv, RunningInv
<1>5. CASE b = Genesis
    BY <1>1, <1>2, <1>3, <1>4, <1>5, CoinsTyped, TipMoves
<1>6. CASE b # Genesis
  <2>1. best \in Block /\ view = UTXO[Prev[b]]
      BY <1>2, <1>3, <1>4, <1>6, UndoneExact, CoinsTyped
  <2>2. view' = UTXO[b]
      BY <1>2, <1>3, <1>6, <2>1, AppliedExact
  <2>. QED
      BY <1>1, <1>2, <1>3, <1>4, <2>2, TipMoves
<1>. QED
    BY <1>5, <1>6

LEMMA DisconnectTipStep ==
    ASSUME CoinInv, DisconnectTip PROVE CoinInv'
<1>1. /\ Activating /\ best # NoBlock /\ pc' = pc /\ resume' = resume
      /\ coins' = coins /\ coinsSafe' = coinsSafe
      /\ view' = Undone(best, view) /\ best' = Prev[best]
      /\ \E m \in MostWork : best \notin Anc[m]
    BY Zenon DEF DisconnectTip, coinsdb, control
<1>2. best \in Block
    BY <1>1 DEF CoinInv, CoinTypes, MaybeBlock
<1>3. best \in Block \ {Genesis}
    BY <1>1, <1>2, OffBranch DEF MostWork
<1>4. Running /\ view = UTXO[best]
    BY <1>1, <1>2, CoinsTyped DEF Activating, Running, CoinInv, RunningInv
<1>5. best' \in Block /\ view' = UTXO[best']
    BY <1>1, <1>3, <1>4, UndoneExact
<1>. QED
    BY <1>1, <1>4, <1>5, TipMoves

LEMMA ImportGenesisStep ==
    ASSUME CoinInv, ImportGenesis PROVE CoinInv'
<1>1. /\ pc = "import" /\ best = NoBlock /\ best' = Genesis /\ view' = view
      /\ pc' = pc /\ resume' = resume /\ coins' = coins /\ coinsSafe' = coinsSafe
    BY Zenon DEF ImportGenesis, coinsdb, control
<1>2. Running /\ view = UTXO[Genesis] /\ Genesis \in Block
    BY <1>1, CoinsTyped, TreeAssumption DEF Running, CoinInv, RunningInv
<1>. QED
    BY <1>1, <1>2, TipMoves

-----------------------------------------------------------------------------
(* FlushStateToDisk.                                                       *)

LEMMA WriteBlockIndexDBStep ==
    ASSUME CoinInv, WriteBlockIndexDB PROVE CoinInv'
<1>1. /\ pc = "treedb" /\ coins' = coins /\ coinsSafe' = coinsSafe
      /\ IF best = NoBlock THEN Proceed
         ELSE pc' = "batch" /\ UNCHANGED memory /\ resume' = resume
    BY Zenon DEF WriteBlockIndexDB, IndexEntries, coinsdb
<1>2. view = CoinsAfter(best) /\ coins.new = NoBlock /\ Running
    BY <1>1 DEF CoinInv, RunningInv, Running
<1>3. CASE best = NoBlock /\ resume = "off"
    BY <1>1, <1>3, Stops DEF Proceed
<1>4. CASE best = NoBlock /\ resume # "off"
  <2>1. pc' = resume /\ resume' = "off" /\ best' = best /\ view' = view
      BY <1>1, <1>4, Zenon DEF Proceed, memory
  <2>2. CoinTypes' /\ Sound(coins)' /\ Sound(coinsSafe)'
      BY <1>1, <2>1 DEF CoinInv, CoinTypes, Sound, PCs
  <2>3. RunningInv'
      BY <1>1, <1>2, <2>1 DEF RunningInv
  <2>4. pc' \in {"tip", "boot", "abc", "import"}
      BY <1>4, <2>1 DEF CoinInv, CoinTypes
  <2>5. BatchInv' /\ ReplayInv' /\ VerifyInv'
      BY <1>1, <1>2, <2>4 DEF BatchInv, ReplayInv, VerifyInv
  <2>. QED
      BY <2>2, <2>3, <2>5 DEF CoinInv
<1>5. CASE best # NoBlock
  <2>1. pc' = "batch" /\ resume' = resume /\ best' = best /\ view' = view
      BY <1>1, <1>5, Zenon DEF memory
  <2>2. CoinTypes' /\ Sound(coins)' /\ Sound(coinsSafe)'
      BY <1>1, <2>1 DEF CoinInv, CoinTypes, Sound, PCs
  <2>3. best \in Block /\ view = UTXO[best]
      BY <1>2, <1>5, CoinsTyped DEF CoinInv, CoinTypes, MaybeBlock
  <2>4. BatchInv'
      BY <1>1, <1>2, <2>1, <2>3 DEF BatchInv
  <2>5. RunningInv' /\ ReplayInv' /\ VerifyInv'
      BY <2>1 DEF RunningInv, Running, ReplayInv, VerifyInv
  <2>. QED
      BY <2>2, <2>4, <2>5 DEF CoinInv
<1>. QED
    BY <1>3, <1>4, <1>5

\* While batches are written every coin is the old or the new one.
LEMMA WritePartialBatchStep ==
    ASSUME CoinInv, WritePartialBatch PROVE CoinInv'
<1>1. /\ pc = "batch" /\ pc' = pc /\ resume' = resume /\ best' = best /\ view' = view
      /\ coinsSafe' \in Unsynced(coinsSafe, coins')
    BY Zenon DEF WritePartialBatch, memory, control
<1>2. PICK w \in SUBSET Coin :
         coins' = [best |-> NoBlock, new |-> best, old |-> OldTip,
                   view |-> [c \in Coin |-> IF c \in w THEN view[c] ELSE coins.view[c]]]
    BY ZenonT(30) DEF WritePartialBatch
<1>3. /\ best \in Block /\ view = UTXO[best] /\ view \in View
      /\ coins.new \in {NoBlock, best} /\ coins \in Coins /\ Sound(coins)
    BY <1>1 DEF CoinInv, CoinTypes, BatchInv
<1>4. OldTip \in MaybeBlock
    BY <1>3 DEF OldTip, Coins
<1>5. coins' \in Coins
  <2>1. coins.view \in View
      BY <1>3 DEF Coins
  <2>2. [c \in Coin |-> IF c \in w THEN view[c] ELSE coins.view[c]] \in View
      BY <1>3, <2>1 DEF View
  <2>. QED
      BY <1>2, <1>3, <1>4, <2>2 DEF Coins, MaybeBlock
<1>6. Sound(coins')
  <2>1. \A c \in Coin : coins.view[c] \in {CoinsAfter(OldTip)[c], UTXO[best][c]}
    <3>1. CASE coins.new = NoBlock
        BY <1>3, <3>1 DEF Sound, OldTip
    <3>2. CASE coins.new = best /\ coins.new # NoBlock
        BY <1>3, <3>2, CoinsTyped DEF Sound, OldTip
    <3>. QED
        BY <1>3, <3>1, <3>2
  <2>2. \A c \in Coin : coins'.view[c] \in {CoinsAfter(OldTip)[c], UTXO[best][c]}
      BY <1>2, <1>3, <2>1
  <2>3. coins'.new = best /\ coins'.old = OldTip /\ coins'.best = NoBlock
      BY <1>2
  <2>. QED
      BY <1>3, <2>2, <2>3, CoinsTyped, TreeAssumption DEF Sound
<1>7. CoinTypes' /\ Sound(coinsSafe')
    BY <1>1, <1>5, <1>6 DEF CoinInv, CoinTypes, Unsynced
<1>8. BatchInv'
    BY <1>1, <1>2, <1>3 DEF BatchInv
<1>9. RunningInv' /\ ReplayInv' /\ VerifyInv'
    BY <1>1 DEF RunningInv, Running, ReplayInv, VerifyInv
<1>. QED
    BY <1>6, <1>7, <1>8, <1>9 DEF CoinInv

LEMMA WriteLastBatchStep ==
    ASSUME CoinInv, WriteLastBatch PROVE CoinInv'
<1>1. /\ pc = "batch" /\ Proceed /\ coinsSafe' \in Unsynced(coinsSafe, coins')
      /\ coins' = [best |-> best, new |-> NoBlock, old |-> NoBlock, view |-> view]
    BY Zenon DEF WriteLastBatch
<1>2. best \in Block /\ view = UTXO[best] /\ view \in View
    BY <1>1 DEF CoinInv, CoinTypes, BatchInv
<1>3. coins' \in Coins
    BY <1>1, <1>2 DEF Coins, MaybeBlock
<1>4. coins'.new = NoBlock /\ Sound(coins')
    BY <1>1, <1>2, CoinsTyped DEF Sound
<1>5. coinsSafe' \in Coins /\ Sound(coinsSafe')
    BY <1>1, <1>3, <1>4 DEF CoinInv, CoinTypes, Unsynced
<1>6. CASE resume = "off"
  <2>1. Gone /\ pc' = "off" /\ resume' = "off"
      BY <1>1, <1>6 DEF Proceed
  <2>2. CoinTypes'
      BY <2>1, <1>3, <1>5, CoinsTyped DEF Gone, CoinTypes, MaybeBlock, PCs
  <2>3. RunningInv' /\ BatchInv' /\ ReplayInv' /\ VerifyInv'
      BY <2>1 DEF RunningInv, Running, BatchInv, ReplayInv, VerifyInv
  <2>. QED
      BY <1>4, <1>5, <2>2, <2>3 DEF CoinInv
<1>7. CASE resume # "off"
  <2>1. pc' = resume /\ resume' = "off" /\ best' = best /\ view' = view
      BY <1>1, <1>7, Zenon DEF Proceed, memory
  <2>2. pc' \in {"tip", "boot", "abc", "import"}
      BY <1>7, <2>1 DEF CoinInv, CoinTypes
  <2>3. CoinTypes'
      BY <1>2, <1>3, <1>5, <2>1, <2>2 DEF CoinTypes, MaybeBlock, PCs
  <2>4. RunningInv'
      BY <1>2, <1>4, <2>1, CoinsTyped DEF RunningInv
  <2>5. BatchInv' /\ ReplayInv' /\ VerifyInv'
      BY <1>4, <2>2 DEF BatchInv, ReplayInv, VerifyInv
  <2>. QED
      BY <1>4, <1>5, <2>3, <2>4, <2>5 DEF CoinInv
<1>. QED
    BY <1>6, <1>7

-----------------------------------------------------------------------------
(* The steps that move only the control, and the theorems.                 *)

LEMMA ControlStep ==
    ASSUME CoinInv,
           \/ \E wipeTree, wipeCoins \in BOOLEAN : Create(wipeTree, wipeCoins)
           \/ WriteReindexing \/ LoadBlockIndexDB \/ LoadGenesisBlock
           \/ Activated \/ ProcessBlock \/ Flush
           \/ ImportBlocks \/ ImportFlush \/ LoadExternalBlockFile
           \/ ReindexDone \/ ReindexWithoutGenesis \/ ImportInterrupted
    PROVE  CoinInv'
<1>1. /\ coins' = coins /\ coinsSafe' = coinsSafe
      /\ best' = best /\ view' = view /\ at' = at
    BY Zenon DEF Create, WriteReindexing, LoadBlockIndexDB, LoadGenesisBlock, Activated,
       ProcessBlock, Flush, ImportBlocks, ImportFlush, LoadExternalBlockFile,
       ReindexDone, ReindexWithoutGenesis, ImportInterrupted, coinsdb, memory
<1>2. resume' \in {resume, "off", "boot", "abc", "import"}
    BY DEF Create, WriteReindexing, LoadBlockIndexDB, LoadGenesisBlock, Activated,
       ProcessBlock, Flush, ImportBlocks, ImportFlush, LoadExternalBlockFile,
       ReindexDone, ReindexWithoutGenesis, ImportInterrupted, control, Activating
<1>3. \/ pc' \in {"flag", "index", "genesis", "coins"}
      \/ Running /\ pc' \in {pc, "ready", "abc", "import", "treedb", "halted"}
    BY DEF Create, WriteReindexing, LoadBlockIndexDB, LoadGenesisBlock, Activated,
       ProcessBlock, Flush, ImportBlocks, ImportFlush, LoadExternalBlockFile,
       ReindexDone, ReindexWithoutGenesis, ImportInterrupted, control, Activating,
       Running
<1>4. resume' \in {"off", "tip", "boot", "abc", "import"}
    BY <1>2 DEF CoinInv, CoinTypes
<1>5. pc' \in PCs
    BY <1>3 DEF CoinInv, CoinTypes, PCs
<1>6. pc' \in {"flag", "index", "genesis", "coins"} \/ (Running /\ Running')
    BY <1>3 DEF Running
<1>. QED
    BY <1>1, <1>4, <1>5, <1>6, Stays

LEMMA StopStep ==
    ASSUME CoinInv, CreateFails \/ ActivationFails \/ Kill \/ PowerLoss
    PROVE  CoinInv'
<1>1. CASE CreateFails
  <2>1. ReturnsNull
      BY <1>1, Zenon DEF CreateFails
  <2>. QED
      BY <2>1, Stops DEF ReturnsNull, coinsdb
<1>2. CASE ActivationFails
  <2>1. Activating /\ IF pc = "boot" THEN ReturnsNull
        ELSE /\ pc' = "halted"
             /\ UNCHANGED <<files, treedb, coinsdb, memory, resume, wipes>>
      BY <1>2, Zenon DEF ActivationFails
  <2>2. CASE pc = "boot"
      BY <2>1, <2>2, Stops DEF ReturnsNull, coinsdb
  <2>3. CASE pc # "boot"
    <3>1. /\ pc' = "halted" /\ resume' = resume /\ coins' = coins
          /\ coinsSafe' = coinsSafe /\ best' = best /\ view' = view /\ at' = at
        BY <2>1, <2>3, Zenon DEF coinsdb, memory
    <3>2. Running /\ Running' /\ pc' \in PCs
        BY <2>1, <3>1 DEF Running, Activating, PCs
    <3>. QED
        BY <3>1, <3>2, Stays DEF CoinInv, CoinTypes
  <2>. QED
      BY <2>2, <2>3
<1>3. CASE Kill
    BY <1>3, Stops DEF Kill, coinsdb
<1>4. CASE PowerLoss
  <2>1. /\ Gone /\ pc' = "off" /\ resume' = "off"
        /\ coins' = coinsSafe /\ coinsSafe' = coinsSafe
      BY <1>4, Zenon DEF PowerLoss
  <2>. QED
      BY <2>1, Stops
<1>. QED
    BY <1>1, <1>2, <1>3, <1>4

\* A stuttering step is the case pc' = pc.
LEMMA CoinStep ==
    ASSUME CoinInv, [Next]_vars PROVE CoinInv'
<1>1. CASE UNCHANGED vars
    BY <1>1, Stays DEF vars, coinsdb, memory, control, CoinInv, CoinTypes
<1>2. CASE Next
    BY <1>2, ControlStep, StopStep, InitCoinsDBStep, ReplayStep, ReplayedStep,
       LoadChainTipStep, VerifyStep, ConnectTipStep, DisconnectTipStep,
       ImportGenesisStep, WriteBlockIndexDBStep, WritePartialBatchStep,
       WriteLastBatchStep, Zenon DEF Next
<1>. QED
    BY <1>1, <1>2

LEMMA CoinsInvariant == Spec => []CoinInv
<1>1. Init => CoinInv
  <2>. SUFFICES ASSUME Init PROVE CoinInv
      OBVIOUS
  <2>1. EmptyCoins \in Coins /\ Sound(EmptyCoins)
      BY CoinsTyped DEF EmptyCoins, Coins, MaybeBlock, Sound
  <2>2. CoinTypes
      BY <2>1, CoinsTyped DEF Init, Blank, CoinTypes, MaybeBlock, PCs
  <2>3. RunningInv /\ BatchInv /\ ReplayInv /\ VerifyInv
      BY DEF Init, RunningInv, Running, BatchInv, ReplayInv, VerifyInv
  <2>. QED
      BY <2>1, <2>2, <2>3 DEF Init, CoinInv
<1>. QED
    BY <1>1, CoinStep, PTL DEF Spec

\* For every tree, set of outpoints, file size and number of incidents: the
\* coins a running manager works with are exactly those of its tip, whatever
\* was interrupted between two batches of BatchWrite or within ReplayBlocks.
THEOREM CoinsAreExact == Spec => []CoinsExact
<1>1. CoinInv => CoinsExact
    BY DEF CoinInv, RunningInv, Running, CoinsExact
<1>. QED
    BY <1>1, CoinsInvariant, PTL

\* The assertion of BatchWrite never fails: a flush that was interrupted is
\* replayed to its end before another one begins.
THEOREM FlushesFinish == Spec => []FlushFinished
<1>1. CoinInv => FlushFinished
    BY DEF CoinInv, BatchInv, FlushFinished
<1>. QED
    BY <1>1, CoinsInvariant, PTL

-----------------------------------------------------------------------------
(* The block files.                                                        *)

Bounded(p) == \E n \in Nat : \A b \in Block : p[b] <= n
DataTypes ==
    /\ blk \subseteq Block \X (Nat \ {0}) /\ blkSafe \subseteq blk
    /\ \E n \in Nat : \A x \in blk : x[2] <= n
    /\ mem \in Index /\ Bounded(mem.pos)
    /\ tree \in Index /\ Bounded(tree.pos)
    /\ treeSafe \in Index /\ treeSafe.pos = tree.pos

Safe(b, p) == <<b, p[b]>> \in blkSafe

\* What is in memory agrees with the index on disk once it is loaded.
Loaded == pc \notin {"off", "null", "flag", "index"}
LoadedInv ==
    /\ Loaded => \A b \in Indexed(tree) : mem.pos[b] = tree.pos[b]
    /\ ~Loaded => mem = NoIndex
    /\ pc = "flag" => Indexed(tree) = {}
    /\ pc = "genesis" => mem.pos[Genesis] = 0 /\ ~mem.reindex
    /\ resume # "off" => pc \in {"treedb", "batch"}
    /\ "import" \in {pc, resume} => mem.reindex

\* A block that was written and not found by a reindex is synced, or in the
\* file of the cursor, which the next flush syncs before the index.
WrittenInv ==
    \A b \in Indexed(mem) \ imported :
        \/ Safe(b, mem.pos)
        \/ /\ <<b, mem.pos[b]>> \in blk /\ mem.pos[b] = LastFile(mem)
           /\ ~mem.reindex /\ pc # "treedb"

DataInv == DataTypes /\ LoadedInv /\ WrittenInv /\ IndexedDataSafe

\* The least-number principle.
LEMMA Least ==
    ASSUME NEW T \in SUBSET Nat, T # {}
    PROVE  \E x \in T : \A y \in T : x <= y
<1>. DEFINE R == OpToRel(<, Nat)
<1>1. IsWellFoundedOn(R, Nat)
    BY ZenonT(30), NatLessThanWellFounded
<1>. HIDE DEF R
<1>2. PICK x \in T : \A y \in T : ~(<<y, x>> \in R)
    BY ZenonT(30), <1>1, WFMin
<1>3. \A i, j \in Nat : i < j => <<i, j>> \in R
    BY DEF R, OpToRel
<1>4. \A y \in T : ~(y < x)
    BY ZenonT(30), <1>2, <1>3
<1>5. \A y \in T : x <= y
    BY <1>4
<1>. QED
    BY <1>5

\* f is the file of the cursor.
IsLast(m, f) ==
    /\ f \in Nat \ {0} /\ \A b \in Block : m.pos[b] <= f
    /\ f = 1 \/ \E b \in Block : m.pos[b] = f

\* There is one, and LastFile finds it.
LEMMA LastFileIs ==
    ASSUME NEW m \in Index, NEW f, IsLast(m, f)
    PROVE  LastFile(m) = f
<1>. DEFINE Ok(h) == h # 0 /\ \A b \in Block : m.pos[b] <= h
            S == {m.pos[b] : b \in Block} \cup {1}
<1>1. f \in S /\ Ok(f) /\ S \subseteq Nat
    BY DEF IsLast, Index
<1>2. \A h \in S : Ok(h) => h = f
  <2>. SUFFICES ASSUME NEW h \in S, Ok(h) PROVE h = f
      OBVIOUS
  <2>1. h \in Nat /\ h >= 1 /\ f >= 1
      BY <1>1
  <2>2. h <= f
      BY <2>1 DEF IsLast
  <2>3. f <= h
      BY <2>1 DEF IsLast
  <2>. QED
      BY <2>1, <2>2, <2>3, <1>1
<1>3. (CHOOSE h \in S : Ok(h)) = f
    BY <1>1, <1>2
<1>. QED
    BY <1>3 DEF LastFile

LEMMA LastFileMax ==
    ASSUME NEW m \in Index, Bounded(m.pos)
    PROVE  IsLast(m, LastFile(m))
<1>1. PICK n \in Nat : \A b \in Block : m.pos[b] <= n
    BY DEF Bounded
<1>2. \A b \in Block : m.pos[b] \in Nat
    BY DEF Index
<1>. DEFINE U == {k \in Nat : k >= 1 /\ \A b \in Block : m.pos[b] <= k}
<1>3. n + 1 \in U
    BY <1>1, <1>2
<1>4. PICK f \in U : \A k \in U : f <= k
  <2>1. U \in SUBSET Nat /\ U # {}
      BY ZenonT(30), <1>3
  <2>. HIDE DEF U
  <2>. QED
      BY <2>1, Least
<1>5. f = 1 \/ \E b \in Block : m.pos[b] = f
  <2>. SUFFICES ASSUME f # 1 PROVE \E b \in Block : m.pos[b] = f
      OBVIOUS
  <2>1. f - 1 \in Nat /\ f - 1 >= 1 /\ ~(f <= f - 1)
      OBVIOUS
  <2>2. f - 1 \notin U
      BY <1>4, <2>1
  <2>3. PICK b \in Block : ~(m.pos[b] <= f - 1)
      BY <2>1, <2>2
  <2>4. m.pos[b] = f
      BY <2>1, <2>3, <1>2
  <2>. QED
      BY <2>4
<1>6. IsLast(m, f)
    BY <1>4, <1>5 DEF IsLast
<1>. QED
    BY <1>6, LastFileIs

\* WriteBlock keeps what the index knows, syncs a file before it leaves it, and
\* puts the block into the last file.
LEMMA WriteBlockKeeps ==
    ASSUME DataTypes, WrittenInv, NEW b \in Block, mem.pos[b] = 0,
           NEW m \in Index, m.pos = mem.pos, ~m.reindex, pc' # "treedb",
           WriteBlock(b, m)
    PROVE  /\ blk' \subseteq Block \X (Nat \ {0}) /\ blkSafe' \subseteq blk'
           /\ \E n \in Nat : \A x \in blk' : x[2] <= n
           /\ mem' \in Index /\ Bounded(mem'.pos) /\ mem'.reindex = FALSE
           /\ \A x \in Block \ {b} : mem'.pos[x] = mem.pos[x]
           /\ mem'.pos[b] # 0 /\ mem'.undo = m.undo /\ rev' = rev
           /\ imported' = imported \ {b}
           /\ \A x \in Indexed(mem) : Safe(x, mem.pos) => <<x, mem.pos[x]>> \in blkSafe'
           /\ WrittenInv'
<1>. DEFINE last == LastFile(mem)
            full == Cardinality(InFile(last)) >= FileCap
            f == IF full THEN last + 1 ELSE last
            kept == IF full THEN blk \ Stale(last) ELSE blk
            safe == IF full THEN Finalized(last) ELSE blkSafe
<1>1. PICK lost \in SUBSET (Stale(f) \ {<<b, f>>}) :
         /\ blk' = (kept \ lost) \cup {<<b, f>>}
         /\ blkSafe' = safe \ (lost \cup ({<<b, f>>} \ {<<Genesis, 1>>}))
         /\ mem' = [m EXCEPT !.pos[b] = f]
         /\ imported' = imported \ {b} /\ rev' = rev
  <2>1. f = FindNextBlockPos /\ kept = LeaveBlockFile.kept /\ safe = LeaveBlockFile.safe
      BY DEF FindNextBlockPos, LeaveBlockFile, FileFull
  <2>. HIDE DEF f, kept, safe
  <2>. QED
      BY Zenon, <2>1 DEF WriteBlock
<1>2. mem \in Index /\ Bounded(mem.pos)
    BY ZenonT(30) DEF DataTypes
<1>3. IsLast(mem, last)
    BY ZenonT(30), <1>2, LastFileMax
<1>4. last \in Nat \ {0} /\ \A x \in Block : mem.pos[x] \in Nat /\ mem.pos[x] <= last
    BY <1>2, <1>3 DEF IsLast, Index
<1>5. kept \subseteq blk /\ safe \subseteq kept
    BY ZenonT(30) DEF DataTypes, Finalized, Synced
<1>6. \A x \in Block : <<x, mem.pos[x]>> \notin Stale(f) \cup Stale(last)
    BY ZenonT(30) DEF Stale
<1>7. \A x \in Block : <<x, mem.pos[x]>> \in blk =>
         /\ <<x, mem.pos[x]>> \in kept
         /\ <<x, mem.pos[x]>> \in blkSafe => <<x, mem.pos[x]>> \in safe
         /\ full /\ mem.pos[x] = last => <<x, mem.pos[x]>> \in safe
    BY ZenonT(30), <1>6 DEF Finalized, Synced
<1>8. f \in Nat \ {0}
  <2>. HIDE DEF last
  <2>. QED
      BY <1>4
<1>. HIDE DEF kept, safe, full
<1>9. \A x \in Block \ {b} : <<x, mem.pos[x]>> \in blk =>
         /\ <<x, mem.pos[x]>> \in blk'
         /\ <<x, mem.pos[x]>> \in safe => <<x, mem.pos[x]>> \in blkSafe'
    BY <1>1, <1>6, <1>7
<1>10. blk' \subseteq Block \X (Nat \ {0}) /\ blkSafe' \subseteq blk'
  <2>1. blk' \subseteq Block \X (Nat \ {0})
      BY <1>1, <1>5, <1>8 DEF DataTypes
  <2>2. blkSafe' \subseteq blk'
      BY <1>1, <1>5
  <2>. QED
      BY <2>1, <2>2
<1>11. \E n \in Nat : \A x \in blk' : x[2] <= n
  <2>1. PICK n \in Nat : \A x \in blk : x[2] <= n
      BY DEF DataTypes
  <2>. HIDE DEF f
  <2>2. \A x \in blk : x[2] \in Nat
      BY DEF DataTypes
  <2>3. \A x \in blk' : x \in blk \/ x[2] = f
      BY <1>1, <1>5
  <2>4. \A x \in blk' : x[2] <= n + f
      BY <2>1, <2>2, <2>3, <1>8
  <2>5. n + f \in Nat
      BY <1>8
  <2>. QED
      BY <2>4, <2>5
<1>12. /\ mem' \in Index /\ mem'.reindex = FALSE /\ mem'.pos[b] = f /\ mem'.undo = m.undo
       /\ \A x \in Block \ {b} : mem'.pos[x] = mem.pos[x]
  <2>. HIDE DEF f
  <2>. QED
      BY <1>1, <1>8 DEF Index
<1>13. IsLast(mem', f)
  <2>1. last <= f
    <3>. HIDE DEF last
    <3>. QED
        BY <1>4
  <2>. HIDE DEF f, last
  <2>2. \A x \in Block : mem'.pos[x] <= f
      BY <1>4, <1>8, <1>12, <2>1
  <2>. QED
      BY <1>8, <1>12, <2>2 DEF IsLast
<1>14. LastFile(mem') = f /\ Bounded(mem'.pos)
  <2>. HIDE DEF f
  <2>. QED
      BY ZenonT(30), <1>12, <1>13, LastFileIs DEF IsLast, Bounded
<1>15. \A x \in Indexed(mem) : x # b
    BY DEF Indexed
<1>16. \A x \in Indexed(mem) : Safe(x, mem.pos) => <<x, mem.pos[x]>> \in blkSafe'
    BY ZenonT(30), <1>7, <1>9, <1>15 DEF Safe, Indexed, DataTypes
<1>17. WrittenInv'
  <2>. SUFFICES ASSUME NEW x \in Indexed(mem') \ imported'
                PROVE  \/ <<x, mem'.pos[x]>> \in blkSafe'
                       \/ /\ <<x, mem'.pos[x]>> \in blk' /\ mem'.pos[x] = LastFile(mem')
                          /\ ~mem'.reindex /\ pc' # "treedb"
      BY ZenonT(30) DEF WrittenInv, Safe, Indexed
  <2>1. CASE x = b
    <3>1. <<b, f>> \in blk'
        BY <1>1
    <3>. HIDE DEF f
    <3>. QED
        BY ZenonT(30), <2>1, <3>1, <1>12, <1>14
  <2>2. CASE x # b
    <3>1. x \in Indexed(mem) \ imported /\ mem'.pos[x] = mem.pos[x]
        BY <2>2, <1>1, <1>12 DEF Indexed
    <3>2. CASE Safe(x, mem.pos)
        BY ZenonT(30), <3>1, <3>2, <1>16
    <3>3. CASE <<x, mem.pos[x]>> \in blk /\ mem.pos[x] = last
      <4>1. CASE full
          BY ZenonT(30), <3>1, <3>3, <4>1, <2>2, <1>7, <1>9 DEF Indexed
      <4>2. CASE ~full
          BY ZenonT(30), <3>1, <3>3, <4>2, <2>2, <1>9, <1>12, <1>14 DEF Indexed
      <4>. QED
          BY ZenonT(30), <4>1, <4>2
    <3>. QED
        BY ZenonT(30), <3>1, <3>2, <3>3 DEF WrittenInv
  <2>. QED
      BY ZenonT(30), <2>1, <2>2
<1>. QED
    BY <1>1, <1>8, <1>10, <1>11, <1>12, <1>14, <1>16, <1>17

\* No data moves, and the index at most forgets that it is being rebuilt.
LEMMA DataStays ==
    ASSUME DataInv, blk' = blk, blkSafe' = blkSafe, imported' = imported,
           mem' \in Index, mem'.pos = mem.pos, mem'.reindex => mem.reindex,
           tree' \in Index, tree'.pos = tree.pos,
           treeSafe' \in Index, treeSafe'.pos = tree.pos,
           Loaded, Loaded', pc' \notin {"genesis", "treedb"},
           resume' # "off" => pc' = "batch",
           "import" \in {pc', resume'} => mem'.reindex
    PROVE  DataInv'
<1>1. DataTypes'
    BY ZenonT(30) DEF DataInv, DataTypes, Bounded
<1>2. Indexed(mem') = Indexed(mem) /\ Indexed(tree') = Indexed(tree)
    BY DEF Indexed
<1>3. LoadedInv'
    BY ZenonT(30), <1>2 DEF DataInv, LoadedInv, Loaded
<1>4. LastFile(mem') = LastFile(mem)
    BY DEF LastFile
<1>5. WrittenInv'
    BY <1>2, <1>4 DEF DataInv, WrittenInv, Safe
<1>6. IndexedDataSafe'
    BY <1>2 DEF DataInv, IndexedDataSafe
<1>. QED
    BY ZenonT(30), <1>1, <1>3, <1>5, <1>6 DEF DataInv

\* The process ends; the files lose nothing that is synced.
\* The empty index.
LEMMA NoIndexFacts == NoIndex \in Index /\ Bounded(NoIndex.pos) /\ Indexed(NoIndex) = {}
<1>1. NoIndex.pos = [b \in Block |-> 0] /\ NoIndex \in Index
    BY DEF NoIndex, Index
<1>2. \A b \in Block : NoIndex.pos[b] = 0
    BY Zenon, <1>1
<1>3. Bounded(NoIndex.pos)
  <2>1. 0 \in Nat /\ \A b \in Block : NoIndex.pos[b] <= 0
      BY <1>2
  <2>. QED
      BY Zenon, <2>1 DEF Bounded
<1>4. Indexed(NoIndex) = {}
    BY Zenon, <1>2 DEF Indexed
<1>. QED
    BY <1>1, <1>3, <1>4

LEMMA DataStops ==
    ASSUME DataInv, Gone, pc' \in {"off", "null"}, resume' = "off",
           blk' \subseteq blk, blkSafe \subseteq blkSafe', blkSafe' \subseteq blk',
           imported' = imported,
           tree' \in {tree, treeSafe}, treeSafe' = treeSafe
    PROVE  DataInv'
<1>1. NoIndex \in Index /\ Bounded(NoIndex.pos) /\ Indexed(NoIndex) = {}
    BY Zenon, NoIndexFacts
<1>2. mem' = NoIndex
    BY DEF Gone
<1>3. tree' \in Index /\ tree'.pos = tree.pos /\ Indexed(tree') = Indexed(tree)
    BY DEF DataInv, DataTypes, Indexed
<1>4. DataTypes'
    BY <1>1, <1>2, <1>3 DEF DataInv, DataTypes, Bounded
<1>5. LoadedInv'
    BY <1>2 DEF LoadedInv, Loaded
<1>6. WrittenInv'
    BY <1>1, <1>2 DEF WrittenInv
<1>7. IndexedDataSafe'
    BY <1>3 DEF DataInv, IndexedDataSafe
<1>. QED
    BY <1>4, <1>5, <1>6, <1>7 DEF DataInv

LEMMA CreateData ==
    ASSUME DataInv, NEW wipeTree \in BOOLEAN, NEW wipeCoins \in BOOLEAN,
           Create(wipeTree, wipeCoins)
    PROVE  DataInv'
<1>1. /\ pc \in {"off", "null"} /\ mem' = mem /\ resume' = resume
      /\ blk' = blk /\ blkSafe' = blkSafe /\ imported' = imported
      /\ \/ tree' = NoIndex /\ treeSafe' = NoIndex /\ pc' = "flag"
         \/ tree' = tree /\ treeSafe' = treeSafe /\ pc' = "index"
    BY Zenon DEF Create, files, treedb, memory
<1>2. NoIndex \in Index /\ Bounded(NoIndex.pos) /\ Indexed(NoIndex) = {}
    BY Zenon, NoIndexFacts
<1>3. mem = NoIndex /\ resume = "off"
    BY ZenonT(30), <1>1 DEF DataInv, LoadedInv, Loaded
<1>4. DataTypes'
    BY <1>1, <1>2 DEF DataInv, DataTypes, Bounded
<1>5. LoadedInv'
    BY <1>1, <1>2, <1>3 DEF LoadedInv, Loaded
<1>6. WrittenInv'
    BY <1>1, <1>2, <1>3 DEF WrittenInv
<1>7. IndexedDataSafe'
    BY <1>1, <1>2 DEF DataInv, IndexedDataSafe
<1>. QED
    BY <1>4, <1>5, <1>6, <1>7 DEF DataInv

LEMMA WriteReindexingData ==
    ASSUME DataInv, WriteReindexing PROVE DataInv'
<1>1. /\ pc = "flag" /\ pc' = "coins" /\ resume' = resume
      /\ blk' = blk /\ blkSafe' = blkSafe /\ imported' = imported
      /\ tree' = [tree EXCEPT !.reindex = TRUE] /\ mem' = [mem EXCEPT !.reindex = TRUE]
      /\ treeSafe' \in Unsynced(treeSafe, tree')
    BY Zenon DEF WriteReindexing, files
<1>2. mem = NoIndex /\ Indexed(tree) = {} /\ resume = "off"
    BY <1>1 DEF DataInv, LoadedInv, Loaded
<1>3. /\ mem' \in Index /\ Indexed(mem') = {} /\ Bounded(mem'.pos)
      /\ tree' \in Index /\ tree'.pos = tree.pos /\ Indexed(tree') = {}
    BY ZenonT(30), <1>1, <1>2 DEF DataInv, DataTypes, Index, Indexed, NoIndex, Bounded
<1>4. DataTypes'
    BY ZenonT(30), <1>1, <1>3 DEF DataInv, DataTypes, Bounded, Unsynced
<1>5. LoadedInv'
    BY ZenonT(30), <1>1, <1>2, <1>3 DEF LoadedInv, Loaded
<1>6. WrittenInv' /\ IndexedDataSafe'
    BY <1>3 DEF WrittenInv, IndexedDataSafe
<1>. QED
    BY <1>4, <1>5, <1>6 DEF DataInv

LEMMA LoadBlockIndexData ==
    ASSUME DataInv, LoadBlockIndexDB PROVE DataInv'
<1>1. /\ pc = "index" /\ mem' = tree /\ resume' = resume
      /\ blk' = blk /\ blkSafe' = blkSafe /\ imported' = imported
      /\ tree' = tree /\ treeSafe' = treeSafe
      /\ pc' = IF ~tree.reindex /\ tree.pos[Genesis] = 0 THEN "genesis" ELSE "coins"
    BY Zenon DEF LoadBlockIndexDB, files, treedb
<1>2. resume = "off"
    BY <1>1 DEF DataInv, LoadedInv
<1>3. DataTypes'
    BY <1>1 DEF DataInv, DataTypes
<1>4. LoadedInv'
    BY <1>1, <1>2 DEF LoadedInv, Loaded
<1>5. WrittenInv' /\ IndexedDataSafe'
    BY <1>1 DEF DataInv, WrittenInv, IndexedDataSafe, Safe
<1>. QED
    BY <1>3, <1>4, <1>5 DEF DataInv

\* A block is written; the tree database at most forgets the reindex.
LEMMA WriteBlockData ==
    ASSUME DataInv, NEW b \in Block, mem.pos[b] = 0,
           NEW m \in Index, m.pos = mem.pos, ~m.reindex, WriteBlock(b, m),
           tree' \in Index, tree'.pos = tree.pos,
           treeSafe' \in Index, treeSafe'.pos = tree.pos,
           Loaded, Loaded', pc' \notin {"genesis", "treedb", "import"}, resume' = "off"
    PROVE  DataInv'
<1>1. /\ blk' \subseteq Block \X (Nat \ {0}) /\ blkSafe' \subseteq blk'
      /\ \E n \in Nat : \A x \in blk' : x[2] <= n
      /\ mem' \in Index /\ Bounded(mem'.pos) /\ mem'.reindex = FALSE
      /\ \A x \in Block \ {b} : mem'.pos[x] = mem.pos[x]
      /\ imported' = imported \ {b}
      /\ \A x \in Indexed(mem) : Safe(x, mem.pos) => <<x, mem.pos[x]>> \in blkSafe'
      /\ WrittenInv'
    BY ZenonT(30), WriteBlockKeeps DEF DataInv
<1>2. Indexed(tree') = Indexed(tree) /\ b \notin Indexed(tree)
    BY DEF Indexed, DataInv, LoadedInv
<1>3. \A x \in Indexed(tree) : x \in Indexed(mem) /\ x # b /\ mem.pos[x] = tree.pos[x]
    BY ZenonT(30), <1>2 DEF Indexed, DataInv, LoadedInv
<1>4. DataTypes'
    BY ZenonT(30), <1>1 DEF DataInv, DataTypes, Bounded
<1>5. LoadedInv'
    BY ZenonT(30), <1>1, <1>2, <1>3 DEF LoadedInv, Loaded, Indexed
<1>6. IndexedDataSafe'
  <2>. SUFFICES ASSUME NEW x \in Indexed(tree') \ imported'
                PROVE  <<x, tree'.pos[x]>> \in blkSafe'
      BY DEF IndexedDataSafe, Indexed
  <2>1. x \in Indexed(tree) \ imported /\ tree'.pos[x] = mem.pos[x] /\ x \in Indexed(mem)
      BY ZenonT(30), <1>1, <1>2, <1>3
  <2>2. Safe(x, mem.pos)
      BY ZenonT(30), <2>1, <1>3 DEF DataInv, IndexedDataSafe, Safe
  <2>. QED
      BY ZenonT(30), <2>1, <2>2, <1>1
<1>. QED
    BY ZenonT(30), <1>1, <1>4, <1>5, <1>6 DEF DataInv

LEMMA WriteSteps ==
    ASSUME DataInv, LoadGenesisBlock \/ ProcessBlock \/ ReindexWithoutGenesis
    PROVE  DataInv'
<1>1. mem \in Index /\ tree \in Index /\ treeSafe \in Index /\ treeSafe.pos = tree.pos
    BY DEF DataInv, DataTypes
<1>2. Genesis \in Block
    BY TreeAssumption
<1>3. CASE LoadGenesisBlock
  <2>1. /\ pc = "genesis" /\ WriteBlock(Genesis, mem) /\ pc' = "coins"
        /\ tree' = tree /\ treeSafe' = treeSafe /\ resume' = resume
      BY <1>3, Zenon DEF LoadGenesisBlock, treedb
  <2>2. mem.pos[Genesis] = 0 /\ ~mem.reindex /\ resume = "off" /\ Loaded /\ Loaded'
      BY <2>1 DEF DataInv, LoadedInv, Loaded
  <2>. QED
      BY ZenonT(30), <1>1, <1>2, <2>1, <2>2, WriteBlockData
<1>4. CASE ProcessBlock
  <2>1. /\ pc = "ready" /\ ~mem.reindex /\ pc' = "abc"
        /\ tree' = tree /\ treeSafe' = treeSafe /\ resume' = resume
        /\ \E b \in Block \ Indexed(mem) : WriteBlock(b, mem)
      BY <1>4, Zenon DEF ProcessBlock, treedb
  <2>2. PICK b \in Block \ Indexed(mem) : WriteBlock(b, mem)
      BY <2>1
  <2>3. mem.pos[b] = 0 /\ resume = "off" /\ Loaded /\ Loaded'
      BY <2>1, <2>2 DEF DataInv, LoadedInv, Loaded, Indexed
  <2>. QED
      BY <1>1, <2>1, <2>2, <2>3, WriteBlockData
<1>5. CASE ReindexWithoutGenesis
  <2>. DEFINE m == [mem EXCEPT !.reindex = FALSE]
  <2>1. /\ pc = "import" /\ mem.pos[Genesis] = 0 /\ WriteBlock(Genesis, m)
        /\ pc' = "abc" /\ resume' = resume
        /\ tree' = [tree EXCEPT !.reindex = FALSE]
        /\ treeSafe' \in Unsynced(treeSafe, tree')
      BY <1>5, Zenon DEF ReindexWithoutGenesis
  <2>2. m \in Index /\ m.pos = mem.pos /\ ~m.reindex
      BY ZenonT(30), <1>1 DEF Index
  <2>3. /\ tree' \in Index /\ tree'.pos = tree.pos
        /\ treeSafe' \in Index /\ treeSafe'.pos = tree.pos
      BY ZenonT(30), <1>1, <2>1 DEF Index, Unsynced
  <2>4. resume' = "off" /\ Loaded /\ Loaded'
      BY <2>1 DEF DataInv, LoadedInv, Loaded
  <2>. HIDE DEF m
  <2>. QED
      BY ZenonT(30), <1>2, <2>1, <2>2, <2>3, <2>4, WriteBlockData
<1>. QED
    BY <1>3, <1>4, <1>5

\* The files up to TotalFiles are there, and a block in one of them has a
\* first one.
LEMMA TotalFilesThere == DataTypes => TotalFiles \in Nat
<1>. SUFFICES ASSUME DataTypes PROVE TotalFiles \in Nat
    OBVIOUS
<1>. DEFINE there == {x[2] : x \in blk}
            U == {k \in Nat : k + 1 \notin there}
<1>1. PICK n \in Nat : \A x \in blk : x[2] <= n
    BY DEF DataTypes
<1>2. there \subseteq Nat
    BY DEF DataTypes
<1>3. n \in U
    BY <1>1
<1>4. PICK f \in U : \A k \in U : f <= k
  <2>1. U \in SUBSET Nat
      OBVIOUS
  <2>. HIDE DEF U
  <2>. QED
      BY <2>1, <1>3, Least
<1>. HIDE DEF there
<1>5. \A k \in 1 .. f : k \in there
  <2>. SUFFICES ASSUME NEW k \in 1 .. f, k \notin there PROVE FALSE
      OBVIOUS
  <2>1. k - 1 \in Nat /\ (k - 1) + 1 = k /\ ~(f <= k - 1)
      BY <1>4
  <2>. QED
      BY <2>1, <1>4
<1>6. f \in there \cup {0} /\ 1 .. f \subseteq there /\ f + 1 \notin there
    BY <1>4, <1>5
<1>7. TotalFiles \in there \cup {0}
    BY <1>6 DEF TotalFiles, there
<1>. QED
    BY <1>2, <1>7

LEMMA FirstFileIn ==
    ASSUME DataTypes, NEW n \in 0 .. TotalFiles, NEW b \in Known(n) \ Indexed(mem)
    PROVE  FirstFile(b) \in Nat \ {0} /\ FirstFile(b) <= TotalFiles
<1>1. b \in Block /\ b \in Anc[b]
  <2>1. b \in Block
      BY DEF Known
  <2>. QED
      BY <2>1, TreeAssumption
<1>2. \E y \in blk : y[2] \in 1 .. n /\ y[1] = b
    BY <1>1 DEF Known
<1>3. PICK y \in blk : y[2] \in 1 .. n /\ y[1] = b
    BY <1>2
<1>4. y[2] \in Nat \ {0} /\ <<b, y[2]>> \in blk
    BY <1>3 DEF DataTypes
<1>5. TotalFiles \in Nat /\ y[2] <= TotalFiles
    BY <1>3, <1>4, TotalFilesThere
<1>. DEFINE T == {f \in 1 .. TotalFiles : <<b, f>> \in blk}
<1>6. T \in SUBSET Nat /\ y[2] \in T
    BY <1>4, <1>5
<1>7. PICK f \in T : \A k \in T : f <= k
  <2>. HIDE DEF T
  <2>. QED
      BY <1>6, Least
<1>8. \A h \in 1 .. f - 1 : <<b, h>> \notin blk
  <2>. SUFFICES ASSUME NEW h \in 1 .. f - 1, <<b, h>> \in blk PROVE FALSE
      OBVIOUS
  <2>1. h \in 1 .. TotalFiles /\ ~(f <= h)
      BY <1>5, <1>7
  <2>. QED
      BY <2>1, <1>7
<1>9. FirstFile(b) \in 1 .. TotalFiles
    BY <1>7, <1>8 DEF FirstFile
<1>. QED
    BY <1>5, <1>9

LEMMA FileNumbers ==
    ASSUME DataInv
    PROVE  /\ TotalFiles \in 0 .. TotalFiles
           /\ LoadExternalBlockFile => scanned + 1 \in 0 .. TotalFiles
<1>1. TotalFiles \in Nat
    BY TotalFilesThere DEF DataInv
<1>2. LoadExternalBlockFile => scanned + 1 \in 1 .. TotalFiles
    BY Zenon DEF LoadExternalBlockFile
<1>. QED
    BY <1>1, <1>2

\* A reindex adds blocks it found, while nothing waits for a sync.
LEMMA AcceptData ==
    ASSUME DataInv, NEW n \in 0 .. TotalFiles, NEW bs \in SUBSET Known(n), Accept(bs), pc = "import",
           tree' = tree, treeSafe' = treeSafe, pc' = pc, resume' = resume
    PROVE  DataInv'
<1>. DEFINE new == bs \ Indexed(mem)
<1>1. /\ mem' = [mem EXCEPT !.pos = [b \in Block |-> IF b \in new THEN FirstFile(b)
                                                                  ELSE mem.pos[b]]]
      /\ imported' = imported \cup new
      /\ blk' = blk /\ blkSafe' = blkSafe
    BY Zenon DEF Accept
<1>2. mem \in Index /\ mem.reindex /\ Loaded /\ resume = "off"
    BY DEF DataInv, DataTypes, LoadedInv, Loaded
<1>3. \A b \in new : FirstFile(b) \in Nat /\ FirstFile(b) <= TotalFiles
    BY FirstFileIn DEF DataInv
<1>4. TotalFiles \in Nat
    BY TotalFilesThere DEF DataInv
<1>. HIDE DEF new
<1>5. /\ mem' \in Index /\ mem'.reindex
      /\ \A b \in Block : mem'.pos[b] = IF b \in new THEN FirstFile(b) ELSE mem.pos[b]
    BY <1>1, <1>2, <1>3 DEF Index
<1>6. Bounded(mem'.pos)
  <2>1. PICK k \in Nat : \A b \in Block : mem.pos[b] <= k
      BY DEF DataInv, DataTypes, Bounded
  <2>2. \A b \in Block : mem.pos[b] \in Nat
      BY <1>2 DEF Index
  <2>3. ASSUME NEW b \in Block PROVE mem'.pos[b] <= k + TotalFiles
    <3>1. mem.pos[b] \in Nat /\ mem.pos[b] <= k
        BY <2>1, <2>2
    <3>2. CASE b \in new
      <4>1. mem'.pos[b] = FirstFile(b)
          BY Zenon, <1>5, <3>2
      <4>2. FirstFile(b) \in Nat /\ FirstFile(b) <= TotalFiles
          BY Zenon, <1>3, <3>2
      <4>. QED
          BY <4>1, <4>2, <1>4
    <3>3. CASE b \notin new
      <4>1. mem'.pos[b] = mem.pos[b]
          BY Zenon, <1>5, <3>3
      <4>. QED
          BY <4>1, <3>1, <1>4
    <3>. QED
        BY <3>2, <3>3
  <2>4. k + TotalFiles \in Nat
      BY <1>4
  <2>. QED
      BY <2>3, <2>4 DEF Bounded
<1>7. DataTypes'
    BY <1>1, <1>5, <1>6 DEF DataInv, DataTypes, Bounded
<1>8. \A b \in Indexed(mem) : b \notin new /\ mem'.pos[b] = mem.pos[b]
    BY ZenonT(30), <1>5 DEF new, Indexed
<1>9. LoadedInv'
  <2>1. \A b \in Indexed(tree) : b \in Indexed(mem) /\ mem.pos[b] = tree.pos[b]
      BY ZenonT(30), <1>2 DEF DataInv, LoadedInv, Indexed
  <2>. QED
      BY ZenonT(30), <1>2, <1>5, <1>8, <2>1 DEF LoadedInv, Loaded, Indexed
<1>10. WrittenInv'
  <2>1. \A b \in Indexed(mem') \ imported' : b \in Indexed(mem) \ imported
      BY <1>1, <1>5 DEF Indexed
  <2>2. \A b \in Indexed(mem) \ imported : <<b, mem.pos[b]>> \in blkSafe
      BY <1>2 DEF DataInv, WrittenInv, Safe
  <2>. QED
      BY <1>1, <1>8, <2>1, <2>2 DEF WrittenInv, Safe
<1>11. IndexedDataSafe'
    BY <1>1 DEF DataInv, IndexedDataSafe, Indexed
<1>. QED
    BY <1>7, <1>9, <1>10, <1>11 DEF DataInv

LEMMA ImportData ==
    ASSUME DataInv, ImportGenesis \/ LoadExternalBlockFile \/ ReindexDone
    PROVE  DataInv'
<1>1. CASE ImportGenesis
  <2>1. /\ pc = "import" /\ Genesis \in Known(TotalFiles) /\ Accept({Genesis})
        /\ tree' = tree /\ treeSafe' = treeSafe /\ pc' = pc /\ resume' = resume
      BY <1>1, Zenon DEF ImportGenesis, treedb, control
  <2>2. TotalFiles \in 0 .. TotalFiles
      BY FileNumbers
  <2>. QED
      BY ZenonT(30), <2>1, <2>2, AcceptData
<1>2. CASE LoadExternalBlockFile
  <2>1. /\ pc = "import" /\ Accept(Known(scanned + 1))
        /\ tree' = tree /\ treeSafe' = treeSafe /\ pc' = pc /\ resume' = resume
      BY <1>2, Zenon DEF LoadExternalBlockFile, treedb, control
  <2>2. scanned + 1 \in 0 .. TotalFiles
      BY <1>2, FileNumbers
  <2>. QED
      BY ZenonT(30), <2>1, <2>2, AcceptData
<1>3. CASE ReindexDone
  <2>1. /\ pc = "import" /\ pc' = "abc" /\ resume' = resume
        /\ blk' = blk /\ blkSafe' = blkSafe /\ imported' = imported
        /\ tree' = [tree EXCEPT !.reindex = FALSE]
        /\ treeSafe' \in Unsynced(treeSafe, tree')
        /\ mem' = [mem EXCEPT !.reindex = FALSE]
      BY <1>3, Zenon DEF ReindexDone, files
  <2>2. /\ tree' \in Index /\ tree'.pos = tree.pos
        /\ mem' \in Index /\ mem'.pos = mem.pos /\ ~mem'.reindex
        /\ treeSafe' \in Index /\ treeSafe'.pos = tree.pos
      BY ZenonT(30), <2>1 DEF DataInv, DataTypes, Index, Unsynced
  <2>3. resume' = "off" /\ Loaded /\ Loaded'
      BY <2>1 DEF DataInv, LoadedInv, Loaded
  <2>. QED
      BY <2>1, <2>2, <2>3, DataStays
<1>. QED
    BY <1>1, <1>2, <1>3

\* FlushChainstateBlockFile syncs the one file that may need it ...
LEMMA FlushData ==
    ASSUME DataInv, Flush \/ ImportFlush PROVE DataInv'
<1>1. /\ blkSafe' = Synced(blk, blkSafe, LastFile(mem)) /\ pc' = "treedb"
      /\ blk' = blk /\ imported' = imported
      /\ mem' = mem /\ tree' = tree /\ treeSafe' = treeSafe
    BY Zenon DEF Flush, ImportFlush, treedb, memory
<1>2. Loaded /\ ("import" \in {pc', resume'} => mem.reindex)
  <2>1. CASE Flush
      BY <2>1 DEF Flush, Loaded, Activating
  <2>2. CASE ImportFlush
      BY ZenonT(30), <2>2 DEF ImportFlush, Loaded, DataInv, LoadedInv
  <2>. QED
      BY <2>1, <2>2
<1>3. blkSafe \subseteq blkSafe' /\ blkSafe' \subseteq blk
    BY <1>1 DEF Synced, DataInv, DataTypes
<1>4. DataTypes'
    BY ZenonT(30), <1>1, <1>3 DEF DataInv, DataTypes, Bounded
<1>5. LoadedInv'
    BY ZenonT(30), <1>1, <1>2 DEF DataInv, LoadedInv, Loaded
<1>6. WrittenInv'
    BY <1>1, <1>3 DEF DataInv, WrittenInv, Safe, Synced
<1>7. IndexedDataSafe'
    BY <1>1, <1>3 DEF DataInv, IndexedDataSafe
<1>. QED
    BY <1>4, <1>5, <1>6, <1>7 DEF DataInv

\* ... and the index follows.
LEMMA WriteBlockIndexData ==
    ASSUME DataInv, CoinTypes, WriteBlockIndexDB PROVE DataInv'
<1>1. /\ pc = "treedb" /\ tree' = [mem EXCEPT !.reindex = tree.reindex]
      /\ treeSafe' = tree' /\ blk' = blk /\ blkSafe' = blkSafe /\ imported' = imported
      /\ \/ Proceed
         \/ pc' = "batch" /\ mem' = mem /\ resume' = resume
    BY Zenon DEF WriteBlockIndexDB, IndexEntries, files, memory
<1>2. tree' \in Index /\ tree'.pos = mem.pos /\ Indexed(tree') = Indexed(mem)
    BY <1>1 DEF DataInv, DataTypes, Index, Indexed
<1>3. IndexedDataSafe'
    BY <1>1, <1>2 DEF DataInv, WrittenInv, Safe, IndexedDataSafe
<1>4. \/ mem' = NoIndex /\ resume = "off" /\ pc' = "off" /\ resume' = "off"
      \/ mem' = mem /\ pc' = "batch" /\ resume' = resume
      \/ mem' = mem /\ resume # "off" /\ pc' = resume /\ resume' = "off"
    BY <1>1 DEF Proceed, Gone, memory
<1>5. DataTypes'
  <2>1. NoIndex \in Index /\ Bounded(NoIndex.pos)
      BY Zenon, NoIndexFacts
  <2>. QED
      BY <1>1, <1>2, <1>4, <2>1 DEF DataInv, DataTypes, Bounded
<1>6. LoadedInv'
  <2>1. CASE pc' = "off" /\ mem' = NoIndex /\ resume' = "off"
      BY <2>1 DEF LoadedInv, Loaded
  <2>2. CASE pc' = "batch" /\ mem' = mem /\ resume' = resume
      BY ZenonT(30), <1>2, <2>2 DEF DataInv, LoadedInv, Loaded
  <2>3. CASE mem' = mem /\ resume # "off" /\ pc' = resume /\ resume' = "off"
    <3>1. pc' \in {"tip", "boot", "abc", "import"}
        BY <2>3 DEF CoinTypes
    <3>. QED
        BY <1>2, <2>3, <3>1 DEF DataInv, LoadedInv, Loaded
  <2>. QED
      BY <1>4, <2>1, <2>2, <2>3
<1>7. WrittenInv'
  <2>1. CASE mem' = NoIndex
    <3>1. Indexed(NoIndex) = {}
        BY DEF NoIndex, Indexed
    <3>. QED
        BY <2>1, <3>1 DEF WrittenInv
  <2>2. CASE mem' = mem
      BY <1>1, <2>2 DEF DataInv, WrittenInv, Safe
  <2>. QED
      BY <1>4, <2>1, <2>2
<1>. QED
    BY <1>3, <1>5, <1>6, <1>7 DEF DataInv

\* Steps of create and of ActivateBestChain read the files; ConnectTip adds
\* undo data.
LEMMA ReadSteps ==
    ASSUME DataInv,
           \/ InitCoinsDB \/ RollBack \/ RollForward \/ Replayed \/ LoadChainTip
           \/ VerifyBlock \/ Verified \/ ConnectTip \/ DisconnectTip \/ Activated
           \/ WritePartialBatch \/ ImportBlocks \/ ImportInterrupted
    PROVE  DataInv'
<1>1. /\ blk' = blk /\ blkSafe' = blkSafe /\ imported' = imported
      /\ tree' = tree /\ treeSafe' = treeSafe
    BY Zenon DEF InitCoinsDB, Interrupted, RollBack, RollForward, Replayed, LoadChainTip, VerifyBlock,
       Verified, ConnectTip, DisconnectTip, Activated, WritePartialBatch, ImportBlocks,
       ImportInterrupted, files, treedb
<1>2. mem' = mem \/ \E b \in Block : mem' = [mem EXCEPT !.undo = @ \cup {b}]
  <2>1. CASE ConnectTip
    <3>1. PICK m \in MostWork : \E b \in Anc[m] : mem' = mem \/ WriteBlockUndo(b)
        BY <2>1, Zenon DEF ConnectTip
    <3>2. PICK b \in Anc[m] : mem' = mem \/ WriteBlockUndo(b)
        BY <3>1
    <3>3. b \in Block
        BY <3>1, <3>2, TreeAssumption DEF MostWork
    <3>. QED
        BY <3>2, <3>3, Zenon DEF WriteBlockUndo
  <2>2. CASE ~ConnectTip
      BY <2>2, Zenon DEF InitCoinsDB, Interrupted, RollBack, RollForward, Replayed, LoadChainTip,
         VerifyBlock, Verified, DisconnectTip, Activated, WritePartialBatch, ImportBlocks,
         ImportInterrupted, memory
  <2>. QED
      BY <2>1, <2>2
<1>3. mem' \in Index /\ mem'.pos = mem.pos /\ mem'.reindex = mem.reindex
    BY <1>2 DEF DataInv, DataTypes, Index
<1>4. /\ Loaded /\ Loaded' /\ pc' \notin {"genesis", "treedb"}
      /\ \/ resume' = resume /\ (pc' = pc \/ pc \notin {"treedb", "batch"})
         \/ pc' = "batch" /\ resume' = "tip"
      /\ pc' = "import" => mem.reindex
  <2>1. CASE InitCoinsDB \/ LoadChainTip \/ Verified \/ Replayed
      BY ZenonT(30), <2>1 DEF InitCoinsDB, Interrupted, LoadChainTip, Verified, Replayed, Loaded
  <2>2. CASE RollBack \/ RollForward \/ VerifyBlock
      BY ZenonT(30), <2>2 DEF RollBack, RollForward, VerifyBlock, control, Loaded
  <2>3. CASE ConnectTip \/ DisconnectTip \/ Activated
      BY ZenonT(30), <2>3 DEF ConnectTip, DisconnectTip, Activated, Activating, control, Loaded
  <2>4. CASE WritePartialBatch \/ ImportBlocks \/ ImportInterrupted
      BY ZenonT(30), <2>4 DEF WritePartialBatch, ImportBlocks, ImportInterrupted, control, Loaded
  <2>. QED
      BY <2>1, <2>2, <2>3, <2>4
<1>5. /\ resume' # "off" => pc' = "batch"
      /\ "import" \in {pc', resume'} => mem'.reindex
    BY ZenonT(30), <1>3, <1>4 DEF DataInv, LoadedInv
<1>6. tree \in Index /\ treeSafe \in Index /\ treeSafe.pos = tree.pos
    BY DEF DataInv, DataTypes
<1>. QED
    BY ZenonT(30), <1>1, <1>3, <1>4, <1>5, <1>6, DataStays

LEMMA EndSteps ==
    ASSUME DataInv, CoinTypes,
           CreateFails \/ ActivationFails \/ WriteLastBatch \/ Kill \/ PowerLoss
    PROVE  DataInv'
<1>. USE DEF DataInv, DataTypes
<1>1. CASE CreateFails
  <2>1. ReturnsNull
      BY <1>1, Zenon DEF CreateFails
  <2>. QED
      BY ZenonT(30), <2>1, DataStops DEF ReturnsNull, files, treedb
<1>2. CASE ActivationFails
  <2>1. Activating /\ IF pc = "boot" THEN ReturnsNull
        ELSE /\ pc' = "halted"
             /\ UNCHANGED <<files, treedb, coinsdb, memory, resume, wipes>>
      BY <1>2, Zenon DEF ActivationFails
  <2>2. CASE pc = "boot"
      BY ZenonT(30), <2>1, <2>2, DataStops DEF ReturnsNull, files, treedb
  <2>3. CASE pc # "boot"
    <3>1. /\ pc' = "halted" /\ resume' = resume /\ mem' = mem
          /\ blk' = blk /\ blkSafe' = blkSafe /\ imported' = imported
          /\ tree' = tree /\ treeSafe' = treeSafe
        BY <2>1, <2>3, Zenon DEF files, treedb, memory
    <3>2. Loaded /\ Loaded' /\ resume = "off"
        BY ZenonT(30), <2>1, <3>1 DEF Loaded, LoadedInv, Activating
    <3>. QED
        BY ZenonT(30), <3>1, <3>2, DataStays
  <2>. QED
      BY ZenonT(30), <2>2, <2>3
<1>3. CASE WriteLastBatch
  <2>1. /\ pc = "batch" /\ blk' = blk /\ blkSafe' = blkSafe /\ imported' = imported
        /\ tree' = tree /\ treeSafe' = treeSafe
        /\ pc' = resume /\ resume' = "off"
        /\ IF resume = "off" THEN Gone ELSE UNCHANGED memory
      BY <1>3, Zenon DEF WriteLastBatch, Proceed, files, treedb
  <2>2. CASE resume = "off"
      BY ZenonT(30), <2>1, <2>2, DataStops
  <2>3. CASE resume # "off"
    <3>1. mem' = mem
        BY <2>1, <2>3 DEF memory
    <3>2. pc' \in {"tip", "boot", "abc", "import"} /\ (pc' = "import" => mem.reindex)
        BY ZenonT(30), <2>1, <2>3 DEF CoinTypes, LoadedInv
    <3>3. Loaded /\ Loaded'
        BY <2>1, <3>2 DEF Loaded
    <3>. QED
        BY ZenonT(30), <2>1, <3>1, <3>2, <3>3, DataStays
  <2>. QED
      BY ZenonT(30), <2>2, <2>3
<1>4. CASE Kill
    BY ZenonT(30), <1>4, DataStops DEF Kill, files, treedb
<1>5. CASE PowerLoss
  <2>1. /\ Gone /\ pc' = "off" /\ resume' = "off" /\ imported' = imported
        /\ tree' = treeSafe /\ treeSafe' = treeSafe /\ blkSafe' = blk'
        /\ \E keep \in SUBSET (blk \ blkSafe) : blk' = blkSafe \cup keep
      BY <1>5, Zenon DEF PowerLoss
  <2>. QED
      BY ZenonT(30), <2>1, DataStops
<1>. QED
    BY ZenonT(30), <1>1, <1>2, <1>3, <1>4, <1>5

LEMMA DataStep ==
    ASSUME DataInv, CoinTypes, [Next]_vars PROVE DataInv'
<1>1. CASE UNCHANGED vars
    BY ZenonT(30), <1>1 DEF vars, files, treedb, memory, control, DataInv, DataTypes, LoadedInv,
       WrittenInv, IndexedDataSafe, Bounded, Loaded, Safe
<1>2. CASE Next
    BY <1>2, CreateData, WriteReindexingData, LoadBlockIndexData, WriteSteps, ReadSteps,
       EndSteps, FlushData, WriteBlockIndexData, ImportData, Zenon DEF Next
<1>. QED
    BY <1>1, <1>2

LEMMA DataInvariant == Spec => []DataInv
<1>1. Init => DataInv
  <2>. SUFFICES ASSUME Init PROVE DataInv
      OBVIOUS
  <2>1. NoIndex \in Index /\ Bounded(NoIndex.pos) /\ Indexed(NoIndex) = {}
      BY Zenon, NoIndexFacts
  <2>2. DataTypes
      BY <2>1 DEF Init, Blank, DataTypes
  <2>3. LoadedInv /\ WrittenInv /\ IndexedDataSafe
      BY ZenonT(30), <2>1 DEF Init, Blank, LoadedInv, Loaded, WrittenInv, IndexedDataSafe
  <2>. QED
      BY <2>2, <2>3 DEF DataInv
<1>2. CoinInv => CoinTypes
    BY DEF CoinInv
<1>. QED
    BY <1>1, <1>2, DataStep, CoinsInvariant, PTL DEF Spec

\* For every tree, file size and number of incidents: the block index on disk
\* names no block data, except what a reindex found, that a power loss could
\* take.
THEOREM DataIsSafe == Spec => []IndexedDataSafe
<1>1. DataInv => IndexedDataSafe
    BY DEF DataInv
<1>. QED
    BY <1>1, DataInvariant, PTL

-----------------------------------------------------------------------------
(* Types.                                                                  *)

\* What the invariants above leave of TypeOK.
FileTypes == imported \subseteq Block /\ rev \subseteq Block \X Nat /\ revSafe \subseteq rev

LEMMA WriteBlockFiles ==
    ASSUME FileTypes, NEW b, NEW m, WriteBlock(b, m)
    PROVE  FileTypes'
<1>1. \/ revSafe' = revSafe
      \/ revSafe' = Synced(rev, revSafe, LastFile(mem))
  BY Zenon DEF WriteBlock, LeaveUndoFile
<1>2. rev' = rev /\ imported' = imported \ {b}
  BY Zenon DEF WriteBlock
<1>. QED BY <1>1, <1>2 DEF FileTypes, Synced

LEMMA ConnectTipFiles ==
    ASSUME FileTypes, mem \in Index, ConnectTip
    PROVE  FileTypes'
<1>1. imported' = imported
  BY Zenon DEF ConnectTip
<1>2. PICK m \in MostWork : \E x \in Anc[m] :
          IF x = Genesis THEN UNCHANGED <<rev, revSafe, undoHeight, mem, view>>
          ELSE WriteBlockUndo(x) /\ view' = Applied(x, view)
  BY Zenon DEF ConnectTip
<1>3. m \in Block /\ Anc[m] \subseteq Block
  BY Zenon, TreeAssumption DEF MostWork
<1>4. PICK b \in Block : UNCHANGED <<rev, revSafe>> \/ WriteBlockUndo(b)
  BY Zenon, <1>2, <1>3
<1>5. CASE UNCHANGED <<rev, revSafe>>
  BY <1>1, <1>5 DEF FileTypes
<1>6. CASE WriteBlockUndo(b) /\ ~UNCHANGED <<rev, revSafe>>
  <2>1. /\ rev' = rev \cup {<<b, mem.pos[b]>>}
        /\ \/ revSafe' = Synced(rev', revSafe, mem.pos[b])
           \/ revSafe' = revSafe \ {<<b, mem.pos[b]>>}
    BY Zenon, <1>6 DEF WriteBlockUndo
  <2>2. mem.pos[b] \in Nat
    BY DEF Index
  <2>. QED BY <1>1, <2>1, <2>2 DEF FileTypes, Synced
<1>. QED BY Zenon, <1>4, <1>5, <1>6

LEMMA FileStep ==
    ASSUME FileTypes, DataInv, Next
    PROVE  FileTypes'
<1>0. mem \in Index
  BY Zenon DEF DataInv, DataTypes
<1>1. CASE LoadGenesisBlock \/ ProcessBlock \/ ReindexWithoutGenesis
  BY Zenon, <1>1, WriteBlockFiles DEF LoadGenesisBlock, ProcessBlock, ReindexWithoutGenesis
<1>2. CASE ConnectTip
  BY Zenon, <1>0, <1>2, ConnectTipFiles
<1>3. CASE Flush \/ ImportFlush
  <2>1. revSafe' = Synced(rev, revSafe, LastFile(mem)) /\ UNCHANGED <<rev, imported>>
    BY Zenon, <1>3 DEF Flush, ImportFlush
  <2>. QED BY <2>1 DEF FileTypes, Synced
<1>4. CASE ImportGenesis \/ LoadExternalBlockFile
  <2>1. PICK bs \in SUBSET Block : Accept(bs)
    BY ZenonT(30), <1>4, TreeAssumption DEF ImportGenesis, LoadExternalBlockFile, Known
  <2>2. imported' = imported \cup (bs \ Indexed(mem)) /\ UNCHANGED <<rev, revSafe>>
    BY Zenon, <2>1 DEF Accept
  <2>. QED BY <2>2 DEF FileTypes
<1>5. CASE PowerLoss
  <2>1. PICK keep \in SUBSET (rev \ revSafe) : rev' = revSafe \cup keep
    BY Zenon, <1>5 DEF PowerLoss
  <2>2. revSafe' = rev' /\ imported' = imported
    BY Zenon, <1>5 DEF PowerLoss
  <2>. QED BY <2>1, <2>2 DEF FileTypes
<1>6. CASE UNCHANGED <<imported, rev, revSafe>>
  BY <1>6 DEF FileTypes
<1>7. CASE \/ \E wipeTree, wipeCoins \in BOOLEAN : Create(wipeTree, wipeCoins)
           \/ WriteReindexing \/ LoadBlockIndexDB \/ InitCoinsDB
           \/ RollBack \/ RollForward \/ Replayed \/ LoadChainTip
           \/ VerifyBlock \/ Verified \/ CreateFails
  BY Zenon, <1>6, <1>7 DEF Create, WriteReindexing, LoadBlockIndexDB, InitCoinsDB, RollBack,
       RollForward, Replayed, LoadChainTip, VerifyBlock, Verified, CreateFails, ReturnsNull,
       files
<1>8. CASE \/ DisconnectTip \/ ActivationFails \/ Activated
           \/ WriteBlockIndexDB \/ WritePartialBatch \/ WriteLastBatch
           \/ ImportBlocks \/ ReindexDone \/ ImportInterrupted \/ Kill
  BY Zenon, <1>6, <1>8 DEF DisconnectTip, ActivationFails, ReturnsNull, Activated,
       WriteBlockIndexDB, WritePartialBatch, WriteLastBatch, ImportBlocks, ReindexDone,
       ImportInterrupted, Kill, files
<1>. QED BY Zenon, <1>1, <1>2, <1>3, <1>4, <1>5, <1>7, <1>8 DEF Next

\* The flags of a wipe and the count of incidents.
WipeTypes == wiping \in BOOLEAN /\ halfWiped \in BOOLEAN /\ incidents \in 0 .. MaxIncidents

LEMMA WipeStep ==
    ASSUME WipeTypes, Next
    PROVE  WipeTypes'
<1>0. ASSUME NEW i, Incident(i) PROVE incidents' \in 0 .. MaxIncidents
  BY <1>0, BoundAssumption DEF Incident, WipeTypes
<1>1. ASSUME NEW wipeTree \in BOOLEAN, NEW wipeCoins \in BOOLEAN, Create(wipeTree, wipeCoins)
      PROVE  WipeTypes'
  <2>1. incidents' \in 0 .. MaxIncidents
    BY Zenon, <1>0, <1>1 DEF Create, WipeTypes
  <2>2. wiping' = wipeCoins /\ halfWiped' = (halfWiped \/ wipeTree)
    BY Zenon, <1>1 DEF Create
  <2>. QED BY Zenon, <2>1, <2>2 DEF WipeTypes
<1>2. CASE InitCoinsDB
  BY Zenon, <1>2 DEF InitCoinsDB, WipeTypes
<1>3. CASE Kill \/ PowerLoss
  BY Zenon, <1>0, <1>3 DEF Kill, PowerLoss, WipeTypes
<1>4. CASE wiping' \in {wiping, FALSE} /\ UNCHANGED <<halfWiped, incidents>>
  BY Zenon, <1>4 DEF WipeTypes
<1>5. CASE \/ WriteReindexing \/ LoadBlockIndexDB \/ LoadGenesisBlock
           \/ RollBack \/ RollForward \/ Replayed \/ LoadChainTip
           \/ VerifyBlock \/ Verified \/ CreateFails
  BY Zenon, <1>4, <1>5 DEF WriteReindexing, LoadBlockIndexDB, LoadGenesisBlock, RollBack,
       RollForward, Replayed, LoadChainTip, VerifyBlock, Verified, CreateFails, ReturnsNull,
       wipes, control
<1>6. CASE \/ ConnectTip \/ DisconnectTip \/ ActivationFails \/ Activated \/ ProcessBlock
           \/ Flush \/ WriteBlockIndexDB \/ WritePartialBatch \/ WriteLastBatch
  BY Zenon, <1>4, <1>6 DEF ConnectTip, DisconnectTip, ActivationFails, ReturnsNull, Activated,
       ProcessBlock, Flush, WriteBlockIndexDB, WritePartialBatch, WriteLastBatch, wipes, control
<1>7. CASE \/ ImportBlocks \/ ImportGenesis \/ ImportFlush \/ LoadExternalBlockFile
           \/ ReindexDone \/ ReindexWithoutGenesis \/ ImportInterrupted
  BY Zenon, <1>4, <1>7 DEF ImportBlocks, ImportGenesis, ImportFlush, LoadExternalBlockFile,
       ReindexDone, ReindexWithoutGenesis, ImportInterrupted, wipes, control
<1>. QED BY Zenon, <1>1, <1>2, <1>3, <1>5, <1>6, <1>7 DEF Next

\* Where the process stands in the tree and in the files.
PlaceTypes == undoHeight \in Nat /\ scanned \in Nat /\ at \in MaybeBlock

LEMMA PlaceStep ==
    ASSUME PlaceTypes, CoinInv, DataInv, Next
    PROVE  PlaceTypes'
<1>0. /\ Genesis \in Block /\ Prev \in [Block \ {Genesis} -> Block]
      /\ \A b \in Block : Anc[b] \subseteq Block /\ Genesis \in Anc[b]
      /\ coins \in Coins /\ coins.old \in MaybeBlock /\ coins.best \in MaybeBlock
  BY ZenonT(30), TreeAssumption DEF CoinInv, CoinTypes, Coins
<1>1. CASE UNCHANGED memory \/ Gone
  BY <1>1 DEF PlaceTypes, memory, Gone, MaybeBlock
<1>2. CASE UNCHANGED <<undoHeight, at>> /\ (scanned' \in {scanned, 0} \/ scanned' = scanned + 1)
  BY <1>2 DEF PlaceTypes
<1>3. CASE undoHeight' \in {undoHeight, 0} /\ UNCHANGED <<at, scanned>>
  BY <1>3 DEF PlaceTypes
<1>4. CASE UNCHANGED <<undoHeight, scanned>> /\ at' \in MaybeBlock
  BY <1>4 DEF PlaceTypes
<1>5. CASE InitCoinsDB
  <2>1. UNCHANGED <<undoHeight, scanned>>
    BY Zenon, <1>5 DEF InitCoinsDB
  <2>2. at' \in MaybeBlock
    BY Zenon, <1>0, <1>5 DEF InitCoinsDB, PlaceTypes, MaybeBlock
  <2>. QED BY Zenon, <1>4, <2>1, <2>2
<1>6. CASE RollBack
  <2>1. at \in Block /\ coins.new \in Block /\ at \notin Anc[coins.new]
    BY Zenon, <1>6 DEF RollBack, CoinInv, ReplayInv
  <2>2. Prev[at] \in Block
    BY <1>0, <2>1
  <2>. QED BY Zenon, <1>4, <1>6, <2>2 DEF RollBack, MaybeBlock
<1>7. CASE RollForward
  <2>1. coins.new \in Block
    BY Zenon, <1>7 DEF RollForward, CoinInv, ReplayInv
  <2>2. at' \in Anc[coins.new]
    BY Zenon, <1>7 DEF RollForward
  <2>. QED BY Zenon, <1>0, <1>4, <1>7, <2>1, <2>2 DEF RollForward, MaybeBlock
<1>8. CASE VerifyBlock
  <2>1. at \in Block /\ at # Genesis
    BY Zenon, <1>8 DEF VerifyBlock, ToVerify, CoinInv, VerifyInv
  <2>2. Prev[at] \in Block
    BY <1>0, <2>1
  <2>. QED BY Zenon, <1>4, <1>8, <2>2 DEF VerifyBlock, MaybeBlock
<1>9. CASE LoadChainTip \/ Verified
  BY Zenon, <1>0, <1>4, <1>9 DEF LoadChainTip, Verified, MaybeBlock
<1>10. CASE ConnectTip
  <2>1. UNCHANGED <<at, scanned>>
    BY Zenon, <1>10 DEF ConnectTip
  <2>2. PICK m \in MostWork : \E b \in Anc[m] :
          undoHeight' = undoHeight \/ undoHeight' = Height(b)
    BY Zenon, <1>10 DEF ConnectTip, WriteBlockUndo
  <2>3. m \in Block
    BY Zenon DEF MostWork
  <2>4. \A b \in Block : Height(b) \in Nat
    BY HeightAssumption DEF Height
  <2>. QED BY Zenon, <1>0, <2>1, <2>2, <2>3, <2>4 DEF PlaceTypes
<1>11. CASE LoadGenesisBlock \/ ProcessBlock
  BY Zenon, <1>3, <1>11 DEF LoadGenesisBlock, ProcessBlock, WriteBlock, LeaveUndoFile
<1>12. CASE ReindexWithoutGenesis
  <2>1. undoHeight' \in {undoHeight, 0} /\ at' = at /\ scanned' = 0
    BY Zenon, <1>12 DEF ReindexWithoutGenesis, WriteBlock, LeaveUndoFile
  <2>. QED BY <2>1 DEF PlaceTypes
<1>13. CASE LoadExternalBlockFile
  <2>1. undoHeight' \in {undoHeight, 0} /\ at' = at /\ scanned' = scanned + 1
    BY Zenon, <1>13 DEF LoadExternalBlockFile
  <2>. QED BY <2>1 DEF PlaceTypes
<1>14. CASE \/ WriteReindexing \/ LoadBlockIndexDB \/ Replayed \/ DisconnectTip
            \/ ImportGenesis \/ ReindexDone \/ ImportInterrupted
  BY Zenon, <1>2, <1>14 DEF WriteReindexing, LoadBlockIndexDB, Replayed, DisconnectTip,
       ImportGenesis, ReindexDone, ImportInterrupted
<1>15. CASE \/ \E wipeTree, wipeCoins \in BOOLEAN : Create(wipeTree, wipeCoins)
            \/ CreateFails \/ ActivationFails \/ Activated \/ Flush \/ WriteBlockIndexDB
            \/ WritePartialBatch \/ WriteLastBatch \/ ImportBlocks \/ ImportFlush
            \/ Kill \/ PowerLoss
  BY Zenon, <1>1, <1>15 DEF Create, CreateFails, ReturnsNull, ActivationFails, Activated,
       Flush, WriteBlockIndexDB, WritePartialBatch, WriteLastBatch, Proceed, ImportBlocks,
       ImportFlush, Kill, PowerLoss
<1>. QED BY Zenon, <1>5, <1>6, <1>7, <1>8, <1>9, <1>10, <1>11, <1>12, <1>13, <1>14, <1>15
       DEF Next

\* The files, the databases, the index in memory and the cache are what
\* blockstorage.cpp and txdb.cpp declare, through every incident.
THEOREM TypeCorrect == Spec => []TypeOK
<1>. DEFINE Rest == FileTypes /\ WipeTypes /\ PlaceTypes
<1>1. Init => Rest
  <2>. SUFFICES ASSUME Init PROVE Rest
    OBVIOUS
  <2>1. 0 \in Nat /\ 0 \in 0 .. MaxIncidents
    BY BoundAssumption
  <2>2. FileTypes
    BY Zenon DEF Init, FileTypes
  <2>3. WipeTypes
    BY Zenon, <2>1 DEF Init, WipeTypes
  <2>4. PlaceTypes
    BY Zenon, <2>1 DEF Init, Blank, PlaceTypes, MaybeBlock
  <2>. QED BY Zenon, <2>2, <2>3, <2>4
<1>2. CoinInv /\ DataInv /\ Rest /\ [Next]_vars => Rest'
  <2>1. CASE Next
    BY Zenon, <2>1, FileStep, WipeStep, PlaceStep
  <2>2. CASE UNCHANGED vars
    BY ZenonT(30), <2>2 DEF FileTypes, WipeTypes, PlaceTypes, vars, files, memory, control, wipes
  <2>. QED BY Zenon, <2>1, <2>2
<1>3. CoinInv /\ DataInv /\ Rest => TypeOK
  <2>. SUFFICES ASSUME CoinInv, DataInv, Rest PROVE TypeOK
    OBVIOUS
  <2>1. blk \subseteq Block \X Nat
    BY DEF DataInv, DataTypes
  <2>. QED BY Zenon, <2>1 DEF CoinInv, CoinTypes, PCs, DataInv, DataTypes, FileTypes,
                              WipeTypes, PlaceTypes, TypeOK
<1>. QED BY <1>1, <1>2, <1>3, CoinsInvariant, DataInvariant, PTL DEF Spec

-----------------------------------------------------------------------------
(* The manager comes back.                                                 *)

\* The block index has the ancestors of every block it has.
Closed(m) == \A b \in Indexed(m) : Anc[b] \subseteq Indexed(m)

\* Block b was connected: its branch is in the index, and has undo data.
Rooted(b, m) == b \in Indexed(m) /\ Anc[b] \ {Genesis} \subseteq m.undo
Heads(d) == {d.best, d.new, d.old} \ {NoBlock}

TreeInv ==
    /\ Closed(tree) /\ Closed(mem)
    /\ tree.undo \subseteq Indexed(tree) /\ mem.undo \subseteq Indexed(mem)
    /\ treeSafe.undo = tree.undo
    /\ Loaded => tree.undo \subseteq mem.undo
    /\ pc \in {"off", "null", "flag", "index", "genesis", "coins"} => best = NoBlock

\* Undo data is in its file, unless it was lost before the index was loaded.
UndoInv == \A b \in mem.undo : <<b, mem.pos[b]>> \in rev \/ b \in tree.undo

\* Until create returns, what a reindex found is in the index on disk.
Booting == pc \in {"genesis", "coins", "replay", "tip", "verify", "boot"}
           \/ resume \in {"tip", "boot"}
BootInv == Booting => Indexed(mem) \cap imported \subseteq Indexed(tree)

\* Whatever the process may have to disconnect or replay was connected.
HeadInv ==
    /\ \A b \in Heads(coins) \cup Heads(coinsSafe) : Rooted(b, tree)
    /\ best # NoBlock => Rooted(best, mem)
    /\ pc = "batch" => Rooted(best, tree)
    /\ pc \in {"replay", "verify"} => Rooted(at, tree)

StructInv == TreeInv /\ UndoInv /\ BootInv

-----------------------------------------------------------------------------
(* The structure of the index.                                             *)

LEMMA SelfAncestor ==
    ASSUME NEW b \in Block PROVE b \in Anc[b] /\ Anc[b] \subseteq Block
BY TreeAssumption

LEMMA EmptyIndex ==
    /\ NoIndex \in Index /\ Indexed(NoIndex) = {} /\ NoIndex.undo = {}
    /\ Closed(NoIndex)
BY ZenonT(30) DEF NoIndex, Index, Indexed, Closed

\* The indexes stay as they are, and no undo data is lost.
LEMMA StructStays ==
    ASSUME StructInv, mem'.pos = mem.pos, mem'.undo = mem.undo,
           tree'.pos = tree.pos, tree'.undo = tree.undo, treeSafe'.undo = tree.undo,
           rev \subseteq rev', imported' = imported, Loaded, Loaded',
           pc' \notin {"genesis", "coins"}, Booting' => Booting
    PROVE  StructInv'
<1>1. Indexed(mem') = Indexed(mem) /\ Indexed(tree') = Indexed(tree)
    BY ZenonT(30) DEF Indexed
<1>2. TreeInv'
    BY ZenonT(30), <1>1 DEF StructInv, TreeInv, Closed, Loaded
<1>3. UndoInv'
    BY ZenonT(30) DEF StructInv, UndoInv
<1>4. BootInv'
    BY ZenonT(30), <1>1 DEF StructInv, BootInv
<1>. QED
    BY ZenonT(30), <1>2, <1>3, <1>4 DEF StructInv

\* The process ends.
LEMMA StructStops ==
    ASSUME StructInv, DataInv, Gone, pc' \in {"off", "null"}, resume' = "off",
           tree' \in {tree, treeSafe}, treeSafe' = treeSafe
    PROVE  StructInv'
<1>1. mem' = NoIndex /\ best' = NoBlock
    BY DEF Gone
<1>2. tree'.pos = tree.pos /\ tree'.undo = tree.undo /\ Indexed(tree') = Indexed(tree)
    BY ZenonT(30) DEF DataInv, DataTypes, StructInv, TreeInv, Indexed
<1>3. TreeInv'
    BY ZenonT(30), <1>1, <1>2, EmptyIndex DEF StructInv, TreeInv, Closed, Loaded
<1>4. UndoInv' /\ BootInv'
    BY ZenonT(30), <1>1, EmptyIndex DEF UndoInv, BootInv, Booting
<1>. QED
    BY <1>3, <1>4 DEF StructInv

LEMMA StructOpens ==
    ASSUME StructInv, DataInv,
           \/ \E wipeTree, wipeCoins \in BOOLEAN : Create(wipeTree, wipeCoins)
           \/ WriteReindexing \/ LoadBlockIndexDB
    PROVE  StructInv'
<1>1. CASE \E wipeTree, wipeCoins \in BOOLEAN : Create(wipeTree, wipeCoins)
  <2>1. /\ pc \in {"off", "null"} /\ mem' = mem /\ resume' = resume /\ best' = best
        /\ \/ tree' = NoIndex /\ treeSafe' = NoIndex
           \/ tree' = tree /\ treeSafe' = treeSafe
        /\ pc' \in {"flag", "index"}
      BY ZenonT(30), <1>1 DEF Create, treedb, memory
  <2>2. mem = NoIndex /\ resume = "off" /\ best = NoBlock
      BY ZenonT(30), <2>1 DEF DataInv, LoadedInv, Loaded, StructInv, TreeInv
  <2>3. TreeInv'
      BY ZenonT(30), <2>1, <2>2, EmptyIndex DEF StructInv, TreeInv, Loaded
  <2>4. UndoInv' /\ BootInv'
      BY ZenonT(30), <2>1, <2>2, EmptyIndex DEF UndoInv, BootInv, Booting
  <2>. QED
      BY <2>3, <2>4 DEF StructInv
<1>2. CASE WriteReindexing
  <2>1. /\ pc = "flag" /\ pc' = "coins" /\ resume' = resume /\ best' = best
        /\ tree' = [tree EXCEPT !.reindex = TRUE] /\ mem' = [mem EXCEPT !.reindex = TRUE]
        /\ treeSafe' \in Unsynced(treeSafe, tree')
      BY <1>2, Zenon DEF WriteReindexing
  <2>2. mem = NoIndex /\ Indexed(tree) = {} /\ resume = "off" /\ best = NoBlock
      BY <2>1 DEF DataInv, LoadedInv, Loaded, StructInv, TreeInv
  <2>3. tree.undo = {} /\ treeSafe.undo = {}
      BY ZenonT(30), <2>2 DEF StructInv, TreeInv
  <2>4. /\ Indexed(mem') = {} /\ mem'.undo = {} /\ Indexed(tree') = {}
        /\ tree'.undo = {} /\ treeSafe'.undo = {}
      BY <2>1, <2>2, <2>3 DEF DataInv, DataTypes, Index, Indexed, NoIndex, Unsynced
  <2>5. TreeInv'
      BY ZenonT(30), <2>1, <2>2, <2>4 DEF TreeInv, Closed
  <2>6. UndoInv' /\ BootInv'
      BY ZenonT(30), <2>4 DEF UndoInv, BootInv
  <2>. QED
      BY <2>5, <2>6 DEF StructInv
<1>3. CASE LoadBlockIndexDB
  <2>1. /\ pc = "index" /\ mem' = tree /\ resume' = resume /\ best' = best
        /\ tree' = tree /\ treeSafe' = treeSafe
      BY <1>3, Zenon DEF LoadBlockIndexDB, treedb
  <2>2. best = NoBlock
      BY ZenonT(30), <2>1 DEF StructInv, TreeInv
  <2>3. TreeInv' /\ UndoInv' /\ BootInv'
      BY ZenonT(30), <2>1, <2>2 DEF StructInv, TreeInv, UndoInv, BootInv
  <2>. QED
      BY <2>3 DEF StructInv
<1>. QED
    BY <1>1, <1>2, <1>3

\* A block is written whose ancestors are there.
LEMMA StructWrites ==
    ASSUME StructInv, DataInv, NEW b \in Block, mem.pos[b] = 0,
           Anc[b] \subseteq Indexed(mem) \cup {b},
           NEW m \in Index, m.pos = mem.pos, m.undo = mem.undo, ~m.reindex,
           WriteBlock(b, m), pc' # "treedb",
           tree'.pos = tree.pos, tree'.undo = tree.undo, treeSafe'.undo = tree.undo,
           Loaded, Loaded', pc' \in {"genesis", "coins"} => best' = NoBlock,
           Booting' => Booting
    PROVE  StructInv'
<1>1. /\ \A x \in Block \ {b} : mem'.pos[x] = mem.pos[x]
      /\ mem'.pos[b] # 0 /\ mem'.undo = mem.undo /\ rev' = rev
      /\ imported' = imported \ {b}
    BY ZenonT(30), WriteBlockKeeps DEF DataInv
<1>2. Indexed(mem') = Indexed(mem) \cup {b} /\ Indexed(tree') = Indexed(tree)
    BY ZenonT(30), <1>1 DEF Indexed
<1>3. b \notin mem.undo
    BY ZenonT(30) DEF StructInv, TreeInv, Indexed
<1>4. \A x \in Indexed(mem') : Anc[x] \subseteq Indexed(mem')
    BY ZenonT(30), <1>2 DEF StructInv, TreeInv, Closed
<1>5. TreeInv'
    BY ZenonT(30), <1>1, <1>2, <1>4 DEF StructInv, TreeInv, Closed, Loaded
<1>6. UndoInv'
    BY ZenonT(30), <1>1, <1>3 DEF StructInv, TreeInv, UndoInv, Indexed
<1>7. BootInv'
    BY ZenonT(30), <1>1, <1>2 DEF StructInv, BootInv
<1>. QED
    BY ZenonT(30), <1>5, <1>6, <1>7 DEF StructInv

LEMMA StructWriteSteps ==
    ASSUME StructInv, DataInv, LoadGenesisBlock \/ ProcessBlock \/ ReindexWithoutGenesis
    PROVE  StructInv'
<1>1. mem \in Index /\ tree \in Index /\ treeSafe.undo = tree.undo
    BY ZenonT(30) DEF DataInv, DataTypes, StructInv, TreeInv
<1>2. Genesis \in Block /\ Anc[Genesis] = {Genesis}
    BY TreeAssumption
<1>3. CASE LoadGenesisBlock
  <2>1. /\ pc = "genesis" /\ WriteBlock(Genesis, mem) /\ pc' = "coins"
        /\ tree' = tree /\ treeSafe' = treeSafe /\ resume' = resume /\ best' = best
      BY <1>3, Zenon DEF LoadGenesisBlock, treedb
  <2>2. mem.pos[Genesis] = 0 /\ ~mem.reindex /\ best = NoBlock
      BY ZenonT(30), <2>1 DEF DataInv, LoadedInv, StructInv, TreeInv
  <2>3. Loaded /\ Loaded' /\ Booting
      BY <2>1 DEF Loaded, Booting
  <2>. QED
      BY ZenonT(30), <1>1, <1>2, <2>1, <2>2, <2>3, StructWrites
<1>4. CASE ProcessBlock
  <2>1. /\ pc = "ready" /\ ~mem.reindex /\ pc' = "abc" /\ resume' = resume
        /\ tree' = tree /\ treeSafe' = treeSafe
        /\ \E b \in Block \ Indexed(mem) : Prev[b] \in Indexed(mem) /\ WriteBlock(b, mem)
      BY <1>4, Zenon DEF ProcessBlock, treedb
  <2>2. PICK b \in Block \ Indexed(mem) : Prev[b] \in Indexed(mem) /\ WriteBlock(b, mem)
      BY ZenonT(30), <2>1
  <2>3. mem.pos[b] = 0 /\ Loaded /\ Loaded' /\ (Booting' => Booting)
      BY ZenonT(30), <2>1, <2>2 DEF Indexed, Loaded, Booting
  <2>4. Anc[b] \subseteq Indexed(mem) \cup {b}
    <3>1. Anc[Prev[b]] \subseteq Indexed(mem)
        BY ZenonT(30), <2>2 DEF StructInv, TreeInv, Closed
    <3>. QED
        BY SMTT(30), <1>2, <2>2, <3>1, TreeAssumption
  <2>. QED
      BY ZenonT(30), <1>1, <2>1, <2>2, <2>3, <2>4, StructWrites
<1>5. CASE ReindexWithoutGenesis
  <2>. DEFINE m == [mem EXCEPT !.reindex = FALSE]
  <2>1. /\ pc = "import" /\ mem.pos[Genesis] = 0 /\ WriteBlock(Genesis, m)
        /\ pc' = "abc" /\ resume' = resume
        /\ tree' = [tree EXCEPT !.reindex = FALSE]
        /\ treeSafe' \in Unsynced(treeSafe, tree')
      BY <1>5, Zenon DEF ReindexWithoutGenesis
  <2>2. m \in Index /\ m.pos = mem.pos /\ m.undo = mem.undo /\ ~m.reindex
      BY ZenonT(30), <1>1 DEF Index
  <2>3. tree'.pos = tree.pos /\ tree'.undo = tree.undo /\ treeSafe'.undo = tree.undo
      BY <1>1, <2>1 DEF Index, Unsynced
  <2>4. Loaded /\ Loaded' /\ (Booting' => Booting)
      BY <2>1 DEF Loaded, Booting
  <2>. HIDE DEF m
  <2>. QED
      BY <1>2, <2>1, <2>2, <2>3, <2>4, StructWrites
<1>. QED
    BY <1>3, <1>4, <1>5

\* A reindex adds what it accepts to the index.
LEMMA AcceptGrows ==
    ASSUME DataInv, NEW n \in 0 .. TotalFiles, NEW bs \in SUBSET Known(n), Accept(bs)
    PROVE  /\ Indexed(mem') = Indexed(mem) \cup bs /\ mem'.undo = mem.undo
           /\ \A b \in Indexed(mem) : mem'.pos[b] = mem.pos[b]
           /\ rev' = rev
<1>. DEFINE new == bs \ Indexed(mem)
<1>1. /\ mem' = [mem EXCEPT !.pos = [b \in Block |-> IF b \in new THEN FirstFile(b)
                                                                  ELSE mem.pos[b]]]
      /\ rev' = rev
    BY Zenon DEF Accept
<1>2. mem \in Index
    BY DEF DataInv, DataTypes
<1>3. \A b \in new : FirstFile(b) # 0
    BY FirstFileIn DEF DataInv
<1>4. new \subseteq Block
    BY ZenonT(30) DEF Known
<1>5. /\ mem'.undo = mem.undo
      /\ \A b \in Block : mem'.pos[b] = IF b \in new THEN FirstFile(b) ELSE mem.pos[b]
    BY <1>1, <1>2 DEF Index
<1>6. Indexed(mem') = Indexed(mem) \cup new
  <2>. HIDE DEF new
  <2>. QED
      BY ZenonT(30), <1>3, <1>4, <1>5 DEF Indexed
<1>7. \A b \in Indexed(mem) : mem'.pos[b] = mem.pos[b]
    BY ZenonT(30), <1>5 DEF Indexed
<1>. QED
    BY <1>1, <1>5, <1>6, <1>7

\* It accepts a block with its ancestors.
LEMMA StructAccepts ==
    ASSUME StructInv, DataInv, NEW n \in 0 .. TotalFiles, NEW bs \in SUBSET Known(n),
           \A b \in bs : Anc[b] \subseteq bs \cup Indexed(mem),
           Accept(bs), pc = "import", pc' = pc, resume' = resume,
           tree' = tree, treeSafe' = treeSafe
    PROVE  StructInv'
<1>1. /\ Indexed(mem') = Indexed(mem) \cup bs /\ mem'.undo = mem.undo
      /\ \A b \in Indexed(mem) : mem'.pos[b] = mem.pos[b]
      /\ rev' = rev
    BY ZenonT(30), AcceptGrows
<1>2. resume = "off"
    BY ZenonT(30) DEF DataInv, LoadedInv
<1>3. TreeInv'
    BY ZenonT(30), <1>1 DEF StructInv, TreeInv, Closed, Loaded
<1>4. UndoInv'
    BY ZenonT(30), <1>1 DEF StructInv, TreeInv, UndoInv
<1>5. BootInv'
    BY ZenonT(30), <1>2 DEF BootInv, Booting
<1>. QED
    BY ZenonT(30), <1>3, <1>4, <1>5 DEF StructInv

LEMMA StructImports ==
    ASSUME StructInv, DataInv, ImportGenesis \/ LoadExternalBlockFile \/ ReindexDone
    PROVE  StructInv'
<1>1. CASE ImportGenesis
  <2>1. /\ pc = "import" /\ Genesis \in Known(TotalFiles) /\ Accept({Genesis})
        /\ tree' = tree /\ treeSafe' = treeSafe /\ pc' = pc /\ resume' = resume
      BY <1>1, Zenon DEF ImportGenesis, treedb, control
  <2>2. Anc[Genesis] = {Genesis}
      BY TreeAssumption
  <2>. QED
      BY ZenonT(30), <2>1, <2>2, FileNumbers, StructAccepts
<1>2. CASE LoadExternalBlockFile
  <2>. DEFINE n == scanned + 1
  <2>1. /\ pc = "import" /\ Accept(Known(n))
        /\ tree' = tree /\ treeSafe' = treeSafe /\ pc' = pc /\ resume' = resume
      BY <1>2, Zenon DEF LoadExternalBlockFile, treedb, control
  <2>3. n \in 0 .. TotalFiles
      BY ZenonT(30), <1>2, FileNumbers
  <2>. HIDE DEF n
  <2>2. \A b \in Known(n) : Anc[b] \subseteq Known(n)
    <3>. SUFFICES ASSUME NEW b \in Known(n), NEW a \in Anc[b] PROVE a \in Known(n)
        BY ZenonT(30)
    <3>1. b \in Block /\ a \in Block /\ Anc[a] \subseteq Anc[b]
        BY ZenonT(30), TreeAssumption DEF Known
    <3>. QED
        BY ZenonT(30), <3>1 DEF Known
  <2>. QED
      BY ZenonT(30), <2>1, <2>2, <2>3, StructAccepts
<1>3. CASE ReindexDone
  <2>1. /\ pc = "import" /\ pc' = "abc" /\ resume' = resume /\ rev' = rev
        /\ imported' = imported
        /\ tree' = [tree EXCEPT !.reindex = FALSE]
        /\ treeSafe' \in Unsynced(treeSafe, tree')
        /\ mem' = [mem EXCEPT !.reindex = FALSE]
      BY <1>3, Zenon DEF ReindexDone, files
  <2>2. /\ tree'.pos = tree.pos /\ tree'.undo = tree.undo /\ treeSafe'.undo = tree.undo
        /\ mem'.pos = mem.pos /\ mem'.undo = mem.undo
      BY <2>1 DEF DataInv, DataTypes, Index, Unsynced, StructInv, TreeInv
  <2>3. Loaded /\ Loaded' /\ (Booting' => Booting)
      BY <2>1 DEF Loaded, Booting
  <2>. QED
      BY <2>1, <2>2, <2>3, StructStays
<1>. QED
    BY <1>1, <1>2, <1>3

\* ConnectTip records the undo data that it wrote.
LEMMA StructConnects ==
    ASSUME StructInv, DataInv, ConnectTip PROVE StructInv'
<1>1. /\ Activating /\ pc' = pc /\ resume' = resume /\ imported' = imported
      /\ tree' = tree /\ treeSafe' = treeSafe
    BY Zenon DEF ConnectTip, treedb, control
<1>2. PICK m \in MostWork : \E b \in Anc[m] :
         \/ mem' = mem /\ rev' = rev
         \/ WriteBlockUndo(b)
    BY Zenon DEF ConnectTip
<1>3. PICK b \in Anc[m] :
         \/ mem' = mem /\ rev' = rev
         \/ WriteBlockUndo(b)
    BY <1>2
<1>4. b \in Indexed(mem)
    BY ZenonT(30), <1>2, <1>3 DEF MostWork
<1>5. \/ mem' = mem /\ rev' = rev
      \/ /\ mem' = [mem EXCEPT !.undo = @ \cup {b}]
         /\ rev' = rev \cup {<<b, mem.pos[b]>>}
    BY <1>3, Zenon DEF WriteBlockUndo
<1>6. Loaded /\ Loaded' /\ (Booting' => Booting) /\ pc' \notin {"genesis", "coins"}
    BY <1>1 DEF Loaded, Booting, Activating
<1>7. CASE mem' = mem /\ rev' = rev
    BY ZenonT(30), <1>1, <1>6, <1>7, StructStays DEF StructInv, TreeInv
<1>8. CASE /\ mem' = [mem EXCEPT !.undo = @ \cup {b}]
           /\ rev' = rev \cup {<<b, mem.pos[b]>>}
  <2>1. mem'.pos = mem.pos /\ mem'.undo = mem.undo \cup {b} /\ Indexed(mem') = Indexed(mem)
      BY <1>8 DEF DataInv, DataTypes, Index, Indexed
  <2>2. TreeInv'
      BY ZenonT(30), <1>1, <1>4, <1>6, <2>1 DEF StructInv, TreeInv, Closed, Loaded, Activating
  <2>3. UndoInv'
      BY <1>1, <1>8, <2>1 DEF StructInv, UndoInv
  <2>4. BootInv'
      BY ZenonT(30), <1>1, <1>6, <2>1 DEF StructInv, BootInv
  <2>. QED
      BY <2>2, <2>3, <2>4 DEF StructInv
<1>. QED
    BY <1>5, <1>7, <1>8

\* The other steps of a process leave the index alone.
LEMMA StructSteps ==
    ASSUME StructInv, DataInv,
           \/ InitCoinsDB \/ RollBack \/ RollForward \/ Replayed \/ LoadChainTip
           \/ VerifyBlock \/ Verified \/ DisconnectTip \/ Activated
           \/ WritePartialBatch \/ ImportBlocks \/ ImportInterrupted
           \/ Flush \/ ImportFlush
    PROVE  StructInv'
<1>1. /\ imported' = imported /\ rev' = rev
      /\ tree' = tree /\ treeSafe' = treeSafe /\ mem' = mem
    BY Zenon DEF InitCoinsDB, Interrupted, RollBack, RollForward, Replayed, LoadChainTip, VerifyBlock,
       Verified, DisconnectTip, Activated, WritePartialBatch, ImportBlocks,
       ImportInterrupted, Flush, ImportFlush, files, treedb, memory
<1>2. /\ Loaded /\ Loaded' /\ pc' \notin {"genesis", "coins"}
      /\ Booting' => Booting
  <2>1. CASE InitCoinsDB \/ LoadChainTip \/ Verified \/ Replayed
      BY ZenonT(30), <2>1 DEF InitCoinsDB, Interrupted, LoadChainTip, Verified, Replayed,
         Loaded, Booting
  <2>2. CASE RollBack \/ RollForward \/ VerifyBlock
      BY ZenonT(30), <2>2 DEF RollBack, RollForward, VerifyBlock, control, Loaded, Booting
  <2>3. CASE DisconnectTip \/ Activated
      BY ZenonT(30), <2>3 DEF DisconnectTip, Activated, Activating, control, Loaded, Booting
  <2>4. CASE WritePartialBatch \/ ImportBlocks \/ ImportInterrupted
      BY ZenonT(30), <2>4 DEF WritePartialBatch, ImportBlocks, ImportInterrupted, control, Loaded,
         Booting
  <2>5. CASE Flush \/ ImportFlush
      BY ZenonT(30), <2>5 DEF Flush, ImportFlush, Activating, Loaded, Booting
  <2>. QED
      BY <2>1, <2>2, <2>3, <2>4, <2>5
<1>3. treeSafe.undo = tree.undo
    BY ZenonT(30) DEF StructInv, TreeInv
<1>. QED
    BY ZenonT(30), <1>1, <1>2, <1>3, StructStays

LEMMA StructFlushes ==
    ASSUME StructInv, DataInv, CoinTypes, WriteBlockIndexDB PROVE StructInv'
<1>1. /\ pc = "treedb" /\ tree' = [mem EXCEPT !.reindex = tree.reindex]
      /\ treeSafe' = tree' /\ rev' = rev /\ imported' = imported
      /\ \/ Proceed
         \/ pc' = "batch" /\ mem' = mem
    BY Zenon DEF WriteBlockIndexDB, IndexEntries, files, memory
<1>2. tree'.pos = mem.pos /\ tree'.undo = mem.undo /\ Indexed(tree') = Indexed(mem)
    BY <1>1 DEF DataInv, DataTypes, Index, Indexed
<1>3. \/ mem' = NoIndex /\ pc' = "off" /\ best' = NoBlock
      \/ mem' = mem /\ pc' = "batch"
      \/ mem' = mem /\ resume # "off" /\ pc' = resume
    BY <1>1 DEF Proceed, Gone, memory
<1>4. CASE mem' = NoIndex /\ pc' = "off" /\ best' = NoBlock
  <2>1. TreeInv'
      BY <1>1, <1>2, <1>4, EmptyIndex DEF StructInv, TreeInv, Closed, Loaded
  <2>2. UndoInv' /\ BootInv'
      BY ZenonT(30), <1>4, EmptyIndex DEF UndoInv, BootInv
  <2>. QED
      BY <2>1, <2>2 DEF StructInv
<1>5. CASE mem' = mem /\ pc' \notin {"off", "null", "flag", "index", "genesis", "coins"}
  <2>1. TreeInv'
      BY <1>1, <1>2, <1>5 DEF StructInv, TreeInv, Closed, Loaded
  <2>2. UndoInv' /\ BootInv'
      BY <1>1, <1>2, <1>5 DEF UndoInv, BootInv
  <2>. QED
      BY <2>1, <2>2 DEF StructInv
<1>. QED
    BY <1>3, <1>4, <1>5 DEF CoinTypes

LEMMA StructEnds ==
    ASSUME StructInv, DataInv, CoinTypes,
           CreateFails \/ ActivationFails \/ WriteLastBatch \/ Kill \/ PowerLoss
    PROVE  StructInv'
<1>0. treeSafe.undo = tree.undo
    BY ZenonT(30) DEF StructInv, TreeInv
<1>1. CASE CreateFails
  <2>1. ReturnsNull
      BY <1>1, Zenon DEF CreateFails, Interrupted
  <2>. QED
      BY <2>1, StructStops DEF ReturnsNull, treedb
<1>2. CASE ActivationFails
  <2>1. Activating /\ IF pc = "boot" THEN ReturnsNull
        ELSE /\ pc' = "halted"
             /\ UNCHANGED <<files, treedb, coinsdb, memory, resume, wipes>>
      BY <1>2, Zenon DEF ActivationFails
  <2>2. CASE pc = "boot"
      BY <2>1, <2>2, StructStops DEF ReturnsNull, treedb
  <2>3. CASE pc # "boot"
    <3>1. /\ pc' = "halted" /\ resume' = resume /\ mem' = mem
          /\ rev' = rev /\ imported' = imported
          /\ tree' = tree /\ treeSafe' = treeSafe
        BY <2>1, <2>3, Zenon DEF files, treedb, memory
    <3>2. Loaded /\ Loaded' /\ (Booting' => Booting)
        BY <2>1, <3>1 DEF Loaded, Activating, Booting
    <3>. QED
        BY ZenonT(30), <1>0, <3>1, <3>2, StructStays
  <2>. QED
      BY <2>2, <2>3
<1>3. CASE WriteLastBatch
  <2>1. /\ pc = "batch" /\ rev' = rev /\ imported' = imported
        /\ tree' = tree /\ treeSafe' = treeSafe
        /\ pc' = resume /\ resume' = "off"
        /\ IF resume = "off" THEN Gone ELSE UNCHANGED memory
      BY <1>3, Zenon DEF WriteLastBatch, Proceed, files, treedb
  <2>2. CASE resume = "off"
      BY <2>1, <2>2, StructStops
  <2>3. CASE resume # "off"
    <3>1. mem' = mem
        BY <2>1, <2>3 DEF memory
    <3>2. pc' \in {"tip", "boot", "abc", "import"}
        BY <2>1, <2>3 DEF CoinTypes
    <3>3. Loaded /\ Loaded' /\ (Booting' => Booting)
        BY <2>1, <3>2 DEF Loaded, Booting
    <3>. QED
        BY ZenonT(30), <1>0, <2>1, <3>1, <3>2, <3>3, StructStays
  <2>. QED
      BY <2>2, <2>3
<1>4. CASE Kill
    BY <1>4, StructStops DEF Kill, treedb
<1>5. CASE PowerLoss
  <2>1. Gone /\ pc' = "off" /\ resume' = "off" /\ tree' = treeSafe /\ treeSafe' = treeSafe
      BY <1>5, Zenon DEF PowerLoss
  <2>. QED
      BY <2>1, StructStops
<1>. QED
    BY <1>1, <1>2, <1>3, <1>4, <1>5

LEMMA StructStep ==
    ASSUME StructInv, DataInv, CoinTypes, [Next]_vars PROVE StructInv'
<1>1. CASE UNCHANGED vars
    BY ZenonT(30), <1>1 DEF vars, files, treedb, memory, control, StructInv, TreeInv,
       UndoInv, BootInv, Closed, Loaded, Booting, Indexed
<1>2. CASE Next
    BY <1>2, StructOpens, StructWriteSteps, StructImports, StructConnects, StructSteps,
       StructFlushes, StructEnds, Zenon DEF Next
<1>. QED
    BY <1>1, <1>2

-----------------------------------------------------------------------------
(* What the coins database names.                                          *)

HeadsInv == halfWiped \/ HeadInv

LEMMA RootedAncestor ==
    ASSUME NEW m, Closed(m), NEW b, Rooted(b, m), NEW a \in Anc[b]
    PROVE  Rooted(a, m)
BY ZenonT(30), TreeAssumption DEF Rooted, Closed, Indexed

LEMMA ParentIsAncestor ==
    ASSUME NEW b \in Block \ {Genesis} PROVE Prev[b] \in Anc[b]
BY TreeAssumption, SelfAncestor

\* What is on disk is in memory.
LEMMA RootedLoaded ==
    ASSUME StructInv, DataInv, Loaded, NEW b, Rooted(b, tree)
    PROVE  Rooted(b, mem)
BY ZenonT(30) DEF Rooted, StructInv, TreeInv, DataInv, LoadedInv, Indexed

\* The indexes at most grow, and the tip stays.
LEMMA HeadStays ==
    ASSUME HeadInv, coins' = coins, coinsSafe' = coinsSafe, best' = best,
           Indexed(mem) \subseteq Indexed(mem'), mem.undo \subseteq mem'.undo,
           Indexed(tree') = Indexed(tree), tree'.undo = tree.undo,
           \/ pc' = pc /\ at' = at
           \/ pc' \notin {"batch", "replay", "verify"}
    PROVE  HeadInv'
<1>1. (\A b \in Heads(coins) \cup Heads(coinsSafe) : Rooted(b, tree))'
    BY ZenonT(30) DEF HeadInv, Heads, Rooted
<1>2. (best # NoBlock => Rooted(best, mem))'
    BY ZenonT(30) DEF HeadInv, Rooted
<1>3. (pc = "batch" => Rooted(best, tree))'
    BY ZenonT(30) DEF HeadInv, Rooted
<1>4. (pc \in {"replay", "verify"} => Rooted(at, tree))'
    BY ZenonT(30) DEF HeadInv, Rooted
<1>. QED
    BY ZenonT(30), <1>1, <1>2, <1>3, <1>4 DEF HeadInv

LEMMA HeadStops ==
    ASSUME HeadInv, StructInv, DataInv, Gone, pc' \in {"off", "null"},
           tree' \in {tree, treeSafe},
           coins' \in {coins, coinsSafe}, coinsSafe' = coinsSafe
    PROVE  HeadInv'
<1>1. Indexed(tree') = Indexed(tree) /\ tree'.undo = tree.undo
    BY ZenonT(30) DEF DataInv, DataTypes, StructInv, TreeInv, Indexed
<1>2. best' = NoBlock
    BY DEF Gone
<1>3. (\A b \in Heads(coins) \cup Heads(coinsSafe) : Rooted(b, tree))'
    BY ZenonT(30), <1>1 DEF HeadInv, Heads, Rooted
<1>. QED
    BY ZenonT(30), <1>2, <1>3 DEF HeadInv

\* Steps that write or index blocks, or move only the control.
LEMMA HeadQuiet ==
    ASSUME HeadInv, StructInv, DataInv,
           \/ WriteReindexing \/ LoadBlockIndexDB \/ LoadGenesisBlock
           \/ Verified \/ Activated \/ ProcessBlock \/ Flush
           \/ ImportBlocks \/ ImportFlush \/ LoadExternalBlockFile
           \/ ReindexDone \/ ReindexWithoutGenesis \/ ImportInterrupted
    PROVE  HeadInv'
<1>1. coins' = coins /\ coinsSafe' = coinsSafe /\ best' = best
    BY Zenon DEF WriteReindexing, LoadBlockIndexDB, LoadGenesisBlock, Verified, Activated,
       ProcessBlock, Flush, ImportBlocks, ImportFlush, LoadExternalBlockFile, ReindexDone,
       ReindexWithoutGenesis, ImportInterrupted, coinsdb, memory
<1>2. pc' \notin {"batch", "replay", "verify"}
    BY ZenonT(30) DEF WriteReindexing, LoadBlockIndexDB, LoadGenesisBlock, Verified, Activated,
       ProcessBlock, Flush, ImportBlocks, ImportFlush, LoadExternalBlockFile, ReindexDone,
       ReindexWithoutGenesis, ImportInterrupted, control
<1>3. Indexed(tree') = Indexed(tree) /\ tree'.undo = tree.undo
  <2>1. tree' = tree \/ \E r \in BOOLEAN : tree' = [tree EXCEPT !.reindex = r]
      BY Zenon DEF WriteReindexing, LoadBlockIndexDB, LoadGenesisBlock, Verified,
         Activated, ProcessBlock, Flush, ImportBlocks, ImportFlush, LoadExternalBlockFile,
         ReindexDone, ReindexWithoutGenesis, ImportInterrupted, treedb
  <2>. QED
      BY <2>1 DEF DataInv, DataTypes, Index, Indexed
<1>4. Indexed(mem) \subseteq Indexed(mem') /\ mem.undo \subseteq mem'.undo
  <2>1. CASE Verified \/ Activated \/ Flush \/ ImportBlocks \/ ImportFlush
             \/ ImportInterrupted
    <3>1. mem' = mem
        BY <2>1, Zenon DEF Verified, Activated, Flush, ImportBlocks, ImportFlush,
           ImportInterrupted, memory
    <3>. QED
        BY ZenonT(30), <3>1
  <2>2. CASE WriteReindexing \/ ReindexDone
    <3>1. \E r \in BOOLEAN : mem' = [mem EXCEPT !.reindex = r]
        BY <2>2, Zenon DEF WriteReindexing, ReindexDone
    <3>. QED
        BY <3>1 DEF DataInv, DataTypes, Index, Indexed
  <2>3. CASE LoadBlockIndexDB
    <3>1. mem = NoIndex
        BY ZenonT(30), <2>3 DEF LoadBlockIndexDB, DataInv, LoadedInv, Loaded
    <3>. QED
        BY <3>1, EmptyIndex
  <2>4. CASE LoadExternalBlockFile
    <3>1. Accept(Known(scanned + 1))
        BY <2>4, Zenon DEF LoadExternalBlockFile
    <3>. QED
        BY ZenonT(30), <2>4, <3>1, FileNumbers, AcceptGrows
  <2>5. CASE LoadGenesisBlock \/ ProcessBlock \/ ReindexWithoutGenesis
    <3>1. PICK b \in Block, m \in Index :
             /\ mem.pos[b] = 0 /\ WriteBlock(b, m)
             /\ m.pos = mem.pos /\ m.undo = mem.undo /\ ~m.reindex /\ pc' # "treedb"
      <4>1. mem \in Index /\ Genesis \in Block
          BY ZenonT(30), TreeAssumption DEF DataInv, DataTypes
      <4>2. CASE LoadGenesisBlock
        <5>1. WriteBlock(Genesis, mem) /\ pc = "genesis" /\ pc' = "coins"
            BY <4>2, Zenon DEF LoadGenesisBlock
        <5>. QED
            BY ZenonT(30), <4>1, <5>1 DEF DataInv, LoadedInv
      <4>3. CASE ProcessBlock
        <5>1. /\ ~mem.reindex /\ pc' = "abc"
              /\ \E b \in Block \ Indexed(mem) : WriteBlock(b, mem)
            BY <4>3, Zenon DEF ProcessBlock
        <5>. QED
            BY ZenonT(30), <4>1, <5>1 DEF Indexed
      <4>4. CASE ReindexWithoutGenesis
        <5>1. /\ mem.pos[Genesis] = 0 /\ pc' = "abc"
              /\ WriteBlock(Genesis, [mem EXCEPT !.reindex = FALSE])
            BY <4>4, Zenon DEF ReindexWithoutGenesis
        <5>2. [mem EXCEPT !.reindex = FALSE] \in Index
            BY ZenonT(30), <4>1 DEF Index
        <5>3. /\ [mem EXCEPT !.reindex = FALSE].pos = mem.pos
              /\ [mem EXCEPT !.reindex = FALSE].undo = mem.undo
              /\ [mem EXCEPT !.reindex = FALSE].reindex = FALSE
            BY <4>1 DEF Index
        <5>. QED
            BY ZenonT(30), <4>1, <5>1, <5>2, <5>3
      <4>. QED
          BY ZenonT(30), <2>5, <4>2, <4>3, <4>4
    <3>2. /\ \A x \in Block \ {b} : mem'.pos[x] = mem.pos[x]
          /\ mem'.pos[b] # 0 /\ mem'.undo = m.undo
        BY ZenonT(30), <3>1, WriteBlockKeeps DEF DataInv
    <3>. QED
        BY ZenonT(30), <3>1, <3>2 DEF Indexed
  <2>. QED
      BY ZenonT(30), <2>1, <2>2, <2>3, <2>4, <2>5
<1>. QED
    BY ZenonT(30), <1>1, <1>2, <1>3, <1>4, HeadStays

\* Opening: a wipe of both databases leaves HeadInv open until InitCoinsDB.
LEMMA HeadCreate ==
    ASSUME HeadsInv, StructInv, DataInv,
           \E wipeTree, wipeCoins \in BOOLEAN : Create(wipeTree, wipeCoins)
    PROVE  HeadsInv'
<1>1. /\ coins' = coins /\ coinsSafe' = coinsSafe /\ best' = best /\ mem' = mem
      /\ halfWiped => halfWiped'
      /\ halfWiped' \/ (tree' = tree /\ pc' = "index")
    BY ZenonT(30) DEF Create, coinsdb, treedb, memory
<1>2. CASE halfWiped'
    BY <1>2 DEF HeadsInv
<1>3. CASE ~halfWiped'
  <2>1. HeadInv
      BY <1>1, <1>3 DEF HeadsInv
  <2>2. HeadInv'
      BY ZenonT(30), <1>1, <1>3, <2>1, HeadStays
  <2>. QED
      BY <2>2 DEF HeadsInv
<1>. QED
    BY <1>2, <1>3

LEMMA HeadInitCoins ==
    ASSUME HeadsInv, StructInv, DataInv, CoinInv, InitCoinsDB PROVE HeadsInv'
<1>1. /\ pc = "coins" /\ best' = best /\ mem' = mem /\ tree' = tree
      /\ halfWiped' = (halfWiped /\ ~wiping)
      /\ IF wiping THEN coins' = EmptyCoins /\ coinsSafe' = EmptyCoins
                   ELSE coins' = coins /\ coinsSafe' = coinsSafe
      /\ \/ pc' = "tip"
         \/ /\ coins'.new # NoBlock /\ pc' = "replay"
            /\ at' = IF coins.old = NoBlock THEN Genesis ELSE coins.old
    BY Zenon DEF InitCoinsDB, Interrupted, coinsdb, treedb
<1>2. best = NoBlock
    BY ZenonT(30), <1>1 DEF StructInv, TreeInv
<1>3. CASE wiping
  <2>1. Heads(coins') = {} /\ Heads(coinsSafe') = {} /\ pc' = "tip"
      BY SMTT(30), <1>1, <1>3 DEF Heads, EmptyCoins
  <2>2. (\A b \in Heads(coins) \cup Heads(coinsSafe) : Rooted(b, tree))'
      BY ZenonT(30), <2>1 DEF Heads
  <2>3. HeadInv'
      BY ZenonT(30), <1>1, <1>2, <2>1, <2>2 DEF HeadInv
  <2>. QED
      BY <2>3 DEF HeadsInv
<1>4. CASE ~wiping /\ halfWiped
    BY ZenonT(30), <1>1, <1>4 DEF HeadsInv
<1>5. CASE ~wiping /\ ~halfWiped
  <2>1. HeadInv
      BY <1>5 DEF HeadsInv
  <2>2. (\A b \in Heads(coins) \cup Heads(coinsSafe) : Rooted(b, tree))'
      BY ZenonT(30), <1>1, <1>5, <2>1 DEF HeadInv, Heads, Rooted, Indexed
  <2>3. (pc \in {"replay", "verify"} => Rooted(at, tree))'
    <3>. SUFFICES ASSUME pc' = "replay" PROVE Rooted(at', tree')
        BY ZenonT(30), <1>1
    <3>1. coins.new \in Heads(coins) /\ (coins.old # NoBlock => coins.old \in Heads(coins))
        BY ZenonT(30), <1>1, <1>5 DEF Heads
    <3>2. Rooted(coins.new, tree) /\ (coins.old # NoBlock => Rooted(coins.old, tree))
        BY ZenonT(30), <2>1, <3>1 DEF HeadInv
    <3>3. Rooted(Genesis, tree)
      <4>1. Genesis \in Anc[coins.new] /\ Closed(tree)
          BY ZenonT(30), <3>2, TreeAssumption DEF Rooted, Indexed, StructInv, TreeInv
      <4>. QED
          BY ZenonT(30), <3>2, <4>1, RootedAncestor
    <3>. QED
        BY ZenonT(30), <1>1, <3>2, <3>3
  <2>4. HeadInv'
      BY ZenonT(30), <1>1, <1>2, <2>2, <2>3 DEF HeadInv
  <2>. QED
      BY <2>4 DEF HeadsInv
<1>. QED
    BY <1>3, <1>4, <1>5

\* The replay and the verification walk along branches that were connected.
LEMMA HeadWalks ==
    ASSUME HeadInv, StructInv, DataInv, CoinInv,
           RollBack \/ RollForward \/ Replayed \/ LoadChainTip \/ VerifyBlock
    PROVE  HeadInv'
<1>1. coins' = coins /\ coinsSafe' = coinsSafe /\ mem' = mem /\ tree' = tree
    BY Zenon DEF RollBack, RollForward, Replayed, LoadChainTip, VerifyBlock, coinsdb, treedb
<1>2. Closed(tree)
    BY ZenonT(30) DEF StructInv, TreeInv
<1>3. (\A b \in Heads(coins) \cup Heads(coinsSafe) : Rooted(b, tree))'
    BY ZenonT(30), <1>1 DEF HeadInv, Heads, Rooted, Indexed
<1>4. CASE RollBack \/ RollForward \/ VerifyBlock
  <2>1. pc \in {"replay", "verify"} /\ pc' = pc /\ best' = best
      BY <1>4, Zenon DEF RollBack, RollForward, VerifyBlock, control
  <2>2. Rooted(at, tree) /\ at \in Block
      BY ZenonT(30), <2>1 DEF HeadInv, Rooted, Indexed
  <2>3. Rooted(at', tree)
    <3>1. CASE RollBack
      <4>1. at \notin Anc[coins.new] /\ at' = Prev[at] /\ pc = "replay"
          BY <3>1, Zenon DEF RollBack
      <4>2. at \in Block \ {Genesis}
          BY ZenonT(30), <2>2, <4>1, OffBranch DEF CoinInv, ReplayInv
      <4>. QED
          BY ZenonT(30), <1>2, <2>2, <4>1, <4>2, ParentIsAncestor, RootedAncestor
    <3>2. CASE VerifyBlock
      <4>1. at # Genesis /\ at' = Prev[at]
          BY <3>2, Zenon DEF VerifyBlock, ToVerify
      <4>. QED
          BY ZenonT(30), <1>2, <2>2, <4>1, ParentIsAncestor, RootedAncestor
    <3>3. CASE RollForward
      <4>1. pc = "replay" /\ at' \in Anc[coins.new]
          BY <3>3, Zenon DEF RollForward
      <4>2. coins.new \in Heads(coins)
          BY ZenonT(30), <4>1, TreeAssumption DEF CoinInv, ReplayInv, Heads
      <4>3. Rooted(coins.new, tree)
          BY <4>2 DEF HeadInv
      <4>. QED
          BY ZenonT(30), <1>2, <4>1, <4>3, RootedAncestor
    <3>. QED
        BY <1>4, <3>1, <3>2, <3>3
  <2>4. pc' # "batch"
      BY <2>1
  <2>. QED
      BY ZenonT(30), <1>1, <1>3, <2>1, <2>3, <2>4 DEF HeadInv, Rooted, Indexed
<1>5. CASE Replayed
  <2>1. pc = "replay" /\ at = coins.new /\ best' = at /\ pc' = "batch"
      BY <1>5, Zenon DEF Replayed
  <2>2. Rooted(at, tree) /\ Rooted(at, mem)
      BY <2>1, RootedLoaded DEF HeadInv, Loaded
  <2>. QED
      BY ZenonT(30), <1>1, <1>3, <2>1, <2>2 DEF HeadInv, Rooted, Indexed
<1>6. CASE LoadChainTip
  <2>1. /\ pc = "tip" /\ best' = coins.best
        /\ \/ coins.best = NoBlock /\ pc' = "boot"
           \/ coins.best # NoBlock /\ pc' = "verify" /\ at' = coins.best
      BY <1>6, Zenon DEF LoadChainTip
  <2>2. coins.best # NoBlock => Rooted(coins.best, tree)
      BY DEF HeadInv, Heads
  <2>3. coins.best # NoBlock => Rooted(coins.best, mem)
      BY <2>1, <2>2, RootedLoaded DEF Loaded
  <2>. QED
      BY ZenonT(30), <1>1, <1>3, <2>1, <2>2, <2>3 DEF HeadInv, Rooted, Indexed
<1>. QED
    BY <1>4, <1>5, <1>6

LEMMA HeadMoves ==
    ASSUME HeadInv, StructInv, DataInv, CoinInv, ConnectTip \/ DisconnectTip \/ ImportGenesis
    PROVE  HeadInv'
<1>1. /\ coins' = coins /\ coinsSafe' = coinsSafe /\ tree' = tree /\ pc' = pc
      /\ pc \in {"boot", "abc", "import"}
    BY ZenonT(30) DEF ConnectTip, DisconnectTip, ImportGenesis, Activating, coinsdb, treedb, control
<1>2. (\A b \in Heads(coins) \cup Heads(coinsSafe) : Rooted(b, tree))'
    BY <1>1 DEF HeadInv, Heads, Rooted, Indexed
<1>3. best' # NoBlock => Rooted(best', mem')
  <2>1. CASE ConnectTip
    <3>1. PICK m \in MostWork : \E b \in Anc[m] :
             /\ IF b = Genesis THEN mem' = mem
                ELSE Prev[b] = best /\ WriteBlockUndo(b)
             /\ best' = b
        BY <2>1, Zenon DEF ConnectTip
    <3>2. PICK b \in Anc[m] :
             /\ IF b = Genesis THEN mem' = mem
                ELSE Prev[b] = best /\ WriteBlockUndo(b)
             /\ best' = b
        BY <3>1
    <3>3. b \in Indexed(mem) /\ b \in Block
        BY <3>1, <3>2, TreeAssumption DEF MostWork
    <3>4. CASE b = Genesis
        BY <3>2, <3>3, <3>4, TreeAssumption DEF Rooted
    <3>5. CASE b # Genesis
      <4>1. \/ b \in mem.undo /\ mem' = mem
            \/ mem' = [mem EXCEPT !.undo = @ \cup {b}]
          BY <3>2, <3>5, Zenon DEF WriteBlockUndo
      <4>2. /\ Indexed(mem') = Indexed(mem) /\ b \in mem'.undo
            /\ mem.undo \subseteq mem'.undo
          BY <4>1 DEF DataInv, DataTypes, Index, Indexed
      <4>3. best \in Block /\ best # NoBlock
          BY <3>2, <3>3, <3>5, TreeAssumption
      <4>4. Anc[best] \ {Genesis} \subseteq mem.undo
          BY ZenonT(30), <4>3 DEF HeadInv, Rooted
      <4>5. Anc[b] = Anc[best] \cup {b}
          BY <3>2, <3>3, <3>5, TreeAssumption
      <4>. QED
          BY <3>2, <3>3, <4>2, <4>4, <4>5 DEF Rooted
    <3>. QED
        BY <3>4, <3>5
  <2>2. CASE DisconnectTip
    <3>1. /\ mem' = mem /\ best # NoBlock /\ best' = Prev[best]
          /\ \E m \in MostWork : best \notin Anc[m]
        BY <2>2, Zenon DEF DisconnectTip
    <3>2. Rooted(best, mem) /\ best \in Block
        BY <3>1 DEF HeadInv, Rooted, Indexed
    <3>3. best \in Block \ {Genesis}
        BY ZenonT(30), <3>1, <3>2, OffBranch DEF MostWork
    <3>4. Closed(mem) /\ Prev[best] \in Anc[best]
        BY <3>3, ParentIsAncestor DEF StructInv, TreeInv
    <3>. QED
        BY <3>1, <3>2, <3>4, RootedAncestor
  <2>3. CASE ImportGenesis
    <3>1. Accept({Genesis}) /\ Genesis \in Known(TotalFiles) /\ best' = Genesis
        BY <2>3, Zenon DEF ImportGenesis
    <3>2. TotalFiles \in 0 .. TotalFiles
        BY Zenon, FileNumbers
    <3>3. {Genesis} \in SUBSET Known(TotalFiles)
        BY Zenon, <3>1
    <3>4. Indexed(mem') = Indexed(mem) \cup {Genesis}
        BY ZenonT(30), <3>1, <3>2, <3>3, AcceptGrows
    <3>. QED
        BY <3>1, <3>4, TreeAssumption DEF Rooted
  <2>. QED
      BY <2>1, <2>2, <2>3
<1>. QED
    BY <1>1, <1>2, <1>3 DEF HeadInv

\* A flush writes the index before the coins.
LEMMA HeadFlushes ==
    ASSUME HeadInv, StructInv, DataInv, CoinInv,
           WriteBlockIndexDB \/ WritePartialBatch \/ WriteLastBatch
    PROVE  HeadInv'
<1>1. CASE WriteBlockIndexDB
  <2>1. /\ pc = "treedb" /\ tree' = [mem EXCEPT !.reindex = tree.reindex]
        /\ coins' = coins /\ coinsSafe' = coinsSafe
        /\ IF best = NoBlock THEN Proceed ELSE pc' = "batch" /\ UNCHANGED memory
      BY <1>1, Zenon DEF WriteBlockIndexDB, IndexEntries, coinsdb
  <2>2. Indexed(tree') = Indexed(mem) /\ tree'.undo = mem.undo
      BY <2>1 DEF DataInv, DataTypes, Index, Indexed
  <2>3. \A b : Rooted(b, tree) => Rooted(b, mem)
      BY <2>1, RootedLoaded DEF Loaded
  <2>4. (\A b \in Heads(coins) \cup Heads(coinsSafe) : Rooted(b, tree))'
      BY <2>1, <2>2, <2>3 DEF HeadInv, Heads, Rooted
  <2>5. \/ best' = NoBlock /\ pc' \in {"off", "tip", "boot", "abc", "import"}
        \/ best # NoBlock /\ best' = best /\ mem' = mem /\ pc' = "batch"
      BY <2>1 DEF Proceed, Gone, memory, CoinInv, CoinTypes
  <2>6. best # NoBlock => Rooted(best, mem)
      BY DEF HeadInv
  <2>. QED
      BY ZenonT(30), <2>2, <2>4, <2>5, <2>6 DEF HeadInv, Rooted
<1>2. CASE WritePartialBatch
  <2>1. /\ pc = "batch" /\ pc' = pc /\ best' = best /\ mem' = mem /\ tree' = tree
        /\ coinsSafe' \in Unsynced(coinsSafe, coins')
      BY <1>2, Zenon DEF WritePartialBatch, memory, control, treedb
  <2>. PICK v : coins' = [best |-> NoBlock, new |-> best, old |-> OldTip, view |-> v]
      BY <1>2, Zenon DEF WritePartialBatch
  <2>2. coins'.best = NoBlock /\ coins'.new = best /\ coins'.old = OldTip
      OBVIOUS
  <2>3. Rooted(best, tree)
      BY SMTT(30), <2>1 DEF HeadInv
  <2>4. OldTip \in Heads(coins) \cup {NoBlock}
      BY DEF OldTip, Heads
  <2>5. \A b \in Heads(coins') : Rooted(b, tree)
      BY ZenonT(30), <2>2, <2>3, <2>4 DEF HeadInv, Heads
  <2>6. \A b \in Heads(coinsSafe') : Rooted(b, tree)
      BY <2>1, <2>5 DEF HeadInv, Unsynced
  <2>7. (\A b \in Heads(coins) \cup Heads(coinsSafe) : Rooted(b, tree))'
      BY ZenonT(30), <2>1, <2>5, <2>6 DEF Heads, Rooted, Indexed
  <2>. QED
      BY ZenonT(30), <2>1, <2>3, <2>7 DEF HeadInv, Rooted, Indexed
<1>3. CASE WriteLastBatch
  <2>1. /\ pc = "batch" /\ tree' = tree /\ Proceed
        /\ coinsSafe' \in Unsynced(coinsSafe, coins')
      BY <1>3, Zenon DEF WriteLastBatch, treedb
  <2>2. coins'.best = best /\ coins'.new = NoBlock /\ coins'.old = NoBlock
      BY <1>3 DEF WriteLastBatch
  <2>3. Rooted(best, tree)
      BY <2>1 DEF HeadInv
  <2>4. \A b \in Heads(coins') : Rooted(b, tree)
      BY <2>2, <2>3 DEF Heads
  <2>5. \A b \in Heads(coinsSafe') : Rooted(b, tree)
      BY <2>1, <2>4 DEF HeadInv, Unsynced
  <2>6. (\A b \in Heads(coins) \cup Heads(coinsSafe) : Rooted(b, tree))'
      BY <2>1, <2>4, <2>5 DEF Heads, Rooted, Indexed
  <2>7. /\ best' = NoBlock \/ (best' = best /\ mem' = mem)
        /\ pc' \in {"off", "tip", "boot", "abc", "import"}
      BY <2>1 DEF Proceed, Gone, memory, CoinInv, CoinTypes
  <2>8. best # NoBlock => Rooted(best, mem)
      BY DEF HeadInv
  <2>. QED
      BY <2>6, <2>7, <2>8 DEF HeadInv, Rooted, Indexed
<1>. QED
    BY <1>1, <1>2, <1>3

LEMMA HeadEnds ==
    ASSUME HeadInv, StructInv, DataInv, CreateFails \/ ActivationFails \/ Kill \/ PowerLoss
    PROVE  HeadInv'
<1>1. CASE CreateFails
  <2>1. ReturnsNull
      BY <1>1, Zenon DEF CreateFails, Interrupted
  <2>. QED
      BY <2>1, HeadStops DEF ReturnsNull, treedb, coinsdb
<1>2. CASE ActivationFails
  <2>1. Activating /\ IF pc = "boot" THEN ReturnsNull
        ELSE /\ pc' = "halted"
             /\ UNCHANGED <<files, treedb, coinsdb, memory, resume, wipes>>
      BY <1>2, Zenon DEF ActivationFails
  <2>2. CASE pc = "boot"
      BY <2>1, <2>2, HeadStops DEF ReturnsNull, treedb, coinsdb
  <2>3. CASE pc # "boot"
    <3>1. /\ pc' = "halted" /\ mem' = mem /\ best' = best /\ tree' = tree
          /\ coins' = coins /\ coinsSafe' = coinsSafe
        BY <2>1, <2>3, Zenon DEF coinsdb, treedb, memory
    <3>. QED
        BY <3>1, HeadStays
  <2>. QED
      BY <2>2, <2>3
<1>3. CASE Kill
    BY <1>3, HeadStops DEF Kill, treedb, coinsdb
<1>4. CASE PowerLoss
  <2>1. /\ Gone /\ pc' = "off" /\ tree' = treeSafe
        /\ coins' = coinsSafe /\ coinsSafe' = coinsSafe
      BY <1>4, Zenon DEF PowerLoss
  <2>. QED
      BY <2>1, HeadStops
<1>. QED
    BY <1>1, <1>2, <1>3, <1>4

LEMMA HeadStep ==
    ASSUME HeadsInv, StructInv, DataInv, CoinInv, [Next]_vars PROVE HeadsInv'
<1>1. CASE UNCHANGED vars
    BY ZenonT(30), <1>1 DEF vars, files, treedb, coinsdb, memory, control, wipes, HeadsInv, HeadInv,
       Heads, Rooted, Indexed
<1>2. CASE \/ \E wipeTree, wipeCoins \in BOOLEAN : Create(wipeTree, wipeCoins)
           \/ InitCoinsDB
    BY <1>2, HeadCreate, HeadInitCoins
<1>3. CASE /\ Next /\ ~InitCoinsDB
           /\ ~(\E wipeTree, wipeCoins \in BOOLEAN : Create(wipeTree, wipeCoins))
  <2>1. halfWiped' = halfWiped
      BY <1>3, Zenon DEF Next, WriteReindexing, LoadBlockIndexDB, LoadGenesisBlock,
         RollBack, RollForward, Replayed, LoadChainTip, VerifyBlock, Verified, CreateFails,
         ReturnsNull, ConnectTip, DisconnectTip, ActivationFails, Activated, ProcessBlock,
         Flush, WriteBlockIndexDB, WritePartialBatch, WriteLastBatch, ImportBlocks,
         ImportGenesis, ImportFlush, LoadExternalBlockFile, ReindexDone,
         ReindexWithoutGenesis, ImportInterrupted, Kill, PowerLoss, control, wipes
  <2>2. HeadInv => HeadInv'
      BY <1>3, HeadQuiet, HeadWalks, HeadMoves, HeadFlushes, HeadEnds, Zenon DEF Next
  <2>. QED
      BY <2>1, <2>2 DEF HeadsInv
<1>. QED
    BY <1>1, <1>2, <1>3, Zenon

LEMMA StructInvariant == Spec => []StructInv
<1>1. Init => StructInv
  <2>. SUFFICES ASSUME Init PROVE StructInv
      OBVIOUS
  <2>1. TreeInv
      BY EmptyIndex DEF Init, Blank, TreeInv, Loaded
  <2>2. UndoInv /\ BootInv
      BY EmptyIndex DEF Init, Blank, UndoInv, BootInv
  <2>. QED
      BY <2>1, <2>2 DEF StructInv
<1>2. CoinInv => CoinTypes
    BY DEF CoinInv
<1>. QED
    BY <1>1, <1>2, StructStep, DataInvariant, CoinsInvariant, PTL DEF Spec

LEMMA HeadsInvariant == Spec => []HeadsInv
<1>1. Init => HeadsInv
    BY DEF Init, Blank, HeadsInv, HeadInv, Heads, EmptyCoins
<1>. QED
    BY <1>1, HeadStep, StructInvariant, DataInvariant, CoinsInvariant, PTL DEF Spec

\* For every tree, coins, file size and number of incidents: FlushStateToDisk
\* writes the index before the coins, so that the block index on disk has every
\* block the coins database names, with its ancestors.
THEOREM CoinsAreIndexed == Spec => []CoinsIndexed
<1>1. HeadsInv /\ StructInv => CoinsIndexed
  <2>. SUFFICES ASSUME HeadInv, StructInv,
                       NEW b \in {coins.best, coins.new, coins.old} \ {NoBlock}
                PROVE  Anc[b] \subseteq Indexed(tree)
      BY DEF HeadsInv, CoinsIndexed
  <2>1. b \in Indexed(tree)
      BY ZenonT(30) DEF HeadInv, Heads, Rooted
  <2>. QED
      BY ZenonT(30), <2>1 DEF StructInv, TreeInv, Closed
<1>. QED
    BY <1>1, HeadsInvariant, StructInvariant, PTL

-----------------------------------------------------------------------------
(* What create reads is there.                                             *)

LEMMA BlockFound ==
    ASSUME StructInv, DataInv, Booting, Loaded, NEW b \in Indexed(mem), ~Lost
    PROVE  ReadBlock(b)
<1>1. CASE b \notin imported
    BY ZenonT(30), <1>1 DEF DataInv, DataTypes, WrittenInv, Safe, ReadBlock
<1>2. CASE b \in imported
  <2>1. b \in Indexed(tree) /\ mem.pos[b] = tree.pos[b]
      BY <1>2 DEF StructInv, BootInv, DataInv, LoadedInv
  <2>. QED
      BY <1>2, <2>1 DEF Lost, ReadBlock
<1>. QED
    BY <1>1, <1>2

LEMMA UndoFound ==
    ASSUME StructInv, DataInv, Loaded, NEW b \in mem.undo, ~Lost
    PROVE  ReadBlockUndo(b)
<1>1. CASE b \notin tree.undo
    BY <1>1 DEF StructInv, UndoInv, ReadBlockUndo
<1>2. CASE b \in tree.undo
  <2>1. mem.pos[b] = tree.pos[b]
      BY <1>2 DEF StructInv, TreeInv, DataInv, LoadedInv
  <2>. QED
      BY <1>2, <2>1 DEF Lost, ReadBlockUndo
<1>. QED
    BY <1>1, <1>2

\* A block that was connected can be disconnected.
LEMMA RootedFound ==
    ASSUME StructInv, DataInv, Booting, Loaded, NEW b, Rooted(b, mem), b # Genesis, ~Lost
    PROVE  ReadBlock(b) /\ ReadBlockUndo(b)
<1>1. b \in Indexed(mem) /\ b \in mem.undo
    BY SelfAncestor DEF Rooted, Indexed
<1>. QED
    BY <1>1, BlockFound, UndoFound

LEMMA IndexUsable ==
    ASSUME StructInv, DataInv, ~Lost PROVE ~FileMissing /\ ~GenesisMissing
<1>1. ASSUME NEW b \in Indexed(tree) PROVE <<b, tree.pos[b]>> \in blk
    BY <1>1 DEF DataInv, DataTypes, IndexedDataSafe, Lost
<1>2. ~FileMissing
  <2>. SUFFICES ASSUME NEW b \in Indexed(tree), \A x \in blk : x[2] # tree.pos[b]
                PROVE  FALSE
      BY Zenon DEF FileMissing
  <2>. QED
      BY ZenonT(30), <1>1
<1>3. ~GenesisMissing
  <2>1. \A b \in Indexed(tree) : Anc[b] \subseteq Indexed(tree)
      BY Zenon DEF StructInv, TreeInv, Closed
  <2>2. \A b \in Indexed(tree) : b \in Block /\ Genesis \in Anc[b]
      BY Zenon, TreeAssumption DEF Indexed
  <2>3. Indexed(tree) # {} => tree.pos[Genesis] # 0
      BY Zenon, <2>1, <2>2 DEF Indexed
  <2>. QED
      BY Zenon, <2>3 DEF GenesisMissing
<1>. QED
    BY <1>2, <1>3

LEMMA CreateSucceeds ==
    ASSUME HeadInv, StructInv, DataInv, CoinInv, ~Lost PROVE ~CreateFails
<1>. SUFFICES ASSUME CreateFails PROVE FALSE
    OBVIOUS
<1>1. \/ /\ pc = "coins" /\ coins.new # NoBlock
         /\ ~({coins.new, coins.old} \ {NoBlock} \subseteq Indexed(mem))
      \/ /\ pc = "replay" /\ at \notin Anc[coins.new]
         /\ ~(ReadBlock(at) /\ ReadBlockUndo(at))
      \/ /\ pc = "replay"
         /\ \E b \in Anc[coins.new] \ {Genesis} : Prev[b] = at /\ ~ReadBlock(b)
      \/ pc = "tip" /\ coins.best \notin Indexed(mem) \cup {NoBlock}
      \/ /\ pc = "verify" /\ ToVerify
         /\ ~(ReadBlock(at) /\ ReadBlockUndo(at) /\ Clean(at, view))
    BY IndexUsable, Zenon DEF CreateFails, Interrupted
<1>2. pc \in {"coins", "replay", "tip", "verify"} /\ Loaded /\ Booting
    BY <1>1 DEF Loaded, Booting
<1>3. \A b \in Heads(coins) : Rooted(b, mem)
    BY <1>2, RootedLoaded DEF HeadInv
<1>4. pc \in {"replay", "verify"} => Rooted(at, mem)
    BY <1>2, RootedLoaded DEF HeadInv
<1>5. CASE pc = "coins"
    BY <1>1, <1>3, <1>5 DEF Heads, Rooted
<1>6. CASE pc = "tip"
    BY <1>1, <1>3, <1>6 DEF Heads, Rooted
<1>7. CASE pc = "replay" /\ at \notin Anc[coins.new] /\ ~(ReadBlock(at) /\ ReadBlockUndo(at))
  <2>1. coins.new \in Block /\ at \in Block
      BY <1>7 DEF CoinInv, ReplayInv
  <2>2. at # Genesis
      BY <1>7, <2>1, OffBranch
  <2>. QED
      BY <1>2, <1>4, <1>7, <2>2, RootedFound
<1>8. CASE pc = "replay" /\ \E b \in Anc[coins.new] \ {Genesis} : ~ReadBlock(b)
  <2>1. PICK b \in Anc[coins.new] : ~ReadBlock(b)
      BY <1>8
  <2>2. coins.new \in Heads(coins)
      BY ZenonT(30), <1>8, TreeAssumption DEF CoinInv, ReplayInv, Heads
  <2>3. Rooted(b, mem)
      BY <1>3, <2>2, RootedAncestor DEF StructInv, TreeInv
  <2>. QED
      BY <1>2, <2>1, <2>3, BlockFound DEF Rooted
<1>9. CASE pc = "verify"
  <2>1. at # Genesis /\ ~(ReadBlock(at) /\ ReadBlockUndo(at) /\ Clean(at, view))
      BY ZenonT(30), <1>1, <1>9 DEF ToVerify
  <2>2. Clean(at, view)
      BY <1>9 DEF CoinInv, VerifyInv, Clean
  <2>. QED
      BY <1>2, <1>4, <1>9, <2>1, <2>2, RootedFound
<1>. QED
    BY ZenonT(30), <1>1, <1>2, <1>5, <1>6, <1>7, <1>8, <1>9

LEMMA ActivationSucceeds ==
    ASSUME HeadInv, StructInv, DataInv, CoinInv, pc = "boot", ~Lost
    PROVE  ~ActivationFails
<1>. SUFFICES ASSUME ActivationFails PROVE FALSE
    OBVIOUS
<1>1. PICK m \in MostWork :
         \/ \E b \in Anc[m] : ~ReadBlock(b)
         \/ /\ best \notin Anc[m] \cup {NoBlock}
            /\ ~(ReadBlock(best) /\ ReadBlockUndo(best) /\ Clean(best, view))
    BY Zenon DEF ActivationFails
<1>2. Loaded /\ Booting
    BY DEF Loaded, Booting
<1>3. m \in Block /\ Anc[m] \subseteq Indexed(mem)
    BY DEF MostWork
<1>4. CASE \E b \in Anc[m] : ~ReadBlock(b)
    BY <1>2, <1>3, <1>4, BlockFound
<1>5. CASE /\ best \notin Anc[m] \cup {NoBlock}
           /\ ~(ReadBlock(best) /\ ReadBlockUndo(best) /\ Clean(best, view))
  <2>1. Rooted(best, mem) /\ best \in Block
      BY <1>5 DEF HeadInv, Rooted, Indexed
  <2>2. best # Genesis
      BY ZenonT(30), <1>3, <1>5, <2>1, OffBranch
  <2>3. Clean(best, view)
      BY ZenonT(30), <1>5 DEF CoinInv, RunningInv, Running, CoinsAfter, Clean
  <2>. QED
      BY SMTT(30), <1>2, <1>5, <2>1, <2>2, <2>3, RootedFound
<1>. QED
    BY <1>1, <1>4, <1>5

\* Only a failing create returns null.
LEMMA NullStep ==
    ASSUME [Next]_vars, pc' = "null", ~(UNCHANGED vars), CoinInv, DataInv
    PROVE  ReturnsNull /\ (CreateFails \/ (pc = "boot" /\ ActivationFails))
<1>1. Next
    BY Zenon
<1>2. CreateFails \/ ActivationFails
  <2>1. resume # "null"
      BY DEF CoinInv, CoinTypes
  <2>2. pc # "null" \/ \E wipeTree, wipeCoins \in BOOLEAN : Create(wipeTree, wipeCoins)
      BY <1>1, Zenon DEF Next, WriteReindexing, LoadBlockIndexDB, LoadGenesisBlock,
         InitCoinsDB, RollBack, RollForward, Replayed, LoadChainTip, VerifyBlock, Verified,
         CreateFails, ConnectTip, DisconnectTip, ActivationFails, Activated, ProcessBlock,
         Flush, WriteBlockIndexDB, WritePartialBatch, WriteLastBatch, ImportBlocks,
         ImportGenesis, ImportFlush, LoadExternalBlockFile, ReindexDone,
         ReindexWithoutGenesis, ImportInterrupted, Kill, PowerLoss, Activating
  <2>. QED
      BY <1>1, <2>1, <2>2, Zenon DEF Next, Create, WriteReindexing, LoadBlockIndexDB,
         LoadGenesisBlock, InitCoinsDB, RollBack, RollForward, Replayed, LoadChainTip,
         VerifyBlock, Verified, ConnectTip, DisconnectTip, Activated, ProcessBlock, Flush,
         WriteBlockIndexDB, WritePartialBatch, WriteLastBatch, Proceed, ImportBlocks,
         ImportGenesis, ImportFlush, LoadExternalBlockFile, ReindexDone,
         ReindexWithoutGenesis, ImportInterrupted, Kill, PowerLoss, Activating, control
<1>3. CASE CreateFails
    BY <1>3, Zenon DEF CreateFails, Interrupted
<1>4. CASE ActivationFails
  <2>1. IF pc = "boot" THEN ReturnsNull ELSE pc' = "halted"
      BY <1>4, Zenon DEF ActivationFails
  <2>. QED
      BY <1>4, <2>1
<1>. QED
    BY <1>2, <1>3, <1>4

\* For every tree, coins, file size and number of incidents: create gives a
\* manager, unless a wipe was cut short or a power loss took data that was not
\* synced when the index that names it was written.
THEOREM ManagerComesBack == Spec => []ComesBack
<1>1. Init => ComesBack
    BY DEF Init, ComesBack
<1>2. ASSUME ComesBack, HeadsInv, StructInv, DataInv, CoinInv, [Next]_vars
      PROVE  ComesBack'
  <2>1. CASE UNCHANGED vars
      BY <1>2, <2>1 DEF vars, files, treedb, control, wipes, ComesBack, Lost, Indexed
  <2>2. CASE pc' # "null"
      BY <2>2 DEF ComesBack
  <2>3. CASE pc' = "null" /\ ~(UNCHANGED vars)
    <3>1. ReturnsNull /\ (CreateFails \/ (pc = "boot" /\ ActivationFails))
        BY <1>2, <2>3, NullStep
    <3>2. halfWiped \/ Lost
        BY <1>2, <3>1, CreateSucceeds, ActivationSucceeds DEF HeadsInv
    <3>3. /\ halfWiped' = halfWiped /\ tree' = tree /\ imported' = imported
          /\ blk' = blk /\ rev' = rev
        BY <3>1, Zenon DEF ReturnsNull, files, treedb
    <3>. QED
        BY <3>2, <3>3 DEF ComesBack, Lost, Indexed
  <2>. QED
      BY SMTT(30), <2>1, <2>2, <2>3
<1>. QED
    BY <1>1, <1>2, HeadsInvariant, StructInvariant, DataInvariant, CoinsInvariant, PTL
       DEF Spec
=============================================================================
