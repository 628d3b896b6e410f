----------------------------- MODULE MCStorage -----------------------------
(***************************************************************************)
(* Storage over g - a1 - a2 and g - b1 - b2 - b3.  Both branches create x  *)
(* and y, at different heights and so with different values, and spend     *)
(* them again.                                                             *)
(***************************************************************************)
EXTENDS Storage, TLC

CONSTANTS g, a1, a2, b1, b2, b3, x, y

Parent == a1 :> g @@ a2 :> a1 @@ b1 :> g @@ b2 :> b1 @@ b3 :> b2
MCPrev == [b \in Block \ {g} |-> Parent[b]]
\* No branch is longer than three blocks.
MCAnc ==
    LET Up(b) == IF b = g THEN g ELSE Parent[b]
    IN  [b \in Block |-> {b, Up(b), Up(Up(b)), Up(Up(Up(b)))}]
MCWork == [b \in Block |-> Cardinality(MCAnc[b])]

After(vx, vy) == x :> vx @@ y :> vy
State == g :> After(Spent, Spent)
         @@ a1 :> After(1, Spent) @@ a2 :> After(Spent, 2)
         @@ b1 :> After(Spent, 1) @@ b2 :> After(2, 1) @@ b3 :> After(2, Spent)
MCUTXO == [b \in Block |-> State[b]]
MCTouch ==
    [b \in Block |-> IF b = g THEN {} ELSE {c \in Coin : State[b][c] # State[Parent[b]][c]}]
=============================================================================
