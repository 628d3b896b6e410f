----------------------------- MODULE MCChainman -----------------------------
(***************************************************************************)
(* Small block trees for Chainman.  Each configuration picks the blocks it *)
(* needs from one tree:                                                    *)
(*    g - a1 - a2     g - b1 - b2 - b3     g - c1 - c2     g - k1, h1, p1  *)
(***************************************************************************)
EXTENDS Chainman, TLC

CONSTANTS t1, t2, g, a1, a2, b1, b2, b3, c1, c2, k1, h1, p1

Sym == Permutations(Thread)

Root == {a1, b1, c1, k1, h1, p1}
Parent == [b \in Root |-> g] @@ a2 :> a1 @@ b2 :> b1 @@ b3 :> b2 @@ c2 :> c1
MCPrev == [b \in Block \ {g} |-> Parent[b]]

\* No branch is longer than three blocks.
Line(b) ==
    LET Up(x) == IF x = g THEN g ELSE Parent[x]
    IN  {b, Up(b), Up(Up(b)), Up(Up(Up(b)))}
MCAnc == [b \in Block |-> Line(b)]

\* Every block adds one unit of work.
MCWork == [b \in Block |-> Cardinality(MCAnc[b])]

Whole == [op : {"block"}, blk : Block \ {g}, body : {"good"}]
Header == [op : {"header"}, blk : Block \cap {c1, c2, h1}, body : {"good"}]
Damaged == [op : {"block"}, blk : {a1}, body : {"merkle", "witness"}]
    \cup [op : {"block"}, blk : Block \cap {c1, c2}, body : {"witness"}]
\* The header of a1 may come first, and then a2 before it.
A1First == Whole \cup [op : {"header"}, blk : {a1}, body : {"good"}]
AnyCall == Whole \cup Header \cup Damaged

AllValid == [b \in Block |-> "valid"]

\* The longer branch breaks a rule in the middle, when connected.
BadMiddle == [b \in Block |-> IF b = b2 THEN "connect" ELSE "valid"]

\* One block refused at each stage; c1 has a child.
EachStage ==
    [b \in Block |-> CASE b = c1 -> "weight" [] b = k1 -> "check"
                       [] b = h1 -> "header" [] b = p1 -> "pow"
                       [] b = c2 -> "context"
                       [] OTHER -> "valid"]
=============================================================================
