---------------------------- MODULE MCChainReader ----------------------------
(***************************************************************************)
(* ChainReader over g - a1 - a2 and g - b1 - b2, where b1 alone has more   *)
(* work than a1 and a2 together: the reorganisation to b1 makes the chain  *)
(* shorter, and b2 makes it as long again.                                 *)
(***************************************************************************)
EXTENDS ChainReader, TLC

CONSTANTS g, a1, a2, b1, b2

MCPrev == a1 :> g @@ a2 :> a1 @@ b1 :> g @@ b2 :> b1
MCAnc == g :> {g} @@ a1 :> {g, a1} @@ a2 :> {g, a1, a2} @@ b1 :> {g, b1}
         @@ b2 :> {g, b1, b2}
MCWork == g :> 1 @@ a1 :> 2 @@ a2 :> 3 @@ b1 :> 4 @@ b2 :> 5
AllValid == [b \in Block |-> "valid"]
Whole == [op : {"block"}, blk : Block \ {g}, body : {"good"}]
=============================================================================
