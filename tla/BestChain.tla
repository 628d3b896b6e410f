------------------------------ MODULE BestChain ------------------------------
(***************************************************************************)
(* What a chainstate manager promises a program that submits blocks and    *)
(* watches the active chain: the chain moves in one step to another chain  *)
(* of valid stored blocks with at least as much work.  Threads, locks,     *)
(* headers, candidates and the blocks a reorganisation passes through do   *)
(* not appear; Chainman implements this.                                   *)
(***************************************************************************)
EXTENDS Integers

CONSTANTS Block, Genesis, Anc, Work,
          Valid           \* the blocks no rule refuses

VARIABLES stored,         \* the blocks the manager has
          active,         \* the tip of the chain that can be seen
          status          \* running, interrupted, or failed: a fatal error

bestChain == <<stored, active, status>>

\* A chain that may be active: all of it is stored and valid.
Whole(b) == Anc[b] \subseteq stored \cap Valid

Init == stored = {Genesis} /\ active = Genesis /\ status = "running"

Store(b) ==
    /\ stored' = stored \cup {b}
    /\ UNCHANGED <<active, status>>

\* After a fatal error a reorganisation may be left half done.
Activate(b) ==
    /\ Whole(b)
    /\ status = "failed" \/ Work[b] >= Work[active]
    /\ active' = b
    /\ UNCHANGED <<stored, status>>

Improve(b) == status = "running" /\ Work[b] > Work[active] /\ Activate(b)

Interrupt ==
    /\ status = "running" /\ status' = "interrupted"
    /\ UNCHANGED <<stored, active>>

Fail(b) ==
    /\ status # "failed" /\ status' = "failed"
    /\ Whole(b) /\ active' = b
    /\ UNCHANGED stored

Next == Interrupt \/ \E b \in Block : Store(b) \/ Activate(b) \/ Fail(b)

Spec == Init /\ [][Next]_bestChain

\* A manager with a better chain does not stay behind.
FairSpec == Spec /\ WF_bestChain(\E b \in Block : Improve(b))
=============================================================================
