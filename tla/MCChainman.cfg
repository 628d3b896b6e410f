CONSTANTS
    t1 = t1
    t2 = t2
    g = g
    a1 = a1
    a2 = a2
    b1 = b1
    b2 = b2
    b3 = b3
    c1 = c1
    c2 = c2
    k1 = k1
    h1 = h1
    p1 = p1
    Thread = {t1, t2}
    NoThread = NoThread
    NoBlock = NoBlock
    Genesis = g
    Block = {g, a1, a2, b1, b2, b3}
    Prev <- MCPrev
    Anc <- MCAnc
    Work <- MCWork
    Verdict <- BadMiddle
    Recent = {g}
    Jobs <- A1First
    Faults = {}
SPECIFICATION FairSpec
INVARIANTS TypeOK ActiveChainValid FailureFlagsExact MostWorkChainActive
    ListenersInStep BestHeaderIsBest NewBlockOnce NewBestHeaderNotified
    NoCallStuck
PROPERTIES VisibleTipImproves CandidateOrderStable ActivationAdvances
    CallsReturn ImplementsFairBestChain
