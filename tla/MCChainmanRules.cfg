CONSTANTS
    t1 = t1
    t2 = t2
    g = g
    a1 = a1
    a2 = a2
    b1 = b1
    b2 = b2
    b3 = b3
    c1 = c1
    c2 = c2
    k1 = k1
    h1 = h1
    p1 = p1
    Thread = {t1, t2}
    NoThread = NoThread
    NoBlock = NoBlock
    Genesis = g
    Block = {g, a1, b1, b2, c1, c2, k1, h1, p1}
    Prev <- MCPrev
    Anc <- MCAnc
    Work <- MCWork
    Verdict <- EachStage
    Recent = {a1}
    Jobs <- AnyCall
    Faults = {"write", "read", "connect", "flush", "interrupt"}
SPECIFICATION Spec
SYMMETRY Sym
INVARIANTS RefusalsAreTrue FailureFlagsExact AssertsHold
PROPERTIES ImplementsBestChain
CHECK_DEADLOCK FALSE
