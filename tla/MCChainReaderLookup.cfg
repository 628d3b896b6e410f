CONSTANTS
    g = g
    a1 = a1
    a2 = a2
    b1 = b1
    b2 = b2
    Thread = {t1}
    Reader = {r1}
    NoThread = NoThread
    NoBlock = NoBlock
    Unknown = Unknown
    MaxHeight = 2
    Genesis = g
    Block = {g, a1, a2, b1, b2}
    Prev <- MCPrev
    Anc <- MCAnc
    Work <- MCWork
    Verdict <- AllValid
    Recent = {g}
    Jobs <- Whole
    Faults = {}
SPECIFICATION ReaderSpec
INVARIANT LookupFindsBlock
