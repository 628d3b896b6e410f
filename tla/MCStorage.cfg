CONSTANTS
    g = g
    a1 = a1
    a2 = a2
    b1 = b1
    b2 = b2
    b3 = b3
    x = x
    y = y
    Block = {g, a1, b1, b2}
    Genesis = g
    NoBlock = NoBlock
    Prev <- MCPrev
    Anc <- MCAnc
    Work <- MCWork
    Coin = {x, y}
    Value = {1, 2}
    Spent = Spent
    UTXO <- MCUTXO
    Touch <- MCTouch
    FileCap = 2
    CheckDepth = 1
    Incidents = {"kill", "power", "wipe"}
    MaxIncidents = 2
SPECIFICATION Spec
INVARIANTS TypeOK CoinsExact IndexedDataSafe CoinsIndexed ComesBack FlushFinished
