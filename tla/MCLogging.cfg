SPECIFICATION Spec
SYMMETRY Sym
CONSTANTS
    Thread = {t1, t2}
    Logger = {l1, l2, l3}
    NoThread = NoThread
    MaxMsgs = 4
    MsgSize <- MCSize
    MaxBuffer = 2
INVARIANTS
    TypeOK
    CallbacksAreLive
    LinesUnbroken
    LinesAccountedFor
    BufferKeepsNewest
    AbortOnlyAfterDisable
CHECK_DEADLOCK FALSE
