CONSTANTS
    c1 = c1
    c2 = c2
    m1 = m1
    m2 = m2
    m3 = m3
    Context = {c1, c2}
    Manager = {m1, m2, m3}
    NoContext = NoContext
SPECIFICATION Spec
SYMMETRY Sym
INVARIANTS CallbackTargetAlive FreedAtMostOnce NothingLeaked ContextIntact
CHECK_DEADLOCK FALSE
