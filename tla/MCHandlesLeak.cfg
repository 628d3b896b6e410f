CONSTANTS
    s1 = s1
    s2 = s2
    s3 = s3
    s4 = s4
    s5 = s5
    x1 = x1
    x2 = x2
    x3 = x3
    Slot = {s1, s2, s3, s4, s5}
    Mem = {x1, x2, x3}
    Roots = {"Block", "SpentOutputs", "Manager"}
    NoMem = NoMem
SPECIFICATION Spec
SYMMETRY Sym
INVARIANT NoLeak
