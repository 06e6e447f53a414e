SPECIFICATION Spec
CONSTANTS
    Threads = {t1}
    Renderers = {ra, rb}
    Configs = {c1, c2}
    Outputs = {o1, o2}
    None = None
    MaxDepth = 2
SYMMETRY CapsSymmetry
INVARIANTS
    NestedStayOut
