SPECIFICATION Spec
CONSTANTS
    Threads = {t1, t2}
    Renderers = {ra, rb}
    Configs = {c1, c2, c3}
    Outputs = {o1, o2}
    None = None
    MaxDepth = 1
SYMMETRY CapsSymmetry
INVARIANTS
    TypeOK
    CapsAreOwn
    OnlyFailedRetained
PROPERTIES
    ClearsFollowRepairs
