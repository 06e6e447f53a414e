SPECIFICATION Spec
CONSTANTS
    Threads = {t1, t2}
    Renderers = {ra, rb}
    Configs = {c1, c2}
    Outputs = {o1, o2}
    None = None
    MaxDepth = 1
SYMMETRY CapsSymmetry
PROPERTIES
    ClearsOnlyRepaired
