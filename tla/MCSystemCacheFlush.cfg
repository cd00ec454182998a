CONSTANTS
    Nodes = {n1, n2}
    Reqs = {r1, r2, r3}
    Ops = {"getSchema", "changeSchema", "flush"}
    MaxVersion = 1
    MaxFailures = 0
    None = None
SPECIFICATION Spec
SYMMETRY Symmetry
PROPERTY FlushResetsSchema
CHECK_DEADLOCK FALSE
