CONSTANTS
    Nodes = {n1, n2}
    Reqs = {r1, r2, r3}
    Ops = {"getPermissions", "getSchema", "changePermissions", "changeSchema", "deleteRole", "flush"}
    MaxVersion = 1
    MaxFailures = 1
    None = None
SPECIFICATION Spec
SYMMETRY Symmetry
INVARIANTS TypeOK PermissionsFresh NotStuck
CHECK_DEADLOCK FALSE
