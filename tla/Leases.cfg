CONSTANTS
    ann = ann
    bob = bob
    c1 = c1
    c2 = c2
    c3 = c3
    None = None
    Agents = {ann, bob}
    x = x
    y = y
    z = z
    Artifacts = {x, y, z}
    Calls = {c1, c2, c3}
    MaxActive = 1
    MaxRetries = 1
    MaxLeases = 4
    Agent <- MCAgent
SPECIFICATION Spec
INVARIANTS
    LimitPerAgent
PROPERTIES
    NoLeaseIsStolen
CHECK_DEADLOCK FALSE
SYMMETRY MCSymmetry
