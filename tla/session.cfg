SPECIFICATION Spec
CONSTANTS
    l1 = l1  l2 = l2
    Launch = {l1, l2}
    None = None
SYMMETRY SameLaunches
INVARIANTS TypeOK Owned Counted
