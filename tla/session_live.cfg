SPECIFICATION Spec
CONSTANTS
    l1 = l1  l2 = l2
    Launch = {l1}
    None = None
PROPERTIES LaunchEnds SessionEnds
