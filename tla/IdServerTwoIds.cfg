SPECIFICATION Spec
CONSTANTS
    Collections = {brand}
    Elements = {e1, e2}
    Handlers = {h1, h2}
    MaxFaults = 0
INVARIANTS
    OneIdPerElement
SYMMETRY Symmetry
