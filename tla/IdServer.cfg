SPECIFICATION Spec
CONSTANTS
    Collections = {brand}
    Elements = {e1, e2, e3}
    Handlers = {h1, h2}
    MaxFaults = 2
INVARIANTS
    TypeOK
    NoDuplicateElements
    IdsNameElement
PROPERTIES
    ImplementsRegistry
SYMMETRY Symmetry
