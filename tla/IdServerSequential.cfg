SPECIFICATION Spec
CONSTANTS
    Collections = {brand, origin}
    Elements = {e1, e2, e3}
    Handlers = {h1}
    MaxFaults = 0
INVARIANTS
    OneIdPerElement
    IdsIdentifyElements
