SPECIFICATION ClientSpec
CONSTANTS
    api = api
    worker = worker
    k1 = k1
    k2 = k2
    Collections = {brand}
    Elements = {e1, e2}
    Handlers = {h1, h2}
    MaxFaults = 1
    Processes = {api, worker}
    Callers = {k1, k2}
    ProcessOf <- MCProcessOf
    MaxU16 = 1
INVARIANTS
    ClientTypeOK
    ClientIdsNameElement
PROPERTIES
    ClientsImplementRegistry
SYMMETRY Symmetry
