CONSTANTS
    Total = 3
    MaxConcurrency = 2
    NLayers = 1
    Categories = {a, b}
    Registry <- MCRegistry
    None = None
SPECIFICATION Spec
INVARIANT ProvidersNotFlooded
