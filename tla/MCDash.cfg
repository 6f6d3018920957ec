SPECIFICATION Spec
CONSTANTS
    prod = prod
    dev = dev
    state = state
    Namespaces <- MCNamespaces
    Component = {state}
    StatefulSets = {state}
    GetTimeout = 5
    PageTimeout = 10
    WriteTimeout = 20
    Latency = {0, 4}
    MaxReplicas = 1
    MaxChanges = 1
INVARIANTS
    TypeOK
    RowWasSo
    PageInTime
PROPERTIES
    UnreadableHasCause
    EveryPageServed
