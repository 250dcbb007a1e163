CONSTANTS
    n1 = n1
    n2 = n2
    a1 = a1
    a2 = a2
    None = None
    Nodes = {n1, n2}
    Addresses = {a1, a2}
    Order <- MCOrder
    Pin <- MCPin
    Timeout = 1
    MaxProbe = 1
SPECIFICATION Spec
INVARIANTS TypeOK AllReady WaitBounded ExecTrue BootCompletes
PROPERTIES ReadyMeansBooted WaitEnds StoreKept
CONSTRAINT Bound
