CONSTANTS
    None = None
    l1 = l1
    l2 = l2
    n1 = n1
    n2 = n2
    a1 = a1
    a2 = a2
    a3 = a3
    s1 = s1
    s2 = s2
    i1 = i1
    i2 = i2
    o1 = o1
    Names <- MCNames
    NameOf <- MCNameOf
    Addrs <- MCAddrs
    Opts = {o1}
    Images = {i1}
    Labs = {l1}
    Nodes = {n1}
    Cids = {c1, c2, c3}
    Nids = {w1, w2}
    Subnets = {s1}
    Addresses = {a1, a2}
    Procs = {p, q}
    Configs <- RaceConfigs
    ForeignNets = {l1}
    ForeignNames = {}
SPECIFICATION Spec
SYMMETRY RaceSymmetry
INVARIANTS TypeOK OneContainerPerNode
PROPERTIES UpDelivers UpSparesNodes ImplementsMachines
