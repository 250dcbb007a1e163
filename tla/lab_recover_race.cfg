CONSTANTS
    None = None
    l1 = l1
    n1 = n1
    n2 = n2
    a1 = a1
    a2 = a2
    s1 = s1
    i1 = i1
    o1 = o1
    Names <- MCNames
    NameOf <- MCNameOf
    Addrs <- MCAddrs
    Opts = {}
    Images = {i1}
    Labs = {l1}
    Nodes = {n1}
    Cids = {c1, c2, c3}
    Nids = {w1, w2}
    Subnets = {s1}
    Addresses = {a1}
    Procs = {p, q}
    Configs <- PairConfigs
    ForeignNets = {}
    ForeignNames = {}
SPECIFICATION RecoverySpec
PROPERTIES RecoversUnlessStranded RecoversDown
