CONSTANTS
    None = None
    Procs = {p, q}
    Killable = {p, q}
    Nodes = {n1, n2}
    Removable = {"pub"}
    Keys = {k1, k2, k3}
    Inodes = {i1, i2, i3, i4}
SPECIFICATION Spec
INVARIANTS TypeOK PairMatches PeersAfterRestart
PROPERTIES KeygenRenews UpKeepsKeys
SYMMETRY KeysSymmetry
CONSTRAINT RacesWithoutNodes
