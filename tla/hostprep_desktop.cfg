CONSTANTS
    None = None
    d1 = d1
    d2 = d2
    Procs = {p, q}
    Devices = {d1, d2}
    Fstab = {d1}
SPECIFICATION Spec
SYMMETRY DesktopSymmetry
INVARIANTS TypeOK NoHelperLeft
PROPERTIES PrepDelivers RestoreDelivers
