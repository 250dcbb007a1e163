CONSTANTS
    None = None
    d1 = d1
    d2 = d2
    d3 = d3
    Procs = {p}
    Devices = {d1, d2, d3}
    Fstab = {d1, d2}
SPECIFICATION Spec
SYMMETRY HostSymmetry
PROPERTY Reversible
