SPECIFICATION Spec
CONSTANTS
    Task = {t1, t2}
    Node = {1, 2, 3}
    Home <- MCHome
    Capable = {1, 2, 3}
    First = {1, 2}
    Seeds <- MCSeeds
    Reseeds <- MCReseeds
    Cache = {c1}
    Key = {k1, k2}
    Mapped = {c1}
    MaxVersion = 3
    MaxConn = 3
    MaxDown = 1
    Jobs = {"change", "lookup", "reconnect"}
    None = None
INVARIANTS  CandidatesInPool GuardOrder
SYMMETRY TaskSymmetry
