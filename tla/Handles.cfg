SPECIFICATION Spec
CONSTANTS
    Handle = {h1, h2}
    Programs <- MCPrograms
    Addr = {a, b}
    Spread <- MCPinned
    MaxConn = 2
    MaxId = 2
    MaxLate = 1
    Faults = TRUE
    None = None
INVARIANTS StaysOnItsResource  
SYMMETRY HandleSymmetry
CHECK_DEADLOCK FALSE
