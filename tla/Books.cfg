CONSTANTS
    Pair = {a1, a2}
    None = None

SPECIFICATION Spec
SYMMETRY Symmetry
CHECK_DEADLOCK FALSE

INVARIANTS
    
    
    ClearedByFresherRun
    CompleteMeansSwept
PROPERTIES
    
    HandoffNeverRegresses
    CompletedStands
