CONSTANTS
    Approvals = {a1}
    Clicks = {c1, c2, c3}
    Nothing = Nothing
SPECIFICATION Spec
SYMMETRY Symmetries
INVARIANTS
    TypeOK
    ToolNeedsApproval
    
PROPERTIES
    DecisionStands
CHECK_DEADLOCK FALSE
