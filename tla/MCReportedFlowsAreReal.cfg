SPECIFICATION Spec
CONSTANTS
    Cases <- OnlyTainted
    MaxDivergences = 3
    FlowsIn <- FlowsOf
    PackagesIn <- PackagesOf
INVARIANTS ReportedFlowsAreReal
CHECK_DEADLOCK FALSE
