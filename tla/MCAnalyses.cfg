SPECIFICATION Spec
CONSTANTS
    Cases <- AllCases
    MaxDivergences = 3
    FlowsIn <- FlowsOf
    PackagesIn <- PackagesOf
INVARIANTS NothingLiveIsRefuted CheapestPaths SearchesAgree CutsHold OutsideNeverGuessed RiskyUnseenIsSaid DecoysStayWhole EvidenceIsThere BytesAreSeen NothingUnseenCounts PromisingMeansFixed FlowsAreFollowed
CHECK_DEADLOCK FALSE
