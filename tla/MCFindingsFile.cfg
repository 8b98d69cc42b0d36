\* Two commands that may overlap, about one finding.
SPECIFICATION Spec
CONSTANTS
    f1 = f1
    f2 = f2
    x = x
    y = y
    p1 = p1
    p2 = p2
    Findings = {f1}
    Files = {x}
    FileOf <- FindingIn
    Processes = {p1, p2}
    Torn = Torn
    Cut = Cut
    Missing = Missing
SYMMETRY ProcessSymmetry
INVARIANTS TypeOK FileTellsHistory SuppressedStaysQuietAlone OnlyAskedIsAccepted
