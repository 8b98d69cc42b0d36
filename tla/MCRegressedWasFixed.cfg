\* One command at a time, two files with a finding each.
SPECIFICATION Spec
CONSTANTS
    f1 = f1
    f2 = f2
    x = x
    y = y
    p1 = p1
    p2 = p2
    Findings = {f1, f2}
    Files = {x, y}
    FileOf <- FindingIn
    Processes = {p1}
    Torn = Torn
    Cut = Cut
    Missing = Missing
INVARIANT RegressedWasFixed
