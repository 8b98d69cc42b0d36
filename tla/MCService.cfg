SPECIFICATION Spec
CONSTANTS
    MaxAudits = 2
    MaxWhatIfs = 2
    Deliveries <- TwoPushes
    Heads = {"h1", "h2"}
    SeenComments = 1
INVARIANT OneComment
PROPERTY WhatIfsEnd
