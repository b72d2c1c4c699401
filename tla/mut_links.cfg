SPECIFICATION Spec
CONSTANTS
    a = a
    b = b
    c = c
    r = r
    root = root
    v = v
    w = w
    brief = brief
    full = full
    NoParent = NoParent
    Keep = Keep
    RootView = root
    Elements <- ThreeElements
    Relationships <- OneRelationship
    Views <- ThreeViews
    Texts <- TwoTexts
    Loses <- LosingTexts
    Limit = 3
    Calls <- LinkAndBatchCalls
    Docs <- LinkAndDriftedGraphs
INVARIANTS
    LinksKept OrderIndependent RepairConverges
