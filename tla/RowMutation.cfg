SPECIFICATION Spec
CONSTANTS
    FamOrder <- MCFamOrder
    Kinds <- MCKinds
    Cols = {"c"}
    Milli = 2
    Width = 2
    MaxTime = 3
    Rules <- MCRules
    Nested <- MCNested
    Depth <- MCDepth
    MaxDepth = 2
    MutationLists <- MCMutationLists
    Batches <- MCBatches
    RuleLists <- MCRuleLists
INVARIANTS TypeOK MirrorMatchesStore CollectsOldestOnly IncrementsAddUp
