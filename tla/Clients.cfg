SPECIFICATION SpecClients
CONSTANTS
    Muts = {once, plain, bad}
    Plain = {plain}
    Invalid = {bad}
    Attempts = {a1, a2}
    Batches <- MCBatches
    Window = 2
    MaxTime = 4
    None = None
    once = once
    plain = plain
    bad = bad
    a1 = a1
    a2 = a2
    Names = {1, 2}
    KindOf <- MCKindOf
    Clients = {c1, c2}
    c1 = c1
    c2 = c2
    MaxData = 2
    Unreliable = TRUE
SYMMETRY Symmetry
INVARIANTS HonestAnswers NoLostUpdate
PROPERTIES AppliedApart AppliedIsAnswered
