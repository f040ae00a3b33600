SPECIFICATION SuccessiveSpec
CONSTANTS
    Handlers = {h1, h2, w1}
    Readers = {h1, h2}
    Objects = {o1, o2}
    MaxCommits = 2
    Ops = {"createTable", "deleteTable", "deleteView", "updateView", "dropFamily"}
    Faults = {"refresh", "save", "purge", "crash"}
    None = None
    h1 = h1
    h2 = h2
    o1 = o1
    o2 = o2
    w1 = w1
INVARIANTS UnflaggedViewIsCurrent ProtectionStored
PROPERTIES RowsNeverGoBack RequestsAnswered ReadingMakesCurrent
