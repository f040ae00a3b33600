SPECIFICATION FairSpec
CONSTANTS
    Keys = {k1, k2}
    Ranges <- MCRanges
    EndTimes = {1}
    BatchSize = 1
    Retentions = {1}
    MaxId = 2
    MaxTime = 2
    MaxSent = 1
    MaxPurging = 1
    Faults = {"crash", "disconnect"}
    k1 = k1
    k2 = k2
INVARIANTS ExactlyOnce HeartbeatCoversCommitted RecordsLeaveOldestFirst
PROPERTY RecordsDelivered
