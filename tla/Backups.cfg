SPECIFICATION BackupsSpec
CONSTANTS
  Instances = {"i"}
  Clusters = {"c1", "c2"}
  Profiles = {"default"}
  Default = "default"
  Editions = {"ENTERPRISE"}
  NodeCounts = {1}
  Names <- MCNames
  Tables <- MCTables
  Fams = {f1, f2}
  Kinds = {"STANDARD"}
  HDD = {}
  MaxPerTable <- MCMaxPerTable
  MaxRetention <- MCMaxRetention
  MinRetention = 1
  MaxCopyRetention = 1
  MinCopyRemaining = 1
  Strict = TRUE
  MaxTime = 2
INVARIANTS ReferencesHold LiveBackupHasCluster SnapshotsWhole QuotaHolds
PROPERTY BackupsImmutable
SYMMETRY MCSymmetry
