SPECIFICATION Spec
CONSTANTS
  ByteBits = 3
  ChunkBytes = 2
  ResponseBytes = 3
  SampleBytes = 3
  MaxFilterDepth = 3
  QueryBatchBytes = 2
  IntBits = 6
  SecondMicros = 3
  HashBits = 6
INVARIANTS
  NoDeadlock
  ReadsSound FiltersSound AccessSound TokensResume
  ValuesSound OperatorsSound KeysSound PushdownKeepsMatches QueriesSound
