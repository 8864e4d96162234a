CONSTANTS
  k1 = k1
  k2 = k2
  k3 = k3
  conn1 = conn1
  conn2 = conn2
  Nil = Nil
  MemberHash <- HashOfMember
  kListVectorThreshold = 1
  MsPerSec = 2
  IntMax = 2
  FloatPrecision = 1
  NumWorkers = 2
  ShardKeys <- TwoKeys
  Shard <- ShardOf
  ShardMembers <- OneMember
  ShardValue <- OneByte
  MaxCommands = 1
  NoKeys <- EmptyDatabase
  Answer <- TaskAnswer
  Effect <- TaskEffect
  BitOpValue <- BitOpResult
  LocalWrites <- AddsTo
  MaxWaits = 2
  Clients = {conn1}
  ListKeys <- TwoKeys
  NoLists <- EmptyDatabase
  Attempt <- BlockingAttempt
  TakenBy <- ElementsTaken
  AfterPush <- PushElements
  QuietFills <- FillsThatWakeNobody
  ZSetKey = z
  Element <- OneByte
  MovedFrom = MovedFrom
  MaxWaiting = 2
  MaxClosed = 1
  MaxRun = 1
  ScanClients = {conn1, conn2}
  ScanKeys = {k1, k2, k3}
  ScanPlaces <- PlacesOfKeys
  ScanWorkers = 2
  Patterns <- OnePattern
  MaxCount = 2
  MaxScans = 1
  MaxChanges = 1
  StringKeys = {k1, k2}
  BoxKey = k3
  BoxTypes = {"hash", "list"}
  Values <- ShortAndLong
  Configs <- PairsOfOptions
  StringOverhead = 1
  MemberOverhead = 1
  MetadataSize = 1
  LfuSize = 3
  CheckAt = 2
  MaxElsewhere = 1
  max_iterations = 2
  MaxUnsaved = 1
  MaxTierSteps = 1
  Unknown = Unknown
  SnapWorkers = 2
  SnapStrings = {k1}
  SnapBox = k3
  SnapBoxTypes = {"hash", "list"}
  SnapValues <- EmptyShortLong
  LongValues <- OneLong
  SnapElement <- OneByte
  RouteOf <- RouteOfKey
  HashOf <- HashOfKey
  MaxSaves = 2
  MaxSnapSteps = 1
  MaxClock = 1
  MaxRestarts = 0
  Pipelines <- PairsOfRequests
  VecSize = 4
  CompactThreshold = 6
  PubWorkers = 2
  PubConns = {conn1, conn2}
  PubHome <- HomeOfConn
  Channels <- TwoChannels
  ChannelLists <- ListsOfChannels
  PatternLists <- ListsOfPatterns
  MaxPubSteps = 3
SPECIFICATION ServicesSpec
CHECK_DEADLOCK FALSE
PROPERTY CallsReturn
