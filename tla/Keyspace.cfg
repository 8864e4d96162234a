CONSTANTS
  k0 = k0
  g1 = g1
  k1 = k1
  SoleKeys <- OneKey
  Groups <- OneGroup
  SoleMembers <- OneMember
  k2 = k2
  Nil = Nil
  Families = {"logged", "strings", "hashes", "lists", "sets", "zsets", "places", "streams", "bits", "registers", "mixed"}
  Keys <- TwoKeys
  Values <- TwoValues
  Members <- TwoMembers
  MaxLen = 3
  MaxSize = 3
  MaxEntries = 2
  MaxScore = 1
  MaxVersion = 2
  Clock = {1, 3}
  MaxClaims = 2
  kListVectorThreshold = 1
  MemberHash <- HashOfMember
  MsPerSec = 2
  IntMax = 2
  FloatPrecision = 1
  MaxId <- TopId
  HllRegisters = 4
  RestBits = 3
  KeptBits = 4
  MurmurHash64 <- HashOfElement
  GeoBits = 1
  Distance <- Chebyshev
SYMMETRY KeySymmetry
SPECIFICATION Spec
CHECK_DEADLOCK FALSE
INVARIANT RegisteredIsStored
INVARIANT LogRebuildsStrings
INVARIANT KeyReportsAgree
INVARIANT LcsIsLongest
INVARIANT ListsAreKept
INVARIANT MovesKeepElements
INVARIANT ZSetsAgree
INVARIANT PositionsAgree
INVARIANT StoresMatchReads
INVARIANT ScansVisitOnce
INVARIANT StreamOrder
PROPERTY GroupsHandOutOnce
INVARIANT BitFieldsReadBack
INVARIANT RegistersNeverDrop
INVARIANT PlacesAreFound
