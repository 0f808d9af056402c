\* Eleven lists of handlers, a file that changes once, three zones, and a second request with
\* each kind of condition.
SPECIFICATION FairSpec
CONSTANTS
  MaxInt = 3
  Sizes <- SomeSizes
  Offsets <- SomeOffsets
  Tables <- SomeTables
  Urls <- SomeUrls
  Protocol = "http"
  BufSize = 2
  FileSizes <- SomeFileSizes
  Times <- SomeTimes
  Zones <- SomeZones
  Base = 4
  Twin = 2
  Requests <- SomeRequests
  MaxChanges = 1
  MaxSetters = 2
INVARIANTS MetadataAgrees LeafSeesItsShare
INVARIANTS NotModifiedIsFresh EchoedValidatorHolds SentIsAnnounced
PROPERTY HandleReturns
