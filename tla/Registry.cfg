SPECIFICATION Spec
CONSTANTS
  s1 = s1
  s2 = s2
  s3 = s3
  Subservers = {s1, s2, s3}
  v1 = v1
  Viewers = {v1}
  Watched <- MCWatched
  Contents <- MCContents
  TableSize = 2
  MaxQueries = 2
  Capacity = 2
  MaxLost = 1
CHECK_DEADLOCK FALSE
INVARIANTS TableKeepsOrder FramingRecovers
PROPERTY ImplementsSearchService
