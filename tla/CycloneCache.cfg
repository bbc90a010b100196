\* Two routing threads and the UI thread compete for two permits; every rebuild
\* and every query ends.
CONSTANTS
    r1 = r1
    r2 = r2
    Readers = {r1, r2}
    UI = UI
    Permits = 2
    b1 = b1
    b2 = b2
    t1 = t1
    t2 = t2
    f1 = f1
    f2 = f2
    f3 = f3
    l1 = l1
    l2 = l2
    Buckets = {b1, b2}
    Tracks = {t1, t2}
    Filters = {f1, f2, f3}
    Legs = {l1, l2}
    Covers <- MCCovers
    Passes <- MCPasses
    LegBuckets <- MCLegBuckets
    LegCrosses <- MCLegCrosses
    NoFilter = NoFilter
    NoLeg = NoLeg
    MaxQueries = 1
    MaxRebuilds = 1
SPECIFICATION FairSpec
INVARIANTS
    AnswerMatchesSettings
    CacheReflectsSettings
PROPERTIES
    SnapshotStable
    RebuildEnds
    QueryReturns
CHECK_DEADLOCK FALSE
