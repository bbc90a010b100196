\* Every archive of up to four of ten rows, in any order; every atlas of two
\* cells of eleven kinds, with and without an earlier one's extras; files that
\* arrive whole or short; four links, two workers, three attempts.
CONSTANTS
    atl = atl
    she = she
    Rows <- MCRows
    MaxRows = 4
    Storms = 2
    FirstYear = 2003
    LastYear = 2005
    OutputBasins <- MCOutputBasins
    Southern = {she}
    CellCount = 2
    SectorCount = 3
    Resolution = 4
    MinimumSamples = 2
    Samples <- MCSamples
    MeanSpeed <- MCMeanSpeed
    NoFile = NoFile
    NoData = NoData
    Links <- MCLinks
    Workers = 2
    Attempts = 3
    NetCdf = {"a.nc", "b.nc"}
SPECIFICATION MCSpec
CHECK_DEADLOCK FALSE
INVARIANTS
    SegmentsAreTheArchives
    WholeTracksOnly
    BuildVerdict
    AtlasArrives
    ExtrasAllOrNone
    DownloadedWhole
    FolderOutlivesWorkers
