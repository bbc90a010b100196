\* Every order of nested calls, failures, downloads and removals.
CONSTANTS
    jan = jan
    feb = feb
    year = year
    slp = slp
    epa = epa
    wpa = wpa
    ElNino = ElNino
    Cyclones = Cyclones
    Order <- MCOrder
    AverageOf <- MCAverageOf
    Scalars = {slp}
    Theatres = {epa, wpa}
SPECIFICATION FairSpec
INVARIANTS
    NoHalfBuiltAnswer
    ValuesAreRead
    BoxesHaveData
PROPERTIES
    VersionedUntouched
    ToolbarShows
