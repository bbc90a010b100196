\* Up to three drawings inside each other, any changes of settings.
CONSTANTS
    jan = jan
    fine = fine
    coarse = coarse
    p1 = p1
    p2 = p2
    p3 = p3
    Count = 2
    Months = {jan}
    January = jan
    SeaDepth = 2
    Options = {fine, coarse}
    Rows = 2
    Maps = {p1, p2, p3}
    NoMap = NoMap
    MaxDepth = 3
SPECIFICATION FairSpec
INVARIANTS
    NothingFreedInUse
    ChartShowsSettings
    OnlyWholeMaps
PROPERTIES
    RenderEnds
