\* Three processes on one checkpoint, dying anywhere, with four periods; reruns
\* complete.
CONSTANTS
    b1 = b1
    b2 = b2
    long = long
    short = short
    late = late
    holed = holed
    b3 = b3
    Builders = {b1, b2, b3}
    Months = 5
    MonthFirst <- MCMonthFirst
    Periods = {long, short, late, holed}
    Start <- MCStart
    End <- MCEnd
    Granules <- MCGranules
    NoPeriod = NoPeriod
    Unversioned = Unversioned
    NoOwner = NoOwner
SPECIFICATION FairSpec
INVARIANTS
    SoleWriter
    CheckpointExact
    SidecarNeverLeads
    PublishedComplete
PROPERTIES
    NeverBackwards
    SerialPassSpec
    PassCompletes
