\* Two processes, five command lines, two deaths at any step.
CONSTANTS
    b1 = b1
    b2 = b2
    Builders = {b1, b2}
    Years <- MCYears
    Requests <- MCRequests
    LastAtmosphereYear = 2
    Absent = Absent
    Torn = Torn
    NoOwner = NoOwner
    NoRequest = NoRequest
    MaxDeaths = 2
SPECIFICATION Spec
INVARIANTS
    SumsAccounted
    PublishedHoldsEveryYear
    AtmosphereNeverAhead
PROPERTIES
    PublicationsOnlyGrow
