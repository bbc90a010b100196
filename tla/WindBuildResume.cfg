\* A death between the two writes of a checkpoint, and a resume.
CONSTANTS
    b1 = b1
    b2 = b2
    Builders = {b1}
    Years <- MCYears
    Requests <- MCRequests
    LastAtmosphereYear = 2
    Absent = Absent
    Torn = Torn
    NoOwner = NoOwner
    NoRequest = NoRequest
    MaxDeaths = 2
SPECIFICATION Spec
INVARIANTS
    ResumeIsSafe
