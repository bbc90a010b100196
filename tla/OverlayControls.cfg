\* Every order of clicks in the two dialogs.
CONSTANTS
    sst = sst
    cloud = cloud
    WIND = WIND
    Types = {WIND, sst, cloud}
SPECIFICATION Spec
INVARIANTS
    PageShowsSelected
    OneOverlay
