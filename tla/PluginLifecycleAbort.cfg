\* The user cancels the progress dialog.
CONSTANTS
    jan = jan
    feb = feb
    year = year
    slp = slp
    epa = epa
    wpa = wpa
    ElNino = ElNino
    Cyclones = Cyclones
    Order <- MCOrder
    AverageOf <- MCAverageOf
    Scalars = {slp}
    Theatres = {epa, wpa}
SPECIFICATION Spec
INVARIANTS
    CompletedWithoutAbort
