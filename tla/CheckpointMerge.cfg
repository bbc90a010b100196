\* Builds go on, and one may die, while up to three checkpoints, with
\* repetitions, are merged.
CONSTANTS
    a = a
    b = b
    c = c
    m = m
    Paths = {a, b, c, m}
    Built <- MCBuilt
    Target = m
    Units <- MCUnits
    Start <- MCStart
    End <- MCEnd
    Absent = Absent
    MaxInputs = 3
    MaxDeaths = 1
SPECIFICATION Spec
INVARIANTS
    MergeIsExact
    NeighboursDecide
    MergedOnce
    NothingMissing
