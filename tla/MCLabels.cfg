SPECIFICATION Spec
CONSTANTS
    g1 = g1
    g2 = g2
    g3 = g3
    Goroutines <- ThreeGoroutines
    Models <- SomeModels
    MaxCardinality = 0
    DefaultMaxCardinality = 2
    OtherLabel = OtherLabel
    NoLabel = NoLabel
SYMMETRY GoroutineSymmetry
INVARIANTS
    CapAtRest
    AcceptedStays
    OtherOnlyWhenFull
