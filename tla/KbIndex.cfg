\* Everything may fail while one index replaces another, the tags change and a search looks.
SPECIFICATION Spec
CONSTANTS
    Fragments = {f1, f2, f3, f4}
    IndexSize = 2
    BatchSize = 2
    Tags = {t1, t2}
    AnyTag = AnyTag
    NoPoint = NoPoint
    Places = 3
    ContextEnabled = TRUE
    TextLength = 7
    MaxChars = {1, 2, 3, 4, 5}
    Spots <- MCSpots
    Found = 2
    Distances = {1, 2}
    Remainders = {2, 5, 7, 9}
SYMMETRY Symmetry
INVARIANTS
    TypeOK
    IndexIsFound
    ContextsAreKept
    PointsFitTheIndex
    TextsAreKept
PROPERTIES
    ShowsOneIndex
    WithdrawnReplacesNothing
