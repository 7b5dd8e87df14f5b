\* One index replaces another while a search looks.
SPECIFICATION Spec
CONSTANTS
    Fragments = {f1, f2, f3, f4}
    IndexSize = 2
    BatchSize = 2
    Tags = {t1}
    AnyTag = AnyTag
    NoPoint = NoPoint
    Places = 1
    ContextEnabled = FALSE
    TextLength = 1
    MaxChars = {1}
    Spots <- MCSpots
    Found = 1
    Distances = {1}
    Remainders = {2}
SYMMETRY Symmetry
PROPERTY FoundThroughout
