\* A draft holds two characters; the model says three.
SPECIFICATION FairSpec
CONSTANTS
    MaxSaid = 3
    MaxChars = 2
    Sizes = {1, 2}
INVARIANTS
    TypeOK
    EndingIsTrue
    CutOffIsHeeded
PROPERTY EveryStreamEnds
