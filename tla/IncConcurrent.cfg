SPECIFICATION Spec
CONSTANTS
    c1 = c1 c2 = c2 k1 = k1 k2 = k2 k3 = k3 NoKey = NoKey
    EntryKeys <- TwoKeys
    Savers <- Two
    Readers = {}
    Deleters <- One
    Saves <- OneOfEach
    Reads = {}
    Body <- MCBody
    Sizes <- Roomy
    MayCrash = TRUE
    MaxRows = 3
    MaxLength = 3
INVARIANTS
    IndexSound
PROPERTIES
    
    RowsKept
