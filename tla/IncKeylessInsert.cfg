SPECIFICATION Spec
CONSTANTS
    c1 = c1 c2 = c2 k1 = k1 k2 = k2 k3 = k3 NoKey = NoKey
    EntryKeys <- TwoKeys
    Savers <- One
    Readers = {}
    Deleters = {}
    Saves <- KeylessInsert
    Reads = {}
    Body <- MCBody
    Sizes <- Roomy
    MayCrash = FALSE
    MaxRows = 3
    MaxLength = 4
INVARIANTS
    KeyFindsRow
