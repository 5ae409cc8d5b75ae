SPECIFICATION Spec
CONSTANTS
    c1 = c1 c2 = c2 k1 = k1 k2 = k2 k3 = k3 NoKey = NoKey
    EntryKeys <- ThreeKeys
    Savers <- One
    Readers <- One
    Deleters <- One
    Saves <- AllKeyed
    Reads <- AllReads
    Body <- MCBody
    Sizes <- Tight
    MayCrash = FALSE
    MaxRows = 4
    MaxLength = 5
INVARIANTS
    TypeOK
    KeyFindsRow
    ReadsOwnRow
    IndexDurable
