SPECIFICATION Spec
CONSTANTS
    Dicts = {"d", "e", "m", "n"}
    Sets = {"m", "n"}
    Objects = {"a", "b", "s", "t", "u", "w", "x"}
    Guest = {"a", "b", "w"}
    Unkeyed = {"x"}
    Items <- MCItems
    HashOf <- MCHashOf
    IdentityHash <- MCIdentityHash
    ClassOf <- MCClassOf
    Hashes = 2
    Programs <- MCPrograms
    Sources <- MCSources
    Keywords <- MCKeywords
    NestingLimit = 1
    RecursionLimit = 2
    None = None
INVARIANTS IndexConsistent MatchExact
PROPERTY EqualHaveSameKeys
CHECK_DEADLOCK FALSE
