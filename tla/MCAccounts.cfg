SPECIFICATION Spec
CONSTANTS
    Sessions = {s1}
    Names = {"ann", "bob"}
    Passwords = {"p", "q"}
    RootEnabled = TRUE
    MaxUsers = 1
    MaxLevel = 1
    Masks <- MCMasks
    EmptyMask = ""
    Dicts <- MCDicts
    DictLevel <- MCDictLevel
    Resolve <- MCResolve
    GuestMasks = {{}, {"free", "paid"}}
    CollateFuncs = {1}
    EnableCollate0 = FALSE
    Commands = {"auth", "register", "change_password", "userlevel",
                "setdictmask", "setcollatefunc", "setother", "getdictmask",
                "get", "getuserlevel", "maxdictcount", "tmpdictmask",
                "query", "list", "info"}
    Faults = {"connect", "failed", "lost", "signal"}
    NoRow = NoRow

INVARIANT TypeOK
INVARIANT CollateFilesLoaded
INVARIANT LoginSetsRights
PROPERTY QueriesHaveDictionaries
PROPERTY EveryCommandEnds
