SPECIFICATION Spec
CONSTANTS
    Sessions = {s1, s2}
    Names = {"ann", "bob"}
    Passwords = {"p"}
    RootEnabled = TRUE
    MaxUsers = 2
    MaxLevel = 1
    Masks <- MCMasks
    EmptyMask = ""
    Dicts <- MCDicts
    DictLevel <- MCDictLevel
    Resolve <- MCResolve
    GuestMasks = {{}}
    CollateFuncs = {1}
    EnableCollate0 = FALSE
    Commands = {"auth", "register", "getdictmask"}
    Faults = {"connect", "failed", "lost", "signal"}
    NoRow = NoRow
SYMMETRY Symmetry
INVARIANT RegistrationComplete
INVARIANT AnsweredOnce
