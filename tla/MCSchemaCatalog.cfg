SPECIFICATION MCSpec
CONSTANTS
    Threads = {t1, t2}
    Tables = {company, sales}
    NoTable = NoTable
    Schemas = {before, after}
    NoEntry = NoEntry
    NoThread = NoThread
    TTL = 1
    MaxEntries = 1
    MaxNow = 2
    MaxEdits = 3
    MaxChanges = 1
    Values = {0, 1, 2, 3}
    None = None
    Empty = Empty
    Fragments = {"asc", "desc"}
    Names = {"start_date", "end_date", "order", "limit", "unknown"}
    Start = "start_date"
    Finish = "end_date"
    MaxRows = 2
    MaxBytes = 2
    Callers = {c1, c2}
    Definitions <- MCDefinitions
    Malformed = Malformed
    OtherTools = OtherTools
    ArgumentSets <- MCArgumentSets
    RowSets <- MCRowSets
    ReloadSeconds = 1
    MaxTime = 3
    MaxWrites = 3
SYMMETRY Symmetry
INVARIANTS TypeOK StaleOnlyWithinTtl SemanticsFollowFile RegistryFollowsFile AnswersAsDeclared
