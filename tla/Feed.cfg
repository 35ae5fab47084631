\* One subscription, two items, every mode: the values, the kind and the rows
\* the caller sees are the server's.
CONSTANTS
    Insignificant = {" "}
    Astral = {"*"}
    Radix = 2
    JsonPatch = TRUE
    MaxUsize = 9
    Literals <- MCLiterals
    NumItems = 2
    Modes = {"MERGE", "DISTINCT", "COMMAND"}
    Values <- MCValues
    RowKeys <- MCRowKeys
    PastRefusal = FALSE
    HeedsAdvice = FALSE
    WireBound = 1
SPECIFICATION Spec
INVARIANTS TypeOK ValuesAreServers KindIsServers RowsAreServers

