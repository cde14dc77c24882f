\* A terminal and an MCP server on one file.
SPECIFICATION FairSpec
CONSTANTS
    Terminal = {shell}
    ToolServer = {mcp}
    Content = {hello}
    Window = 2
    Timeout = 1
    Interval = 1
    Wanted = {"responded"}
    MaxClock = 2
    MaxCommands = 4
    MaxMixed = 3
    MaxFaults = 1
INVARIANTS CliTypeOK IdentityHasItsKeys SuppressesDuplicates
PROPERTIES NothingForgotten GivesUpOnlyInVain CommandsEnd
CHECK_DEADLOCK FALSE
