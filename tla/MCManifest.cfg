SPECIFICATION Spec
CONSTANTS
    Name <- MCName
    Unsafe = {"bad"}
    Prefixed = {"~q"}
    Config = ".config"
    Cache <- MCCache
    Enc <- MCEnc
    Fold <- MCFold
    Machines <- MCMachines
    Commands <- MCCommands
    Pulled <- MCPulled
    MaxEntries = 2
INVARIANTS TypeOK SourcesFormATree RestoresEverything NamedAsAdded
PROPERTIES AddKeepsOwners
CHECK_DEADLOCK FALSE
