SPECIFICATION AgentsSpec
CONSTANTS
    Fn <- MCFn
    Registries = {"r1", "r2", "sum"}
    Functions <- MCFunctions
    Objects <- MCObjects
    Classes <- MCClasses
    WorkflowNames = {""}
    Served = "sum"
    Converters = {"default", "pydantic"}
    Calls <- MCCalls
    Callables <- MCCallables
    Agents = {"a", "b", "c", "d"}
    Declared <- MCDeclared
    RunModels = {"", "m9"}
    MaxTurns = 2
INVARIANTS
    ServedByItsOwn
    ValuesArrive
    CallsAreActivities
    AgentsGetTheirModel
PROPERTIES
    NamesKeepMeaning
CHECK_DEADLOCK FALSE
ACTION_CONSTRAINT InOrder
