SPECIFICATION Spec
CONSTANTS
    Clients = {c1}
    Retry = 2
    SerialMax = 3
    MaxClients = 1
    MaxObjects = 1
    Kinds = {"call"}
    Answers = {"S_OK"}
    Faults = {"reorder", "slow", "sendFails"}
    MaxCalls = 3
    MaxWdt = 2
INVARIANT TypeOK
INVARIANT ResultIsOfThisCall
PROPERTY ImplementsPromise
