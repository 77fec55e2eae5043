SPECIFICATION Spec
CONSTANTS
    Clients = {c1}
    Retry = 2
    SerialMax = 5
    MaxClients = 2
    MaxObjects = 1
    Kinds = {"start", "stop", "call"}
    Answers = {"S_OK"}
    Faults = {"loseReply", "sendFails", "duplicate"}
    MaxCalls = 2
    MaxWdt = 2
INVARIANT AtMostOnce
