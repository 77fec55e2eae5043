SPECIFICATION Spec
CONSTANTS
    Clients = {c1}
    Retry = 3
    SerialMax = 5
    MaxClients = 1
    MaxObjects = 1
    Kinds = {"call"}
    Answers = {"S_OK"}
    Faults = {"loseRequest", "loseReply"}
    MaxCalls = 1
    MaxWdt = 2
PROPERTY RespondedNotExecuted
