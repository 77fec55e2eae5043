SPECIFICATION FairSpec
CONSTANTS
    Clients = {c1, c2}
    Retry = 2
    SerialMax = 5
    MaxClients = 1
    MaxObjects = 1
    Kinds = {"start", "badOption", "unreadOption"}
    Answers = {"S_OK"}
    Faults = {"loseRequest", "loseReply", "slow", "expire", "sendFails", "recvFails"}
    MaxCalls = 1
    MaxWdt = 2
PROPERTY CallReturns
 
