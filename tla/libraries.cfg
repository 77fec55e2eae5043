SPECIFICATION Spec
CONSTANTS
    Nodes = {n1, n2}
    Null = Null
    Unused = Unused
    RetryTimeout = 1
    Hosts = {h1, h2}
    NoHost = NoHost
    RetryNak = 2
    RequestMax = 3
    Opening <- OpeningCalls
    Handles = {1, 2}
    ObjectsMax = 2
    Joints = {1, 2, 3}
    type_ <- JointTypes
    Places = {0, 1}
    Tree = {"controller", "robot", "task", "ofController", "ofRobot"}
    Root = "controller"
    Below <- ObjectsBelow
    Robots = {"robot"}
    Variables = {"ofController", "ofRobot"}
    Messages <- UserIOMessages
    Numbers = {1}
    PoseLen = 9
    SendFormats <- SlaveFormats
    Deepest = 2
    Level <- Levels
    ArgLists <- ArgListsSent
    Rooms = {1, 99}
    Second <- EvenSecond
    Room = 20
    Lists <- ListsDrawn
    Texts <- TextsDrawn
    ByteArgs = {15}
INVARIANT TypesOK
PROPERTY SessionsEnd
INVARIANT ReportedState
PROPERTY PendantThreadsGoOn
INVARIANT OnePeer
INVARIANT RequestKept
PROPERTY RequestCompletes
INVARIANT SameArguments
INVARIANT ObjectsListed
PROPERTY SlaveMovesAsMeant
INVARIANT JointsThere
INVARIANT PolledInService
INVARIANT ValuesKept
INVARIANT DrawnAsAsked
CHECK_DEADLOCK FALSE
