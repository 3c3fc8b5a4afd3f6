SPECIFICATION Spec
CONSTANTS
    Users = {u1, u2}
    Client = client
    NoTask = nobody
    Ids = {1, 2}
    MaxAttempts = 2
    MaxRx = 2
    MaxLate = 1
INVARIANTS TypeOK
PROPERTIES AnswersReachTheirCaller RemoteCallsSpec
