SPECIFICATION Spec
CONSTANTS
    Users = {u1, u2}
    Client = client
    NoTask = nobody
    Ids = {1, 2, 3}
    MaxAttempts = 2
    MaxRx = 1
    MaxLate = 1
INVARIANTS SeenDataIsThere
