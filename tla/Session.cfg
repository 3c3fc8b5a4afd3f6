SPECIFICATION Spec
CONSTANTS
    Messages <- MCMessages
    TimeMod = 6
    ReconnectStart = 1
    ReconnectReset = 2
    ReconnectMax = 3
    KeepaliveMs = 2
    MaxRx = 2
    MaxUnpolled = 2
INVARIANTS TypeOK NoLeakedTransport SessionIsKeptAlive
PROPERTIES AttemptsAreSpaced ObserverSpec Reconnects
CHECK_DEADLOCK TRUE
