SPECIFICATION Spec
CONSTANTS
    Messages <- MCMessages
    TimeMod = 6
    ReconnectStart = 1
    ReconnectReset = 2
    ReconnectMax = 3
    KeepaliveMs = 2
    MaxRx = 1
    MaxUnpolled = 2
PROPERTIES NoKeepaliveWhenDisconnected
CHECK_DEADLOCK TRUE
