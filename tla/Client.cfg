SPECIFICATION Spec
CONSTANTS
    lamp = lamp
    meter = meter
    Messages <- MCMessages
    TimeMod = 3
    ReconnectStart = 1
    ReconnectReset = 1
    ReconnectMax = 1
    KeepaliveMs = 1
    MaxRx = 2
    MaxUnpolled = 1
    Resources = {lamp, meter}
    Unknown = Unknown
    IoType <- MCIoType
    StreamEcho <- MCStreamEcho
    Ids = {1}
    Intervals = {1}
    NoStream = NoStream
INVARIANTS StreamsBelongToTheSession
PROPERTIES DataReachesSessionsOnly SubscriptionsSpec OpenStreamsFlow
