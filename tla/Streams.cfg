SPECIFICATION Spec
CONSTANTS
    lamp = lamp
    door = door
    sensor = sensor
    reboot = reboot
    Resources = {lamp, door}
    Unknown = Unknown
    IoType <- MCIoType
    StreamEcho <- MCStreamEcho
    Ids = {0, 1, 2}
    Intervals = {2}
    NoStream = NoStream
    TimeMod = 4
    MaxUnsampled = 1
INVARIANTS TypeOK StreamIdsAgree
PROPERTIES SubscriptionsSpec PeriodicStreamsFlow
