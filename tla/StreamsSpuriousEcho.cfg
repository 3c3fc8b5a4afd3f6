SPECIFICATION Spec
CONSTANTS
    lamp = lamp
    door = door
    sensor = sensor
    reboot = reboot
    Resources = {lamp, door}
    Unknown = Unknown
    IoType <- MCIoType
    StreamEcho <- MCStreamEcho
    Ids = {1, 2}
    Intervals = {1}
    NoStream = NoStream
    TimeMod = 3
    MaxUnsampled = 1
PROPERTIES EchoOnlyAfterInput
