SPECIFICATION Spec
CONSTANTS
    lamp = lamp
    reboot = reboot
    Resources = {lamp, reboot}
    NoResource = NoResource
    IoType <- MCIoType
    StreamEcho <- MCStreamEcho
    StreamIds = {1, 2}
    RequestIds = {3}
    Applications <- MCApplications
    MaxAttempts = 1
    MaxDepth = 3
INVARIANTS TypeOK StreamIdsAgree
PROPERTIES StreamsAreTakenFromWithin DataIsWanted ServesSubscriptions CallsReturn RequestsAreAnswered
