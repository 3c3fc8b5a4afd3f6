SPECIFICATION Spec
CONSTANTS
    Uint64 = 65536
    MaxString = 130
    MaxNesting = 3
    MaxMessageSize = 150
    Uint16 = 256
    Uint32 = 512
    Ids = {1, 200}
    Intervals = {0, 5}
    CallIds = {0, 255}
    NoStream = NoStream
    Inputs <- MCInputs
    Probes <- MCProbes
    Contents <- MCContents
    Documents <- MCDocuments
    Spaces <- MCSpaces
    CodePoints <- MCCodePoints
    MaxFlight = 2
INVARIANTS FramesStayInStep MessagesRoundTrip PrefixesAreRefused TextIsUnderstood TruncatedTextIsDiscarded
PROPERTIES DeviceSpec RequestsAreHandledAsMeant DataShowsTheState OnlyInputChangesTheState
