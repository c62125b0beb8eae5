\* One gRPC client that may go away while Publish waits on its full stream.
SPECIFICATION FairSpec
CONSTANTS
    Streams = {"grpc"}
    Printers = {}
    DropStreams = {}
    BufferSize <- MCBufferSize
    PolicyMask <- MCPolicyMask
    EventMap <- MCEventMap
    NumEvents = 5
    Matched <- MCMatched
    EventId <- MCEventId
PROPERTIES
    ShutdownCompletes
CHECK_DEADLOCK FALSE
