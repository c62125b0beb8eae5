\* A printer in block mode, one in drop mode and a gRPC client.  A client that
\* leaves while its stream is full stops the system (see MCStreamsHang.cfg).
SPECIFICATION FairSpec
CONSTANTS
    Streams = {"block", "drop", "grpc"}
    Printers = {"block", "drop"}
    DropStreams = {"drop"}
    BufferSize <- MCBufferSize
    PolicyMask <- MCPolicyMask
    EventMap <- MCEventMap
    NumEvents = 5
    Matched <- MCMatched
    EventId <- MCEventId
INVARIANTS
    OpenWhileVisited
    BlockStreamLossless
PROPERTIES
    ShutdownUnlessAbandoned
CHECK_DEADLOCK FALSE
