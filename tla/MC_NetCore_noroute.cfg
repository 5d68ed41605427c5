CONSTANTS
    u1 = u1
    u2 = u2
    u3 = u3
    u4 = u4
    u5 = u5
    r1 = r1
    no_frame = no_frame
    lo = lo
    dummy = dummy
    lo0 = lo0
    d0 = d0
    no_iface = no_iface
    no_route = no_route
    Frames <- MC_Frames
    UserFrames <- MC_UserFrames
    Type <- MC_Type
    Protocols <- MC_Protocols
    Reply <- MC_Reply
    NoFrame = no_frame
    LOOPBACK_QUEUE_LIMIT = 2
    Hdr <- MC_Hdr
    Loopback = lo
    Dummy = dummy
    StartupCalls <- MC_NoGateway
    W = 4
    Conf <- MC_Conf
    NoIface = no_iface
    NoRoute = no_route
SPECIFICATION Spec
CHECK_DEADLOCK FALSE
INVARIANT NoRouteIsError
