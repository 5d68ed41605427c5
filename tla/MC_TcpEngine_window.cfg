CONSTANTS
    t1 = t1
    t2 = t2
    f1 = f1
    ep_local = ep_local
    ep_any = ep_any
    no_thread = no_thread
    Slots = {1}
    Threads = {t1}
    Local = ep_local
    Foreigns <- MC_Foreigns
    ANY = ep_any
    NoThread = no_thread
    ISS = {0}
    SeqMax = 3
    BUF = 2
    MSS = 1
    MaxData = 1
    PeerWnds = {0, 2}
    MaxSend = 2
    RecvSizes = {1}
    SendLimit = 4
    QueueLimit = 3
    TCP_RETRANSMIT_DEADLINE = 1
    TCP_USER_TIMEOUT_TIME = 2
    TIME_WAIT_TIME = 1
    OutputMayFail = TRUE
    DestroyHangs = FALSE
SPECIFICATION Spec
CHECK_DEADLOCK FALSE
PROPERTY SendWithinWindow
