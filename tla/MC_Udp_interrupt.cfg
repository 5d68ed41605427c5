CONSTANTS
    t1 = t1
    t2 = t2
    i1 = i1
    i2 = i2
    ANY = any
    NoThread = no_thread
    Threads <- MC_Threads
    Ifaces <- MC_Ifaces
    Slots = {1}
    Ports = {1}
    Ephemeral = {2, 3}
    InPorts = {0, 1, 2}
    QueueLimit = 1
    DestroyHangs = FALSE
SPECIFICATION Spec
INVARIANT InterruptClearedByLast
