CONSTANTS
    a1 = a1
    a2 = a2
    h1 = h1
    h2 = h2
    Self = self
    NoAddr = no_addr
    NoHA = no_ha
    Entries = {1, 2}
    Addrs <- MC_Addrs
    HAs <- MC_HAs
    ARP_CACHE_TIMEOUT = 1
SPECIFICATION Spec
INVARIANT NoDuplicateEntries
