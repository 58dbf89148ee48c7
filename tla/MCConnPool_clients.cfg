SPECIFICATION Spec
CONSTANTS
    h1 = h1
    h2 = h2
    d1 = d1
    d2 = d2
    e1 = e1
    m1 = m1
    w1 = w1
    Hosts = {h1, h2}
    Conns = {d1, m1}
    HostPort <- HostPortTable
    Kind <- KindTable
    SiteChans = {s1, s2}
    MuxChan = mux
    Clients = {c1, c2}
    Closers = {}
    SiteCap = 1
    MuxCap = 1
    AlwaysProxy = FALSE
    TimelyPut = TRUE
    NoConn = NoConn
    NoChan = NoChan
    NoHost = NoHost
    Closed = Closed
    Idle = Idle
    Lost = Lost
SYMMETRY ClientSymmetry
INVARIANTS
    NoSharing
PROPERTY
    ImplementsIdlePool
