SPECIFICATION SocketsFairSpec
CONSTANTS
    k1 = k1
    k2 = k2
    k3 = k3
    n1 = n1
    n2 = n2
    n3 = n3
    Clients = {k1, k2}
    Conns = {n1, n2, n3}
    NoConn = NoConn
INVARIANTS NoZombie
PROPERTIES Reconnects
