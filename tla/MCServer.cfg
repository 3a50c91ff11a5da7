SPECIFICATION ServerSpec
\* All processes may be down, and the accept loop ends.
CHECK_DEADLOCK FALSE
CONSTANTS
    Width = 15
    Servers = {s1, s2}
    Envs <- MCEnvs
    Ephemeral = {40001}
    MaxStarts = 3
    MaxRequests = 1
    c1 = c1  c2 = c2  c3 = c3  c4 = c4  i1 = i1  i2 = i2
    Clients = {c1, c2, c3, c4}
    IPs = {i1, i2}
    IpOf <- MCIpOf
    None = None
    Workers = {w1, w2}
    max_connections = 3
    max_per_ip = 2
    accept_concurrency = 1
INVARIANTS   Limits GivenBack
PROPERTIES Settles StopEnds
