\* A client whose CONNECT is answered with 200.
SPECIFICATION ProxySpec
CONSTANTS
    Conns = {c1}
    Hosts = {h}
    RuleIds = {}
    MaxRequests = 2
    MaxEdits = 0
PROPERTY TunnelLasts
CHECK_DEADLOCK FALSE
