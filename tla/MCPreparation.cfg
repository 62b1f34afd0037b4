SPECIFICATION Spec
CONSTANTS
    Fixed <- MCFixed
    Tun <- MCTun
    Cap = 2
    Interfaces <- MCInterfaces
    Upstreams <- MCUpstreams
    NoAddress = NoAddress
    MaxInterfaces = 3
    MaxAddresses = 3
INVARIANTS
    ProbeIsBounded UpstreamPinned InterfacesExact AllCidrsExact ArithmeticAgrees
