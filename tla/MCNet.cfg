SPECIFICATION MCSpec
CONSTANTS
  MaxConnections = 4
  Buckets = 2
  Backlog = 2
  BufferSize = 2
  MaxSockets = 3
  ConnectTimeout = 3
  MaxRetries = 3
  Clients = {c1, c2, c3}
  Servers = {v1}
  NoPeer = NoPeer
  ListenPorts = {80}
  FirstPort = 30
  StreamLength = 3
  MaxTicks = 4
  MaxOpens = 2
  MaxSent = 2
  Caller = c1
  FewTicks = 1
  Grams = {"g1", "g2", "g3"}
  GramCells = 3
  ReassemblySlots = 2
  ReassemblyRanges = 2
  QueueSize = 2
  MaxPeriods = 1
  MaxArrivals = 5
  Ips = {1, 2, 3}
  Macs = {11, 12}
  CacheSize = 2
  RequestTimeout = 1
  Lifetime = 2
  ArpMaxRetries = 1
  MaxArpTicks = 4
  Addresses = {1}
  NoAddress = 0
  Leases <- MCLeases
  DHCP_TICK_HZ = 2
  StartTimeout = 1
  MaxUptime = 6
  E1000_RX_DESC = 3
  E1000_TX_DESC = 3
  E1000_LINK_DEBOUNCE_SAMPLES = 2
  WorkSlots = 1
  MaxFrames = 3
  MaxSends = 4
INVARIANTS
    ConnectionsSound
    StreamsExact
    
    AddressesSound
    FramesExact
CHECK_DEADLOCK FALSE
