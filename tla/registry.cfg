SPECIFICATION Spec
CONSTANTS
  m1 = m1
  m2 = m2
  k1 = k1
  k2 = k2
  k3 = k3
  x = x
  y = y
  z = z
  Hosts = {m1, m2}
  Ips = {x, y, z}
  Home <- HomeApart
  HostName <- HostNames
  Names = {m1, m2}
  Forms <- FullAndBare
  Rows <- TwoRows
  Conns = {k1, k2}
  Peer <- PeerEach
  Admin = Admin
  Sends <- SendsEach
  PinSpeakers = {m1}
  Switched = {}
  Timeout = 0
  MaxRestarts = 1
  LegacyTables <- EmptyOrUpgraded
  NoRow = NoRow
  NoId = NoId
  NoIp = NoIp
  NoPw = NoPw
  NoAnswer = NoAnswer
INVARIANTS TypeOK UniqueDeviceId RowsOwned PinIsOwn
