SPECIFICATION FairSpec
CONSTANTS
  m1 = m1
  m2 = m2
  k1 = k1
  k2 = k2
  k3 = k3
  x = x
  y = y
  z = z
  Hosts = {m1}
  Ips = {x, y, z}
  Home <- HomeApart
  HostName <- HostNames
  Names = {m1, m2}
  Forms <- FullOnly
  Rows <- TwoRows
  Conns = {k1, k2, k3}
  Peer <- PeerOne
  Admin = Admin
  Sends <- SendsOne
  PinSpeakers = {m1}
  Switched = {m1}
  Timeout = 0
  MaxRestarts = 0
  LegacyTables <- JustEmpty
  NoRow = NoRow
  NoId = NoId
  NoIp = NoIp
  NoPw = NoPw
  NoAnswer = NoAnswer
PROPERTIES SilentGoesOffline HeartbeatKeepsOnline
