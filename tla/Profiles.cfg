\* Two names, three acts, one mishap.
CONSTANTS
  Unset = Unset
  PortOf <- Numbers
  Names <- TwoNames
  Hosts = {"h1", "h2"}
  DBs = {1}
  Seps = {"_"}
  SSHs <- ATunnel
  URLs <- AURL
  Files <- SomeFiles
  SSHFiles <- SomeSSHFiles
  None = None
  Empty = Empty
  Torn = Torn
  MaxActs = 3
  MaxMishaps = 1
SPECIFICATION Spec
INVARIANTS EnteredIsStored ProfileIsClients TunnelIsFirstMatch
CHECK_DEADLOCK FALSE
