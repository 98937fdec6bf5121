\* Two connections to two servers, a late table, one batch of up to two lines at a time.
CONSTANTS
  get = get  set = set  old = old  new = new
  Cmds = {get, set}
  Servers = {old, new}
  WritesOf <- MCWrites
  HistoryLimit = 2
  MaxLines = 2
  MaxConns = 2
  MaxLoads = 1
  MaxJobs = 1
  MaxRan = 3
SPECIFICATION Spec
INVARIANTS TypeOK RunsWhereAsked  
