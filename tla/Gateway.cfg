CONSTANTS
  c1 = c1
  c2 = c2
  p1 = p1
  m1 = m1
  m2 = m2
  Unset = Unset
  None = None
  Addrs = {1, 2, 3}
  gwIP = 1
  Clients = {c1, c2}
  Ident <- MCIdent
  Bindings <- MCBindings
  Configs <- MCConfigs
  LeaseTime = 2
  QueueLen = 1
  Families = {"v4", "v6"}
  MaxChanges = 1
  Callers = {"u", "v"}
  Setters = {"u", "v"}
  Specs = {"x", "y", "z"}
  RaConfigs = {"a", "b"}
  BindOf <- MCBindOf
  Puts <- MCPuts
  MaxCalls = 3
SPECIFICATION MCSpec
INVARIANTS  NothingDangling ReplaceInstalls ConfigAdvertised
PROPERTIES StaticWins 
CHECK_DEADLOCK FALSE
