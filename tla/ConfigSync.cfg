\* Two puts of different settings or of garbage, two mishaps, two requests at a time.
SPECIFICATION FairSpec
CONSTANTS
  memory = memory  window = window  old = old  new = new  garbled = garbled
  host = host  cpu = cpu  k1 = k1  k2 = k2
  NoConfig = NoConfig  NoRow = NoRow
  Settings = {memory, window}
  Values = {old, new, garbled}
  Garbage = {garbled}
  Local <- MCLocal
  Configs <- MCConfigs
  VersionIn <- MCVersionIn
  Fields = {host}
  Tables = {cpu}
  TableOf <- MCTableOf
  Conns = {k1, k2}
  MaxPuts = 2
  MaxMishaps = 2
INVARIANTS
  IInv
  UpToDate
  FallbackKept
  ReportKnown
PROPERTIES
  Converges
