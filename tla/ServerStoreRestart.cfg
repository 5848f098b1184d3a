\* Three files of one table, a restart or power cut at any point, one mishap.
SPECIFICATION Spec
CONSTANTS
  u1 = u1  u2 = u2  u3 = u3  u4 = u4
  cpu = cpu  mem = mem
  h1 = h1  h2 = h2
  NoUpload = NoUpload
  Uploads <- MCUploadsOneTable
  Tables = {cpu}
  Names <- MCUploadsOneTable
  TableOf <- MCTableOf
  NameOf <- MCNameOf
  Handlers <- MCHandlersOne
  Shared = FALSE
  PowerCuts = TRUE
  MaxCrashes = 1
  MaxFaults = 1
INVARIANTS
  IInv
  DuplicateNeedsCause
PROPERTIES
  StoreKept
SYMMETRY Symmetry
