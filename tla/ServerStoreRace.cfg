\* Two tables whose files share a name, two requests at a time, one mishap.
SPECIFICATION Spec
CONSTANTS
  u1 = u1  u2 = u2  u3 = u3  u4 = u4
  cpu = cpu  mem = mem
  h1 = h1  h2 = h2
  NoUpload = NoUpload
  Uploads <- MCUploadsTwoTables
  Tables = {cpu, mem}
  Names <- MCUploadsTwoTables
  TableOf <- MCTableOf
  NameOf <- MCNameOf
  Handlers <- MCHandlersTwo
  Shared = TRUE
  PowerCuts = FALSE
  MaxCrashes = 0
  MaxFaults = 1
INVARIANTS
  TypeOK
  LossNeedsCause
  DuplicateNeedsCause
  CountNeedsCause
SYMMETRY Symmetry
