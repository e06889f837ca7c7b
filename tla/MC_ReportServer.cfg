SPECIFICATION MCSpec
CONSTANTS
  Ports = {1, 2}
  MaxInstalls = 3
  MaxFaults = 2
  MaxDisturbances = 1
  MaxFailures = 2
  Clients = {c1}
  MaxAttempts = 2
  Ticks = 2
  Window = 1
  NonceLife = 2
  MaxTime = 6
  MaxLives = 1
  Names = {n1, n2}
  b1 = b1
  b2 = b2
  local = local
  far = far
  Browsers = {b1, b2}
  Addresses = {local, far}
  Loopback = {local}
  Limit = 2
  Period = 1
  Life = 1
  MaxSessions = 2
  MaxTries = 3
  Skews <- MCSkews
  AddressOf <- MCAddressOf
SYMMETRY Symmetry
INVARIANTS TypeOK BoundClientsStayValid InstallationAgrees StoredOnce UploadedIsStored FreshAttemptNotReplayed AcknowledgedAdminsSurvive LoginLimit
PROPERTY SessionsEnd
CHECK_DEADLOCK FALSE
