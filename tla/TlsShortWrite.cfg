SPECIFICATION Spec
CONSTANTS
  Chosen = {"tls"}
  Scripts <- PeerScripts  MaxWrites = 2
  Clients = {"pipelining", "client"}  Requests <- ClientRequests  MaxConnections = 1
  Rosters <- TestRosters  Owner <- OwnerOf  Includes <- IncludesOf  Entries = {"lib", "app"}  Jobs = 2
  Tests = {"t1", "t2"}  Ports = {1, 2, 3}  PortAttempts = 2  SpawnAttempts = 2
  MaxMoves = 3  MaxRead = 4
INVARIANT RequestIsWhole
CHECK_DEADLOCK FALSE
