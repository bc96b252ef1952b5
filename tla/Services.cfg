SPECIFICATION Spec
CONSTANTS
  Chosen <- AllServices
  Scripts <- PeerScripts  MaxWrites = 2
  MaxRead = 3
  Clients = {"pipelining", "client"}  Requests <- ClientRequests  MaxConnections = 1
  Rosters <- TestRosters  Owner <- OwnerOf  Includes <- IncludesOf  Entries = {"lib", "app"}  Jobs = 2
  Tests = {"t1", "t2"}  Ports = {1, 2, 3}  PortAttempts = 2  SpawnAttempts = 2
  MaxMoves = 3
CHECK_DEADLOCK FALSE
INVARIANTS RecordsStayWhole ServerTellsTheTruth SweepTellsTheTruth PortsAreOwn
PROPERTIES RunIsJust EveryServiceEnds
