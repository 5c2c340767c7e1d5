CONSTANTS
  a = a
  y = y
  z = z
  x = x
  b = b
  Person <- MCPerson
  From = a
  To = b
  Pairs <- MCPairs
  RowSets <- MCRowSets
  Name <- MCName
  OrgNames <- MCOrgNames
  Owner <- MCOwner
  Modes = {"connect", "paths", "discover"}
  MaxHops = 3
  Wanted = 2
  Surcharge = 1
  Famous <- MCFamous
  Fame = 2
  HubDegree = 2
  Hub = 1

SPECIFICATION RouteSpec

INVARIANTS
  CheapestRoutes
  ExistenceAgrees

CHECK_DEADLOCK FALSE
