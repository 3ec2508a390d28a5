CONSTANTS
  o = o
  Owner = o
  Devices = {o}
  Tokens = {}
  Nonces = {n1, n2}
  Names = {x, y}
  OwnerName = x
  Cutoffs = {}
  None = None
  Handlers = {h1}
  Actions = {"grants", "rename"}
  MaxDevices = 2
  MaxMembers = 2
  MaxInvitations = 2
  MaxNonces = 2
  MaxDeviceNonces = 3
  MaxRevision = 3
  MaxCasAttempts = 2
SPECIFICATION FairSpec
CHECK_DEADLOCK FALSE
PROPERTY RosterRepaired
