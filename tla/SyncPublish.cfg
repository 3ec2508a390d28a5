CONSTANTS
  o = o
  Owner = o
  Devices = {o}
  Tokens = {}
  Nonces = {n1, n2, n3}
  Names = {x, y}
  OwnerName = x
  Cutoffs = {}
  None = None
  Handlers = {h1, h2}
  Actions = {"rename"}
  MaxDevices = 2
  MaxMembers = 2
  MaxInvitations = 2
  MaxNonces = 3
  MaxDeviceNonces = 3
  MaxRevision = 4
  MaxCasAttempts = 2
SPECIFICATION Spec
CHECK_DEADLOCK FALSE
SYMMETRY Interchangeable
INVARIANTS ChallengeOnce NeverCorrupt AnswerCovers
PROPERTY ImplementsRosterLog
