CONSTANTS
  o = o
  Owner = o
  Devices = {o, a, b}
  Tokens = {t, u}
  Nonces = {n1, n2}
  Names = {x}
  OwnerName = x
  Cutoffs = {c}
  None = None
  Handlers = {h1, h2}
  Actions = {"enroll", "invite", "revoke"}
  MaxDevices = 2
  MaxMembers = 3
  MaxInvitations = 2
  MaxNonces = 3
  MaxDeviceNonces = 2
  MaxRevision = 4
  MaxCasAttempts = 1
SPECIFICATION FormingSpec
CHECK_DEADLOCK FALSE
SYMMETRY PeersToo
INVARIANTS AnswerCovers InvitationSingleUse ActiveCap RevocationFinal

