\* Starts, restarts and crashes around three registrations over two invitations.
SPECIFICATION BootSpec
CONSTANTS
  Requests = {r1, r2, r3}
  Tokens = {i1, i2}
  Emails = {e0, e1, e2}
  Names = {n0, n1, n2}
  AdminName = n0
  AdminEmail = e0
  Rows = {j1}
  NoEmail = NoEmail
  NoToken = NoToken
  NoName = NoName
  MaxFaults = 1
SYMMETRY Interchangeable
INVARIANTS
  BootTypeOK
  OneAccountPerInvite
  NoInviteBurnt
  AccountsSettled
  LegacyRowsClaimed
