SPECIFICATION Spec
CONSTANTS
  NoOverride = NoOverride
  Plan = "teams"
  MaxMembers = NoOverride
  Users = {u1, u2}
  Names = {n1}
  Workers = {w1, w2}
  Roles <- OwnerRoles
  Kinds <- MemberKinds
PROPERTY OwnersKept
