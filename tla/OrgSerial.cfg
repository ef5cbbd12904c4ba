SPECIFICATION Spec
CONSTANTS
  NoOverride = NoOverride
  Plan = "enterprise"
  MaxMembers = 2
  Users = {u1, u2, u3}
  Names = {n1, n2}
  Workers = {w1}
  Roles <- AllRoles
  Kinds <- AllKinds
PROPERTIES ImplementsAtomic
