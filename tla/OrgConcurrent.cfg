SPECIFICATION Spec
CONSTANTS
  NoOverride = NoOverride
  Plan = "enterprise"
  MaxMembers = 2
  Users = {u1, u2, u3}
  Names = {n1, n2}
  Workers = {w1, w2}
  Roles <- FewRoles
  Kinds <- AllKinds
SYMMETRY Symmetry
INVARIANTS ChecksHoldUnlessOverlapped OvershootBounded
PROPERTIES UnoverlappedWritesAreAtomic LockoutNeedsOverlap DeletedOrgOnlyFinishes AcknowledgedRoleChangeHolds
