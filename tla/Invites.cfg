SPECIFICATION InviteSpec
CONSTANTS
  NoOverride = NoOverride
  Plan = "personal"
  MaxMembers = NoOverride
  Users = {u1, u2}
  Names = {n1}
  Workers = {w1}
  Guests = {g1, g2}
  Invites = {i1}
  Roles <- FewRoles
  Kinds <- InviteKinds
SYMMETRY Symmetry
INVARIANTS SpentOnce LateNeverSpends InvitedOvershootBounded
PROPERTIES DeletedOrgTakesOnlyInvited InvitedLockoutNeedsOverlap
