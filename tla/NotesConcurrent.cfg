SPECIFICATION Spec
CONSTANTS
  u1 = u1
  u2 = u2
  u3 = u3
  here = here
  elsewhere = elsewhere
  NoteIDs = {n1, n2}
  Users <- ThreeUsers
  Org <- TwoOrgs
  Contents = {c1, c2}
  Workers = {w1, w2}
SYMMETRY Symmetry
PROPERTIES ImplementsStore DeleteAcknowledgedOnce EditAcknowledged
