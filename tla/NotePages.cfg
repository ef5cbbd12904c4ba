SPECIFICATION Spec
CONSTANTS
  NoteIDs = {n1, n2, n3}
  Users = {u1}
  Contents = {c1}
  Me = u1
  AskedPages <- SomePages
  AskedSizes <- SomeSizes
  DefaultPageSize = 2
  MaxPageSize = 3
  Int32Max = 3
  Overtaking = 1
INVARIANTS TypeOK WalksStayInRange
PROPERTIES SkippedBounded RepeatedBounded UndisturbedIsSnapshot
