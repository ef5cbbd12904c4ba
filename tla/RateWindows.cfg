SPECIFICATION FairSpec
CONSTANTS
  Addresses <- ThreeAddresses
  Host <- OneHost
  Counters = {k1}
  Callers = {w1, w2}
  Limit = 2
  Window = 2
  MaxCount = 3
INVARIANTS LessThanTwice EverlastingIsAbandoned
PROPERTIES KeepsWindows RefusedPassesLater
