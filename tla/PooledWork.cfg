SPECIFICATION FairSpec
CONSTANTS
  Calls = {c1, c2}
  Conns = {k1}
  Orgs = {o1, o2}
  MaxStatements = 2
CHECK_DEADLOCK FALSE
INVARIANTS CallbackIsScoped NoContextLeaks ReportsTruly
PROPERTIES AuditOutlivesRequest AllReturn
