SPECIFICATION FairStartupSpec
CONSTANTS
  Requests = {r1, r2}
  MaxConns = 1
  MaxStatements = 1
  Secrets <- TwoSecrets
  Enumerated = {"APP_ENV"}
  Required = {"DATABASE_URL", "VALKEY_URL"}
  Parsed = {"SERVER_READ_TIMEOUT"}
CHECK_DEADLOCK FALSE
INVARIANTS TypeOK GracefulExitIsClean ExitClosesPool
PROPERTIES ShutdownEnds AllAnswered EarlySignalEnds
