\* A server with room for one fetch, two RPC requests and a Slack command.
SPECIFICATION FairSpec
CONSTANTS
  Requests = {r1, r2}
  Commands = {k1}
  MaxWorkers = 1
INVARIANTS
  TypeOK
  DrainedServerCutsNothingTracked
PROPERTIES
  ExchangeSpec
  SignalTerminates
\* The process exits.
CHECK_DEADLOCK FALSE
