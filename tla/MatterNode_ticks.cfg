CONSTANTS
  Sessions = {1}
  Subs = {1}
  Exchanges = {1}
  MinInterval = 2
  MaxInterval = 3
  IdleTimeout = 2
  ExchangeTimeout = 1
  MaxRetransmits = 2
  MaxMissed = 2
  MaxLag = 2
  Devices = {1, 2}
  Controllers = {3, 4}
  Rlocs = {1, 2}
  RouterOf <- TwoRouters
  LeaseTime = 4
  Ttl = 2
  RenewAfter = 1
  IdleTime = 3
  MaxEntries = 1
  MaxEvents = 4
SPECIFICATION NodeSpec
INVARIANTS
  OneOutcome
  PublishedIsLeased
  RenewedAreListed
PROPERTIES
  SessionsInUseStay
  ExchangesEnd
  ChangesAreReported
  DeadPeersAreNoticed
