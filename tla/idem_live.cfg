\* Every call ends although rows of crashed or failed requests stay behind, and
\* the module implements the ledger.  dbAmbiguous is left out: a save that is
\* committed but reported as failed is undone by the catch block.
SPECIFICATION FairSpec
CONSTANTS
  p1 = p1
  p2 = p2
  x1 = x1
  x2 = x2
  Request = {r1, r2, r3}
  Key = {k1}
  NoKey = NoKey
  LongKey = LongKey
  Payload = {p1, p2}
  Resource = {x1, x2}
  ResourceOf <- PathNames
  Nobody = Nobody
  NoRow = NoRow
  WaitRetries = 2
  Faults = {"crash", "expiry", "dbLost", "removal"}
PROPERTIES EveryRequestAnswered ImplementsLedger
CHECK_DEADLOCK FALSE
