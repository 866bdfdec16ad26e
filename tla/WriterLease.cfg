SPECIFICATION FairLeaseSpec
CONSTANTS
  runner = runner
  recovery = recovery
  w1 = w1
  w2 = w2
  w3 = w3
  Nobody = nobody
  Owners <- MCOwners
  Writers <- MCWriters
  OwnerOf <- MCOwnerOf
  TTL = 2
  MaxEpoch = 4
  Horizon = 4
PROPERTIES
  ImplementsAuthority
  OrphanIsReclaimable
CHECK_DEADLOCK FALSE
