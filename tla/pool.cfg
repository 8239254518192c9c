SPECIFICATION FairSpec
CONSTANTS
  Threads = {t1, t2}
  NoThread = nobody
  Oids = {0, 1, 2}
  MAX_POOL_SIZE = 1
  MaxQueue = 4
  Kinds = {"hosts", "vms", "networks", "users"}
INVARIANTS TypeOK UsersAreAlone
PROPERTY GetReturns
CHECK_DEADLOCK FALSE
