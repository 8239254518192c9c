SPECIFICATION FairSpec
CONSTANTS
  Threads = {t1, t2}
  NoThread = nobody
  Methods = {"vm.allocate", "vm.deploy", "vm.finalize", "host.delete", "vn.allocate", "vn.delete", "user.allocate", "user.delete"}
  Clients = {"oneadmin", "alice"}
  Oids = {0, 1, 2}
  Named = {0}
  BadPasswords = FALSE
  InsertsFail = {"hosts", "networks", "vms"}
  MaxRequests = 3
  MaxRestarts = 1
INVARIANTS
  LocksReleased
  KnownIsTable
PROPERTIES
  Answered
  OnlyOwners
CHECK_DEADLOCK FALSE
