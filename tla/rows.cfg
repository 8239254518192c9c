SPECIFICATION Spec
CHECK_DEADLOCK FALSE
CONSTANTS
  Kinds = {"vms", "hosts", "networks"}
  MaxOid = 1
  MaxVersion = 5
INVARIANTS
  ReadBack
  ListedIsWhole
