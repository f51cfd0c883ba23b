SPECIFICATION Spec
CONSTANTS
  Key = {1}
  DependsOn <- MCDependsOn
  ownerA = ownerA
  ownerB = ownerB
  callA1 = callA1
  callA2 = callA2
  callB1 = callB1
  Owner = {ownerA, ownerB}
  NoOwner = NoOwner
  Worker = {callA1, callA2, callB1}
  OwnerOf <- MCOwnerOf
  NoKey = NoKey
  MaxAttempts = 2
  HeadLease = 2
  ItemLease = 2
  RetryDelay <- MCRetryDelay
  BackupTimes = {}
  Foreign = {1}
  MaxGeneration = 4
  Horizon = 2
  NoTx = NoTx
  NoReport = NoReport
SYMMETRY CallSymmetry
INVARIANTS
  SingleSender
  QuarantineVeto
  DeliveredIsReal
PROPERTIES
  NoReceiptWhileHeld
  UncertaintyIsHeld
CHECK_DEADLOCK FALSE
