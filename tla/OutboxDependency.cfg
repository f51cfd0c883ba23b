SPECIFICATION Spec
CONSTANTS
  Key = {1, 2}
  DependsOn <- MCDependsOn
  ownerA = ownerA
  ownerB = ownerB
  callA1 = callA1
  callA2 = callA2
  callB1 = callB1
  Owner = {ownerA, ownerB}
  NoOwner = NoOwner
  Worker = {callA1}
  OwnerOf <- MCOwnerOf
  NoKey = NoKey
  MaxAttempts = 2
  HeadLease = 1
  ItemLease = 1
  RetryDelay <- MCRetryDelay
  BackupTimes = {0}
  Foreign = {}
  MaxGeneration = 3
  Horizon = 0
  NoTx = NoTx
  NoReport = NoReport
INVARIANTS
  DependencyOrder
  NoBlindResend
PROPERTIES
  ResumeIsSound
CHECK_DEADLOCK FALSE
