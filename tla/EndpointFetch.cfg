SPECIFICATION FairSpec
CONSTANTS
  Requests = {r1, r2}
  DnsIps = {d1}
  HardcodedIps = {h1, h2}
INVARIANTS
  TypeOK
  AnswerUsable
  NoLateCallback
  AnswerNotDiscarded
  NoLostWakeup
PROPERTIES
  EarlyCancelIsFinal
  SyncReturns
CHECK_DEADLOCK FALSE
