SPECIFICATION Spec
CONSTANTS
  Requests = {r1}
  DnsIps = {d1}
  HardcodedIps = {h1, h2}
PROPERTIES
  CanceledNotInvoked
CHECK_DEADLOCK FALSE
