SPECIFICATION MCSpec
CONSTANTS
  transfer = transfer
  checkout = checkout
  cert = cert
  drop = drop
  u1 = u1
  c1 = c1
  Request = {transfer, checkout, cert, drop}
  Process <- MCProcess
  Template <- AutoRejectTemplate
  ProcessOf <- ProcessOfRequest
  Dept = {d1, d2}
  Expert = {e1, e2}
  Run = {u1, u2}
  Conn = {c1, c2}
  NoReq = NoReq
  NoConn = NoConn
  MaxLogs = 4
  MaxTransferLogs = 3
  MaxLock = 2
SYMMETRY StaffSymmetry
INVARIANT TypeOK
INVARIANT OneOpenLog
INVARIANT IssuedWentThroughEveryStep
INVARIANT EventOnlyForIssued
PROPERTY TerminalIsFinal
PROPERTY LifecycleSpec
CHECK_DEADLOCK FALSE
