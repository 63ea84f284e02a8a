SPECIFICATION FairSpec
CONSTANTS
  Bits4 = 2
  Bits6 = 5
  Zone = {eth0}
  Hour = 5
  MaxDuration = 7
  Args <- CommandLines
  Conn = {c1, c2, c3}
CHECK_DEADLOCK FALSE
INVARIANTS
  TypeOK
  GraceKept
  StatusTellsWhy
  UpdatesAsAsked
  RetryIsComing
  TrustsAsWritten
PROPERTY SignalEnds
