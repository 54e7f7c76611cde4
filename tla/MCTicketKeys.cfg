SPECIFICATION Spec
SYMMETRY ThreadSymmetry
CONSTANTS
  Threads = {t1, t2}
  KEY_LIFETIME = 3
  HINTS = {1, 3}
  MAX_CLOCK = 7
  MAX_DRAWS = 3
  MAX_TICKETS = 1
INVARIANTS
  TypeOK
  KeyAvailable
PROPERTIES
  FreshTicketOpens
  OldTicketRefused
CHECK_DEADLOCK FALSE
