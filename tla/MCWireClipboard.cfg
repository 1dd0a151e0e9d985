SPECIFICATION Spec
CONSTANTS
  Sender = {t1}
  Messages <- MCTooLarge
  MaxSent = 2
  ShortWrites = {8}
  MaxShort = 0
INVARIANT NothingHeldBack
CHECK_DEADLOCK FALSE
