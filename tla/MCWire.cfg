\* Two messages; the socket may take one byte, or a header, of one of them first.
SPECIFICATION Spec
CONSTANTS
  Sender = {t1, t2}
  Messages <- MCMessages
  MaxSent = 2
  ShortWrites = {1, 8}
  MaxShort = 1
INVARIANTS
  InOrder
  NothingHeldBack
  RoundTrip
PROPERTY EndIsNoticed
\* Nobody has to send.
CHECK_DEADLOCK FALSE
