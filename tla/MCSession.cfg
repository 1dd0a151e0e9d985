SPECIFICATION FairSpec
CONSTANTS
  Conn = {c1, c2}
  Windows = {c2}
  Faulty = {c1}
  Contents = {"text"}
  Room = 1
  MaxKeys = 2
INVARIANTS
  EndsAgree
  KeysInOrder
  
PROPERTIES KeysFindActive DeliverySpec EscapeWorks
CHECK_DEADLOCK FALSE
