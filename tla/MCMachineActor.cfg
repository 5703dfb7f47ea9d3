CONSTANTS
  b1 = b1
  b2 = b2
  Bookings = {b1, b2}
  AdminStates = {"available", "maintenance"}
  MaxActors = 2
  MailboxCap = 2
  Free = Free
  NoActor = NoActor
SPECIFICATION Spec
INVARIANTS
  TypeOK
  HeldIsGranted
  StateMatchesBooking
PROPERTIES
  RefinesBooking
CHECK_DEADLOCK FALSE
