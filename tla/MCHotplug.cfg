CONSTANTS
  Nil = Nil
  Hpl = {h1, h2}
  Attached = 2
  MaxReg = 3
  MaxEvents = 2
SPECIFICATION Spec
INVARIANTS RegistrationsOwned LockHeld
PROPERTIES TrueDeregisters LostEnumerating EventsHandled
CHECK_DEADLOCK FALSE
