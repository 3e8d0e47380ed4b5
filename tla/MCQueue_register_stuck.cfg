SPECIFICATION Spec
CONSTANTS
  Senders = {s1, s2}
  Closers = {}
  Registrars = {r1}
  Cancellable = {}
  Capacity = 1
  MaxSends = 2
  Registered = FALSE
  Worker = worker
  None = none
PROPERTIES
  RegisterReturns
