SPECIFICATION Spec
CONSTANTS
  Senders = {s1, s2}
  Closers = {c1, c2}
  Registrars = {r1}
  Cancellable = {s1}
  Capacity = 1
  MaxSends = 2
  Registered = FALSE
  Worker = worker
  None = none
INVARIANTS
  NoPanic
  Conserved
  DrainedOnExit
  HandledOnceRegistered
PROPERTIES
  ImplementsPromise
  CallsReturn
