CONSTANTS
  Size = 3
  Data = {d1, d2}
  Ok = Ok
  Overflow = Overflow
  Empty = Empty
SPECIFICATION Spec
INVARIANT CountersAgree
PROPERTY ImplementsBoundedQueue
