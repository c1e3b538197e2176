CONSTANTS
  Conns = {c1, c2, c3}
  Buffers = {b1, b2, b3, b4}
  Sizes = {1, 2}
  MaxSent = 2
SPECIFICATION Spec
SYMMETRY Symmetry
INVARIANTS OneOwner OwnBytes CapacityKept
CHECK_DEADLOCK FALSE
