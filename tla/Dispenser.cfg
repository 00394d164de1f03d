CONSTANTS
  NoVal = NoVal
  Addrs = {a1, a2}
  MaxConns = 4
  MaxArrivals = 6
SPECIFICATION Spec
INVARIANTS OneForAddress ReadsOwnInOrder
CHECK_DEADLOCK FALSE
