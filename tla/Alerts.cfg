SPECIFICATION MCSpec
CONSTANTS
  p1 = p1
  p2 = p2
  c1 = c1
  d1 = d1
  Poller = {p1, p2}
  Conn = {c1}
  Cond = {d1}
  Runs = 3
  MaxListed = 2
  MaxTracked = 2
  MaxMishaps = 1
  ConnOf <- MCConnOf
  KeyOf <- MCKeyOf
  Settings <- MCSettings
INVARIANTS AlertedOnce RememberedIsDecided ToldMatches
PROPERTIES OneAlertPerInterval
CHECK_DEADLOCK FALSE
