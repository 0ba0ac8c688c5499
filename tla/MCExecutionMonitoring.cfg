SPECIFICATION MonitorSpec
CONSTANTS
  a = a
  b = b
  Threads = {a, b}
  Nobody = Nobody
INVARIANTS NoCircularWait
