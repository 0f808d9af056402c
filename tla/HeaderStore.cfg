\* Two goroutines on two keys, two calls each: a find, a delete and a create of one key overlap.
SPECIFICATION FairSpec
CONSTANTS
  Threads = {t1, t2}
  Keys = {k1, k2}
  Absent = absent
  None = None
  Calls = {"Set", "Add", "Del", "Modify", "Get", "ForEach", "UnsafeAdder"}
  MaxLen = 1
  MaxCalls = 2
INVARIANT OnlyLastUnprocessed
PROPERTIES ImplementsMap CallsReturn
