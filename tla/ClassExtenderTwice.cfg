SPECIFICATION MCSpec
CONSTANTS
  A1 = A1
  A2 = A2
  A3 = A3
  shared = shared
  again = again
  prop = prop
  Class = {A1, A2, A3}
  Extendable = {A1, A2}
  Method = {shared, again}
  Property = {prop}
  Has <- ClassesOfTheTest
  MaxClock = 4
PROPERTIES InheritedOnce
CHECK_DEADLOCK FALSE
