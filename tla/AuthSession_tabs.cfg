CONSTANTS
  Tab = {a, b}
  Attempts = 2
  Events = 2
  a = a
  b = b
SPECIFICATION AuthSpec
INVARIANTS SessionAsPromised NobodyIsForgotten
PROPERTIES ComesToRest
CHECK_DEADLOCK FALSE
