\* Two processes and two instances of a component.  When no process runs any
\* more nothing is left to do.
SPECIFICATION MCSpec
CONSTANTS
  p1 = p1
  p2 = p2
PROPERTIES
  LoginEnds
  ExpiryShown
  ComponentEnds
CHECK_DEADLOCK FALSE
