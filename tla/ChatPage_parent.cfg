\* Two messages of a thread and one stop; the page may be left and opened again.
CONSTANTS
  NumSends = 2
  MaxStops = 1
  MaxFaults = 0
  MaxOpens = 2
SPECIFICATION Spec
CHECK_DEADLOCK FALSE
PROPERTY SentBelowConfirmed
