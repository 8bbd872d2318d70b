SPECIFICATION Spec
CONSTANT MaxLosses = 2
PROPERTY SignalStops
CHECK_DEADLOCK FALSE
