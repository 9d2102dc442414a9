SPECIFICATION Spec
PROPERTY ShutsDown
CHECK_DEADLOCK FALSE
