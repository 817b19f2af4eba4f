SPECIFICATION Spec
CONSTANT MaxLaunches = 3
INVARIANTS Containment NothingIsLeft
PROPERTY FinalRecordSticks
CHECK_DEADLOCK FALSE
