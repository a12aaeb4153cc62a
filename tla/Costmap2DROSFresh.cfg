SPECIFICATION Spec
CONSTANT Frequencies <- Loop
PROPERTY ReadyMeansFresh
CHECK_DEADLOCK FALSE
