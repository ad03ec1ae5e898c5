\* The connection may have gone quiet for good.
CONSTANT MaxRequest = 3
SPECIFICATION Spec
PROPERTY HandlersCalledOnce
CHECK_DEADLOCK FALSE
