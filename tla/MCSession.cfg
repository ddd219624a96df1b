SPECIFICATION Spec
CONSTANT Confs <- MCConfs
INVARIANT NothingLeftOpen
PROPERTY HandlersReturn
 
PROPERTY KeepsPromise
CHECK_DEADLOCK FALSE
