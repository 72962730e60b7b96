SPECIFICATION Spec
CONSTANTS
    Isolates = {i1}
    Half = 2
    MaxRegs = 4
    Lane = "json"
    None = None
INVARIANT SuccessMeansCallable
CHECK_DEADLOCK FALSE
