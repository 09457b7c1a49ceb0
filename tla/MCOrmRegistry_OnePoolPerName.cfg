CONSTANTS
    Callers = {c1, c2, c3}
    None = None
SPECIFICATION Spec
SYMMETRY CallerSymmetry
INVARIANT OnePoolPerName
CHECK_DEADLOCK FALSE
