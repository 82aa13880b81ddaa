\* One invocation and the user, and no errors.
CONSTANTS
    Procs = {p1}
    Pids = {i1}
    Faulty = {}
SPECIFICATION Spec
PROPERTIES
    NoClobber
