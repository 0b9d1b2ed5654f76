\* Two answers while the settings are open.
SPECIFICATION Spec
CONSTANTS
    a = a
    b = b
    Projects = {a, b}
    Known = {a}
    None = None
    Slots = {1, 2}
    MaxJobs = 2
    MaxAsks = 3
CONSTRAINTS ProbedEarly OnceVerified
CHECK_DEADLOCK FALSE
PROPERTY KeptBackIsShown
