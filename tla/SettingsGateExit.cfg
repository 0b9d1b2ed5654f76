\* The ways out of the first-run gate that ask nobody.
SPECIFICATION EditorSpec
CONSTANTS
    codex = codex
    claude = claude
    recommended = recommended
    other = other
    Drivers = {codex, claude}
    DefaultDriver = codex
    Connected = {codex}
    Offers <- MCOffers
    Recommended = recommended
    OthersTeams <- MCOthersTeams
    Absent = Absent
    MaxRevisions = 2
    MaxEdits = 1
    MaxWaiting = 2
CONSTRAINTS InstallsInTheGate DialogOverOneRequest
CHECK_DEADLOCK FALSE
PROPERTIES AsksBeforeLeaving
