CONSTANTS
    Squads = {s1, s2}
    Groups = {g1, g2}
    Projects = {p1, p2}
    Patterns <- PatternPerProject
    PatternLists <- OnePatternLists
    Settings <- TwoSettings
    EditRoles = {"devops"}
    Admins = {a1, a2}
    NoRow = NoRow
    NoProject = NoProject
    MaxEdits = 3
SPECIFICATION Spec
SYMMETRY Symmetry
INVARIANTS
    TypeOK
    OneSquadPerGroup
    NoOrphans
    AcceptedIsInForce
    OfferedIsGranted
