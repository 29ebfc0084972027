SPECIFICATION Spec
CONSTANTS
    Files <- MCFiles
    Visitors <- MCVisitors
    IndexRange = 4
    Null = Null
CHECK_DEADLOCK FALSE
INVARIANTS
    TypeOK
    MembersKeepMeaning
    UnknownSyntaxIsRefused
    CallbackSeesEachNodeOnce
    ParentsLeadToTheRoot
PROPERTIES
    ImportEnds
