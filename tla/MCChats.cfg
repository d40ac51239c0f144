CONSTANTS
    Channels = {ch1, ch2}
    Groupchats = {c1, c2}
    Names = {n1}
    Generic = {g1}
    Rooms = {r1}
    Contacts = {p}
    Me = Me
    Root = Root
    None = None
    LeaveFrees = FALSE
    SetInUse = FALSE
SPECIFICATION Spec
INVARIANTS
    TypeOK
    PointersAgree
    NamesAreUnique
    ViewIsRight
PROPERTY
    TempChannelsGo
CHECK_DEADLOCK FALSE
