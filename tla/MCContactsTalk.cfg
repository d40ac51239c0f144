CONSTANTS
    Users = {u1, u2}
    Handles = {h1, h2}
    Unclean = {h2}
    MaxNick = 4
    Generated = {1}
    Given = {2}
    Groups = {g1}
    Channels = {main}
    Default = main
    Configured = {}
    Talked = {main}
    Me = Me
    None = None
SPECIFICATION Spec
SYMMETRY Symmetry
INVARIANT
    LinesReachTheAddressed
