CONSTANTS
    Users = {u1, u2}
    Handles = {h1, h2}
    Unclean = {h2}
    MaxNick = 4
    Generated = {1}
    Given = {2}
    Groups = {g1}
    Channels = {main, second}
    Default = main
    Configured = {second}
    Talked = {}
    Me = Me
    None = None
SPECIFICATION Spec
SYMMETRY Symmetry
INVARIANT
    ChannelsContainAll
