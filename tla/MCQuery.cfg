CONSTANTS
    Questions = {q1, q2, q3}
    Conns = {c1, c2}
    Null = Null
    Writers = {c1}
    Jabber = {c1}
SPECIFICATION Spec
SYMMETRY Symmetry
INVARIANTS
    TypeOK
    QuestionsOfLiveConnections
    DataIsFreedOnce
    PlainAnswerWasShown
