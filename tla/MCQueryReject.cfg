CONSTANTS
    Questions = {q1, q2}
    Conns = {c1}
    Null = Null
    Writers = {c1}
    Jabber = {c1}
SPECIFICATION Spec
INVARIANT RejectedIsNotAuthorized
