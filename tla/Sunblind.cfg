CONSTANTS
    Callers = {c1, c2}
    Nobody = Nobody
    Goals <- MCGoals
    Extended = 10
    TiltClosed = 2
    MoveTime = 5
    FullTilt = 2
    TiltOffset = 1
    MaxAdrift = 1
SPECIFICATION Spec
SYMMETRY MCSymmetry
VIEW MCView
INVARIANTS
    TypeOK
    ArrivesAtPosition
    ArrivesAtRotation
    NeverOvershoots
