SPECIFICATION Spec
SYMMETRY Symmetry
CONSTRAINT OneOfTwoQuestions
CONSTANTS
    r1 = r1
    r2 = r2
    a1 = a1
    a2 = a2
    a3 = a3
    k1 = k1
    k2 = k2
    q1 = q1
    q2 = q2
    Null = Null
    Requests = {r1, r2}
    Attempts = {a1, a2, a3}
    Keys = {k1, k2}
    Questions = {q1, q2}
    MaxTries = 1
INVARIANTS
    QuizTypeOK
    OneResult
    KeyNamesOneAttempt
    OverrunIsBounded
    GradeCoversSnapshot
