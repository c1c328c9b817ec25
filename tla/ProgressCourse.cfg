SPECIFICATION Spec
SYMMETRY Symmetry
CONSTRAINT VideoTime
CONSTANTS
    r1 = r1
    r2 = r2
    video = video
    quiz = quiz
    Null = Null
    Requests = {r1, r2}
    Resources = {video, quiz}
    Quizzes = {quiz}
    Timed = {video}
    Versions <- TwoVersions
    MinActive = 1
INVARIANTS
    ProgressTypeOK
    CompletedIsEarned
    BadgeIsEarned
    RecordedOnce
    AloneSettles
PROPERTIES
    AloneKeepsCompleted
