CONSTANTS
    Tab = {t1}
    Home = t1
    Answer = {blank, a1}
    Blank = blank
    TimeClose = 2
    MinTime = 1
    GraceMin = 1
    GracePeriod = 1
    MaxTime = 5
    MaxRequests = 2
SPECIFICATION QuizSpec
PROPERTIES
    AttemptCloses
CHECK_DEADLOCK FALSE
