CONSTANTS
    Tab = {t1, t2}
    Home = t1
    Answer = {blank, a1}
    Blank = blank
    TimeClose = 1
    MinTime = 1
    GraceMin = 1
    GracePeriod = 1
    MaxTime = 4
    MaxRequests = 2
SPECIFICATION QuizSpec
INVARIANTS
    QuizTypeOK
    StepsTellTheAnswer
PROPERTIES
    NoLostUpdate
    FinalStatesStay
    KeepsContract
    
CHECK_DEADLOCK FALSE
