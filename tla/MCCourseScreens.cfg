CONSTANTS
    SomeSites <- MCSites
    Me = 1
    MaxTaps = 2
SPECIFICATION ScreensSpec
INVARIANTS
    ScreensTypeOK
    TabsShowTheirCourse
    ListedCoursesAreMine
