SPECIFICATION Spec
CONSTANTS
    MbSize = 3
    MaxEvents = 2
INVARIANTS
    TypeOK
    ModeFollowsButton
    RefusedOnlyIfOvertaken
