SPECIFICATION Spec
CONSTANTS
    EnvTexts <- SomeTexts
    FileTexts <- SomeTexts
    Huge = 2000000000
INVARIANT RunsInRange
CHECK_DEADLOCK FALSE
