\* Every kind of form and twenty-three custom expressions, asked at sixteen times.
CONSTANTS
    Form <- Forms
    StartTime <- StartTimes
    Horizon <- ThirtyYears
SPECIFICATION Spec
INVARIANTS AnswersAsDocumented GivesUpOnNone FormsAreUnderstood
PROPERTIES NothingElseIsSkipped
\* The search ends with its answer.
CHECK_DEADLOCK FALSE
