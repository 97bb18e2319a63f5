CONSTANTS
    Choices <- MCChoices
    Fields <- MCFields
    RawLines <- MCRawLines
    Tags <- MCTags
    Numbers <- MCNumbers
SPECIFICATION ConsoleSpec
INVARIANTS ClientExitsUnseen NothingAfterExit MenuUnderstood NoShiftedAnswer
CHECK_DEADLOCK FALSE
