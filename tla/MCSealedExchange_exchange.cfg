SPECIFICATION Spec
CONSTANTS
    None = None
    hello = hello
    there = there
    equation = equation
    part = part
    Cut <- MCCut
    Device = {1, 2}
    Scripts <- MCScripts
    Given <- MCGiven
    Sync <- MCSync
    MaxMoves = 1
    MaxAnswers = 2
INVARIANTS PendingDecodes AnswerComesBack
PROPERTY IsAConversation
CHECK_DEADLOCK FALSE
