SPECIFICATION Spec
CONSTANTS
    Launch = launch
    Told = told
    Subtask = subtask
    Goal = {g}
    Vqa = vqa
    None = none
    Horizon = 2
    Threshold = 1
    MaxCalls = 4
INVARIANTS TypeOK LastWordStands NoStaleAction OneTurnAtATime
PROPERTIES StopIsHeard ResetIsHeard QuestionIsAnswered
CHECK_DEADLOCK FALSE
