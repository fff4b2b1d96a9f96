SPECIFICATION Spec
CONSTANTS
    Launch = launch
    Told = told
    Subtask = subtask
    Goal = {g}
    Vqa = vqa
    None = none
    Horizon = 2
    Threshold = 1
    MaxCalls = 4
PROPERTIES StartIsKept
CHECK_DEADLOCK FALSE
