CONSTANTS
    Context = 12
    Eog = 2
    Tokens = {0, 1}
    Shapes <- MCShapes
    Prompt <- MCPrompt
SPECIFICATION Spec
INVARIANTS Paired PlainOutput
PROPERTY Terminates
CHECK_DEADLOCK FALSE
