CONSTANTS
    Sessions = {1, 2}
    Context = 5
    Eog = 2
    Tokens = {0, 1}
    Routes <- MCRoutes
    Prompts <- MCPrompts
    Chats <- MCChats
    Width = 3
    MaxFaults = 1
SPECIFICATION Spec
INVARIANTS KvAgree PlainOutput NoStrays
PROPERTY Answered
CHECK_DEADLOCK FALSE
