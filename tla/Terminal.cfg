CONSTANTS
    Lines <- MCLines
    Left <- MCLeft
    Right <- MCRight
    Prompts <- MCPrompts
    Blank = "blank"
    MaxLines = 4
    MaxChunk = 3
SPECIFICATION Spec
CHECK_DEADLOCK FALSE
INVARIANTS
    TypeOK
    NewTextsReported
