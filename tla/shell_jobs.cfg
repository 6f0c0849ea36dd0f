SPECIFICATION Spec
CONSTANTS
    Jobs = {1, 2}
    Irb = 1
    Managers = {0, 1}
INVARIANTS
    PromptQuiet
    ConsoleServed
    AnswerIsLine
PROPERTIES
    StopHonoured
    PromptComesBack
