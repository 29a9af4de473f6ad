\* The claims this refutes, one at a time: KeysLandAtHome with this file (two
\* controls of one window); WordsSurvive with Torn = TRUE; SelectionEnds with
\* Drops = TRUE; WordsSurvive with Roams <- BackAtTheGate and Root <- OwnWindows;
\* KeysLandAtHome and WordsSurvive with Roams <- Anywhere; StreakSurfaces with EnterPipeline.cfg.
SPECIFICATION Spec
CONSTANTS
    chat = chat editor = editor aside = aside NoControl = NoControl
    Chats = {chat} Editors = {editor, aside}
    Root <- OneWindow
    MaxWords = 2 MaxBreaks = 1 MaxPresses = 3 MaxMoves = 2 MaxEdits = 1
    Roams <- WhileTranslating
    TypesAhead = FALSE Torn = FALSE Drops = FALSE
CHECK_DEADLOCK FALSE
INVARIANTS KeysLandAtHome
