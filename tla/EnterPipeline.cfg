SPECIFICATION FairSpec
CONSTANTS
    chat = chat editor = editor aside = aside NoControl = NoControl
    Chats = {chat} Editors = {editor}
    Root <- OwnWindows
    MaxWords = 2 MaxBreaks = 1 MaxPresses = 3 MaxMoves = 2 MaxEdits = 1
    Roams <- WhileTranslating
    TypesAhead = FALSE Torn = FALSE Drops = FALSE
CHECK_DEADLOCK FALSE
INVARIANTS WordsSurvive TranslatedOnce KeysLandAtHome SelectionEnds
PROPERTIES WorkerFrees
