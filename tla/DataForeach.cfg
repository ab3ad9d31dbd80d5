SPECIFICATION Spec
CONSTANTS
    Modifiers <- MCModifiers
    WordOrder <- MCWordOrder
    Markup <- MCMarkup
    Devices <- ForeachDevices
    SampleValues <- MCSampleValues
    Texts <- MCTexts
    Samples = 2
    BlockLen = 64
INVARIANT ForeachFindsEachSample
CHECK_DEADLOCK FALSE
