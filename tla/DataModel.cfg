SPECIFICATION Spec
CONSTANTS
    Modifiers <- MCModifiers
    WordOrder <- MCWordOrder
    Markup <- MCMarkup
    Devices <- MCDevices
    SampleValues <- MCSampleValues
    Texts <- MCTexts
    Samples = 2
    BlockLen = 64
INVARIANTS TreeIsTheDirectory BothEndsAgree SamplesAreKept ValuesReachTheirNames
CHECK_DEADLOCK FALSE
