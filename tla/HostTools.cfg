SPECIFICATION HostToolsSpec
CONSTANTS
    Values <- SomeValues
    Depth <- SomeDepth
    Patterns <- SomePatterns
    ToolNames <- Names
    Blanks <- BlankStrings
    Earlier <- First
    Later <- Others
    Lines <- SomeLines
    Unreadable <- LongLines
    Outputs <- SomeOutputs
    Texts <- SomeTexts
    Surrogates <- LoneSurrogates
    MaxNesting = 2
    MaxFloat = 10
INVARIANTS HostToolsTypeOK MessagesAreSorted OnlyConformingCallsRun AnswersAreExact
CHECK_DEADLOCK FALSE
