CONSTANTS
    Codepoints <- MCCodepoints
    Trailing = "x"
    ScriptStackCapacity = 2
    SBInvalidIndex = 15
    Texts <- MCTexts
    Lengths <- MCLengths
    MaxDropped = 1
SPECIFICATION Spec
INVARIANTS
    TypeOK
    RunsAsPromised
    ScriptsAsRuled
    VisualRunsAsRuled
    MirrorsAsRuled
    RunsFit
    LinesReleased
