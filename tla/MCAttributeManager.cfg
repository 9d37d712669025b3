CONSTANTS
    Infos <- MCInfos
    red = red
    blue = blue
    Values = {red, blue}
    MaxLength = 3
    MaxInsert = 2
    SBInvalidIndex = 5
SPECIFICATION Spec
SYMMETRY MCSymmetry
VIEW MCView
INVARIANTS
    TypeOK
    EntriesPartitionText
    ValuesAccounted
    DictionariesAccounted
    AttributeRunsAreExact
PROPERTIES
    ParagraphsStayUniform
    ImplementsAttributedText
