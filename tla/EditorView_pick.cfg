CONSTANTS
    None = None
    Width <- MCWidth
    Bounded <- MCBounded
    Chars <- MCChars
    MaxLength = 3
    MaxPosts = 2
SPECIFICATION EditorSpec
PROPERTIES PickTakesOnlyTheQuery
CHECK_DEADLOCK FALSE
