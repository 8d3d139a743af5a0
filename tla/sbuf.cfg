\* Buffers of two and four bytes, up to four bytes of text.
CONSTANTS
    Chars = {"a", "b", "c", " ", "."}
    Texts <- MCTexts
    Space = " "
    Pad = "."
    Multiple = 3
    Wrap = 1
    Sizes = {2, 4}
    MinExtend = 2
    MaxExtend = 4
    MaxText = 4
    MaxDepth = 2
SPECIFICATION FairSpec
INVARIANTS NoSilentLoss SectionsCount
PROPERTIES CallsReturn
