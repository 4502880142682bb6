SPECIFICATION FairSpec
CONSTANTS
    Glyph = {x, y}
    NUL = NUL
    MAX_STR = 2
    GlyphWidth = 3
    Scroll = 4
    UintMod = 16
    SemMax = 2
INVARIANTS
    TypeOK
    SettledText
PROPERTIES
    TextIsShown
    ScrollSettles
