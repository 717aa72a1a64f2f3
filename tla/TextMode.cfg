CONSTANTS
    XRESOLUTION = 6
    YRESOLUTION = 3
    WordSize = 64
    Space = Space
    Blank = Blank
    Unset = Unset
    Glyphs = {Space, a}
SPECIFICATION Spec
PROPERTY ImplementsTerminal
