SPECIFICATION Spec
CONSTANTS
    Graphic = {a}
    Control = {bell}
    a = a
    bell = bell
    CR = CR
    LF = LF
    NUL = NUL
    Dot = Dot
    Prefix = Prefix
    MAXCHAR_C = 2
    MaxSent = 6
INVARIANTS
    TypeOK
    LineShape
    OrderedText
    ShortLinesIntact
    LinesAccountedFor
