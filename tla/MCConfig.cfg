\* Every option of both programs; two mentions of the option and two of the file on
\* the command line, two files.
SPECIFICATION Spec
CONSTANTS
    t1 = t1
    t2 = t2
    p1 = p1
    p2 = p2
    Texts = {t1, t2}
    Numbers <- MCNumbers
    Durations <- MCDurations
    Paths = {p1, p2}
    Empty = Empty
    Garbled = Garbled
    Unset = Unset
    DefaultText = DefaultText
    MaxArgs = 2
SYMMETRY MCSymmetry
INVARIANTS
    Precedence
    FileIntervalExact
CHECK_DEADLOCK FALSE
