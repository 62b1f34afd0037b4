SPECIFICATION Spec
CONSTANTS
    Values = {v1, v2}
    Absent = Absent
    Chunks = 2
    TempNames = {t1, t2}
    Target = Target
    Inodes = {i1, i2, i3}
    NoInode = NoInode
    MaxCrashes = 2
INVARIANTS
    AnswerTrue ReadsOneContent
SYMMETRY Symmetry
PROPERTIES
    ImplementsRegister
