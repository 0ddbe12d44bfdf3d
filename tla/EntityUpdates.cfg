SPECIFICATION MCSpec
CONSTANTS
    f1 = f1
    f2 = f2
    a = a
    b = b
    Editors = {e1, e2}
    Fields = {f1, f2}
    Kept = {f2}
    Apart = {f2}
    Values = {a, b}
    Unset = Unset
    Inputs <- MCInputs
    Reread = TRUE
    None = None
    NoEdit = NoEdit
    MaxVersion = 3
INVARIANTS IInv HistoryFaithful HistoryComplete
PROPERTIES NoLostUpdate RestoresExact WritesAnnounced
