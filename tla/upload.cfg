SPECIFICATION Spec
CONSTANTS
    w1 = w1
    w2 = w2
    a = a
    b = b
    c = c
    g = g
    Writers = {w1, w2}
    Readers = {r1}
    Tags = {a, b}
    None = None
    Claims = {c, g}
    Garbled = {g}
    Requests <- SomeRequests
    Options <- SomeOptions
SYMMETRY Symmetry
INVARIANTS MetadataIsOfContent ReportIsTrue TagGuard
PROPERTIES ImplementsBlob
CHECK_DEADLOCK FALSE
