\* Every adapter; one error, one request given up.
CONSTANTS
    p1 = p1  p2 = p2
    Client = {p1, p2}
    Content = {document, text}
    Texts = {text}
    Missing = Missing
    Bare = Bare
    Deleted = Deleted
    MaxCalls = 2
    MaxErrors = 1
    MaxTimeouts = 1
SPECIFICATION Spec
SYMMETRY Symmetric
CHECK_DEADLOCK FALSE
PROPERTIES
    UpsertsComeThrough
    ImplementsEntry
