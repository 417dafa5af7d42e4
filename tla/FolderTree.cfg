SPECIFICATION Spec
CONSTANTS
    f1 = f1
    f2 = f2
    f3 = f3
    f4 = f4
    d1 = d1
    h1 = h1
    h2 = h2
    Folders = {f1, f2, f3, f4}
    NoFolder = NoFolder
    Docs = {d1}
    Handlers = {h1, h2}
    NoHandler = NoHandler
    MaxFolderDepth = 3
    RecursionLimit = 5
SYMMETRY TreeSymmetry
INVARIANTS
    TypeOK
    DepthBounded
    NothingDangles
PROPERTIES
    DeletionKeepsOrder
