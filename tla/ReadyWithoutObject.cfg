SPECIFICATION Spec
CONSTANTS
    h1 = h1
    h2 = h2
    k1 = k1
    k2 = k2
    pdf = pdf
    e1 = e1
    e2 = e2
    Handlers = {h1, h2}
    Keys = {k1, k2}
    NoKey = NoKey
    Bodies <- PdfBodies
    NoBody = NoBody
    AllowedTypes = {pdf}
    NoType = NoType
    Etags = {e1, e2}
    NoEtag = NoEtag
    MaxFileSize = 2
SYMMETRY UploadSymmetry
INVARIANT ReadyHasObject
