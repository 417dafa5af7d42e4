SPECIFICATION RSpec
CONSTANTS
    Files <- MCFiles
    MaxAttempts = 2
    MaxFileSize = 3
    MaxPdfPages = 3
    MaxImagePixels = 4
    MaxTextPerPage = 3
    MaxTextPerDocument = 5
    LayerSlack = 4
    RenderDpi = 4
    MinRenderDpi = 2
    MaxRenderPixels = 32
    MinChars = 2
    MinAlnumPercent = 50
    MaxLimit = 3
INVARIANTS
    TypeOK
    TextAccounted
    NativeTextOfItsPage
    ScratchBounded
    ResumePointExact
    WalkExact
CHECK_DEADLOCK FALSE
