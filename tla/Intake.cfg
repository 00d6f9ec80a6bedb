SPECIFICATION MCSpec
CONSTANTS
    Application = {a1}
    CapturedBy <- Author
    Officer = {clerk, manager, secretary}
    Request = {q1, q2}
    Opening = {}
    Component = {entrance, shares}
    Earned = {entrance}
    Carries = {shares}
    Cashiers = {clerk}
    Treasurers = {manager}
    FeeTransfer = {x1}
    Receipts = 3
    Drawer = {d1}
    Document = {paper1}
    PaperOf <- OnePaper
    Expiring = {paper1}
    Version = {v1, v2}
    NoFile = NoFile
    Size <- FilesDiffer
    Uploaders = {clerk, manager}
    Checkers = {manager, secretary}
SYMMETRY Symmetry
CHECK_DEADLOCK FALSE
INVARIANTS
    OneLivePayment
    ReceiptsAccounted
    
    TransfersPayOnce
    OneLiveVersion
    LiveFileIsItsOwn

