SPECIFICATION MCSpec
CONSTANTS
    clerk = clerk
    manager = manager
    secretary = secretary
    president = president
    deputy = deputy
    Application = {a1}
    CapturedBy <- Author
    Officer = {clerk, manager, secretary, president, deputy}
    Request = {q1, q2}
    RolesOf <- Roles
    Online = {clerk, manager}
    Quorum = 2
    Switched = {"regional_review"}
    Document = {d1}
    PaperOf <- OnePaper
    Expiring = {}
    Version = {v1}
    NoFile = NoFile
    Size <- FilesDiffer
    Uploaders = {}
    Checkers = {secretary}
    Opening = {}
    Component = {entrance, shares}
    Earned = {entrance}
    Carries = {shares}
    Cashiers = {clerk}
    Treasurers = {manager}
    FeeTransfer = {}
    Receipts = 1
    Drawer = {}
SYMMETRY Symmetry
CHECK_DEADLOCK FALSE
INVARIANTS
    AdmittedByQuorum
PROPERTIES
    PeopleKeptApart
