SPECIFICATION OfficeSpec
CONSTANTS
  q1 = q1
  q2 = q2
  x = x
  y = y
  z = z
  p1 = p1
  p2 = p2
  Person <- Persons
  Place <- Placed
  Nobody = Nobody
  Register <- Old
  OnFileFirst <- Earlier
  Batch = {"b"}
  Importer <- Requests
  Chunk = 2
  Branch = Branch
  Holder = {"h"}
  Adult = {"g1", "g2"}
  Field = {"mobile", "address"}
  SignInField = {"mobile"}
  AlwaysEditable = {"mobile", "address"}
  Value = {"", "new"}
  Empty = ""
  Verifier = {"clerk", "manager"}
  Counter <- Requests
  Instance = {"i", "j"}
  Admin <- Requests
  Reader = {r1}
  Load = {l1, l2}
  Type = {"t1", "t2"}
  Step = {"u", "v"}
  Status <- StepStatuses
  Uses <- StepUses
  Rule = {"f1", "f2", "f3"}
  Checklist = {k1, k2}
  Bank = {"b1", "b2"}
  Membership = {"adult", "minor"}
  Method = {"cash", "import"}
  SystemMethod = {"import"}
  Catalogue <- Acts
  Setting = {k1}
  MaxWrites = 2
  Staff = {u1}
  Role = {admin, officer}
  SystemRole = {admin}
  Permission = {m1}
  Visit = {v1}
  Desk <- Requests
  Web = {w1}
SYMMETRY Alike
CHECK_DEADLOCK FALSE
INVARIANTS
  ReadYourWrites
  RevokedAtOnce
PROPERTIES
  OthersKept
  CorrectionsSurvive
