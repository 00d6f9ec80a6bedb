SPECIFICATION FrontSpec
CONSTANTS
  one = one
  two = two
  first = first
  second = second
  third = third
  App <- Three
  Nic = {n1}
  Blank = Blank
  Default = {msa}
  Further = {hsa}
  Clerk <- Pair
  Challenge = {c1, c2}
  Session = {s1, s2}
  Phone = {h1}
  MaxAttempts = 2
  MaxRefresh = 1
  Caller <- Pair
  Outlet = {o1}
  Promotion = {m1}
  Editor <- Pair
  LastDay = 1
  Wish = {w1, w2}
  Fingerprint = {f1, f2}
  Key = {k1}
  Attempt <- Three
  MaxRequests = 2
  MaxFailures = 1
SYMMETRY Alike
CHECK_DEADLOCK FALSE
INVARIANTS
  OnePersonOneMember
