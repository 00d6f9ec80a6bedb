SPECIFICATION ExitSpec
CONSTRAINT OneStory
CONSTANTS
  shares = shares
  hsa = hsa
  bobs = bobs
  bobs2 = bobs2
  ann = ann
  bob = bob
  o1 = o1
  o2 = o2
  o3 = o3
  app = app
  q1 = q1
  q2 = q2
  opening = opening
  request = request
  leave = leave
  claim = claim
  shut = shut
  one = one
  NoTx = NoTx
  NoTransfer = NoTransfer
  NoChain = NoChain
  Tx <- MCTx
  Account <- Four
  Holder <- AnnAndBob
  Transfer <- MCTransfer
  HolderOf <- HeldByBoth
  Core <- JustShares
  Floor <- NoFloor
  Officer <- OfficersAndApp
  App = app
  Captors <- Clerks
  Posters <- Paying
  Reversers = {}
  Chain <- OneChain
  Steps = 1
  OwnsStep <- Reviewing
  Amounts <- MCAmounts
  Band <- MCBand
  Forms <- MCForms
  Drafted <- MCDrafted
  Spare = {}
  Request <- MCRequest
  Customer <- JustBob
  ExitForms <- MCExitForms
  ExitChain = one
SYMMETRY Alike
CHECK_DEADLOCK FALSE
INVARIANTS
  
  NothingLeftOnClosed
PROPERTIES
  NoDraftOutlives
