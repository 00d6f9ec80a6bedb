SPECIFICATION Spec
CONSTRAINT OneStory
CONSTANTS
  shares = shares
  bobs = bobs
  ann = ann
  bob = bob
  o1 = o1
  o2 = o2
  o3 = o3
  app = app
  opening = opening
  debitLeg = debitLeg
  creditLeg = creditLeg
  r1 = r1
  r2 = r2
  r3 = r3
  r4 = r4
  q1 = q1
  q2 = q2
  NoTx = NoTx
  NoTransfer = NoTransfer
  NoChain = NoChain
  Tx <- PaperTx
  Account <- MCAccount
  Holder <- MCHolder
  Transfer <- MCTransfer
  HolderOf <- AnnsAccounts
  Core <- MCAccount
  Floor <- NoFloor
  Officer <- TransferOfficers
  App = app
  Captors <- AppAndClerks
  Posters <- Officers
  Reversers <- Officers
  Chain <- TwoChains
  Steps = 1
  OwnsStep <- EveryStep
  Amounts <- MCAmounts
  Band <- TwoBand
  Forms <- PaperForms
  Drafted = {}
  Spare <- ReversalSpare
  Request <- MCRequest
  Customer = {}
SYMMETRY Alike
INVARIANTS
  ReversedTogether
