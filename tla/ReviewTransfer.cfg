SPECIFICATION Spec
CONSTANTS
  shares = shares
  bobs = bobs
  ann = ann
  bob = bob
  o1 = o1
  o2 = o2
  o3 = o3
  app = app
  opening = opening
  debitLeg = debitLeg
  creditLeg = creditLeg
  r1 = r1
  r2 = r2
  r3 = r3
  r4 = r4
  q1 = q1
  q2 = q2
  NoTx = NoTx
  NoTransfer = NoTransfer
  NoChain = NoChain
  Tx <- TransferTx
  Account <- MCAccount
  Holder <- MCHolder
  Transfer <- MCTransfer
  HolderOf <- MCHolderOf
  Core <- MCAccount
  Floor <- MCFloor
  Officer <- TransferOfficers
  App = app
  Captors <- Clerks
  Posters <- Officers
  Reversers = {}
  Chain <- OneChain
  Steps = 2
  OwnsStep <- AllSteps
  Amounts <- MCAmounts
  Band <- OneBand
  Forms <- TransferForms
  Drafted = {}
  Spare = {}
  Request <- MCRequest
  Customer = {}
SYMMETRY Alike
INVARIANTS
  ThreePeople
  TransferReadsDebitLeg
  LegsAgree
  BothLegsOrNeither
