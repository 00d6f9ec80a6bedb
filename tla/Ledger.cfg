SPECIFICATION Spec
CONSTRAINT OneStory
CONSTANTS
  shares = shares
  msa = msa
  bobs = bobs
  ann = ann
  bob = bob
  opening = opening
  drawing = drawing
  debitLeg = debitLeg
  creditLeg = creditLeg
  reversal = reversal
  leave = leave
  NoTx = NoTx
  NoTransfer = NoTransfer
  Tx <- MCTx
  Account <- MCAccount
  Holder <- MCHolder
  Transfer <- MCTransfer
  HolderOf <- MCHolderOf
  Core <- AnnsCore
  Floor <- MCFloor
  Requests <- MCRequests
  WorkStatus <- MCWorkStatus
  Amounts <- MCAmounts
  OpenStatus <- MCOpenStatus
INVARIANTS
  NoDrift
  RunningBalance
  FloorHeld
  ReversalUndoes

  
  
