SPECIFICATION Spec
CONSTANTS
  Stakers = {s1, s2}
  Amounts = {5, 100}
  Losses = {300}
  Revenues = {0, 30}
  Transfers = {4}
  unstaking_period = 1
  total_factor = 2
  user_factor = 1
  EPOCH_DURATION = 1
  max_transfer_per_epoch = 7
  MaxTime = 3
  MaxTransactions = 4
SYMMETRY StakerSymmetry
INVARIANTS
  TypeOK
  SharesAddUp
  SharesAreBacked
  EpochCapHolds
PROPERTIES
  NobodyIsDiluted
  EscrowDoesNotEarn
CHECK_DEADLOCK FALSE
