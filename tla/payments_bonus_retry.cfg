\* A retry settles a credited transfer without its bonus.
CONSTANTS
  a1 = a1
  a2 = a2
  u1 = u1
  u2 = u2
  t1 = t1
  t2 = t2
  r1 = r1
  r2 = r2
  Attempts = {a1}
  Accounts = {u1}
  SystemAccount = system
  Txs = {t1}
  Requests = {r1, r2}
  Amounts = {1}
  CreditsPerUsd = 150
  RevenueShare = 7500
  TxFrom <- OneTransfer
  TxAmount <- PaysOne
  IntentTTL = 1
  PendingTTL = 1
  VerifyThrottle = 1
  MinConfirmations = 1
  MaxHeight = 2
  MaxTime = 1
  FundingCap = 2
  None = None
SPECIFICATION Spec
INVARIANTS
  RetryAppliesBonus
CHECK_DEADLOCK FALSE
