\* One purchase of the browser with overlapping polls, and another client that polls it.
CONSTANTS
  a1 = a1
  a2 = a2
  u1 = u1
  u2 = u2
  t1 = t1
  t2 = t2
  r1 = r1
  r2 = r2
  r3 = r3
  Attempts = {a1}
  Accounts = {u1}
  SystemAccount = system
  Txs = {t1}
  Requests = {r1, r2, r3}
  Browser = {r1, r2}
  Amounts = {1}
  CreditsPerUsd = 150
  RevenueShare = 7500
  TxFrom <- OneTransfer
  TxAmount <- PaysOne
  IntentTTL = 1
  PendingTTL = 0
  VerifyThrottle = 1
  MinConfirmations = 1
  MaxHeight = 1
  MaxTime = 1
  FundingCap = 1
  None = None
SPECIFICATION FlowSpec
PROPERTIES
  FlowEnds
  ImplementsPurchaseLedger
CHECK_DEADLOCK FALSE
