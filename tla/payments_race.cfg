\* Two attempts of two users for two transfers of one wallet, with a clock and a chain that moves.
CONSTANTS
  a1 = a1
  a2 = a2
  u1 = u1
  u2 = u2
  t1 = t1
  t2 = t2
  r1 = r1
  r2 = r2
  Attempts = {a1, a2}
  Accounts = {u1, u2}
  SystemAccount = system
  Txs = {t1, t2}
  Requests = {r1, r2}
  Amounts = {1, 2}
  CreditsPerUsd = 150
  RevenueShare = 7500
  TxFrom <- OneWallet
  TxAmount <- PayTwoAndOne
  IntentTTL = 1
  PendingTTL = 0
  VerifyThrottle = 1
  MinConfirmations = 1
  MaxHeight = 1
  MaxTime = 1
  FundingCap = 1
  None = None
SPECIFICATION Spec
CONSTRAINT Focus
SYMMETRY Symmetry
INVARIANTS
  IInv
  TxBoundOnce
  OneCreditPerTransfer
  CreditsBackedByTransfer
  SettlementFollowsCredit
