\* Three accounts, signer lists of up to three entries (repeated ones too),
\* two transactions, one chain with both of its states.
SPECIFICATION MPCSpec
CONSTANTS
  Accounts = {a1, a2, a3}
  TxIds = {t1, t2}
  Chains = {c1}
  MaxSigners = 3
  MaxChains = 1
INVARIANTS
  ThresholdInRange
  OneSignatureEach
PROPERTIES
  CompletionNeedsThreshold
  CompletedIsFinal
