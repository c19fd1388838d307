\* Two accounts, two blocks after the deployment, two claims in flight at once.
SPECIFICATION FairSpec
CONSTANTS
  Accounts = {alice, bob}
  Rates = {1, 2}
  InitialRate = 1
  MaxBlock = 2
  MaxClaims = 2
INVARIANTS
  RewardsConserved
  BlocksNotAhead
  NoBlockPaidTwice
PROPERTY ClaimsSettle
