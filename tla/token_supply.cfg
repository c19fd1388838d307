\* Two accounts in every combination of deployer, owner and LayerZero endpoint;
\* NEAR and one remote chain; up to 3 tokens, moved one or two at a time.  The
\* bridge is open or closed, at a fee of half, capped at 1: amounts 1 and 2 give
\* the fees 0 and 1, so both sides of the fee check occur.
SPECIFICATION TokenSpec
CONSTANTS
  Accounts = {alice, bob}
  Chains = {near, eth}
  NEAR = near
  NoOracle = NoOracle
  Switches = {TRUE, FALSE}
  FeeRates = {5000}
  MinFees = {0}
  MaxFees = {1}
  Amounts = {1, 2}
  Fees = {0, 1}
  MAX_SUPPLY = 3
  INITIAL_SUPPLY = 2
  Names = {"farming"}
INVARIANTS
  TypeOK
  NearCap
  BalancesAddUp
  
  OwnersInStep
