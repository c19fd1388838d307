\* Two messages: out and back, two out, or one lost and one delivered, on a
\* bridge that costs 1 whatever is sent and may be closed in between.
SPECIFICATION Spec
CONSTANTS
  Accounts = {alice, bob}
  Chains = {near, eth}
  NEAR = near
  NoOracle = NoOracle
  Switches = {TRUE, FALSE}
  FeeRates = {50}
  MinFees = {1}
  MaxFees = {1}
  Amounts = {1}
  Fees = {1}
  MAX_SUPPLY = 2
  INITIAL_SUPPLY = 1
  Names = {}
  MaxMessages = 2
INVARIANTS
  BridgeTypeOK
  Conservation
