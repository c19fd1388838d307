\* Two addresses, up to three numbers each.
SPECIFICATION NonceSpec
CONSTANTS
  Addresses = {w1, w2}
  Unlocked = Unlocked
  MaxNonce = 3
INVARIANTS
  AheadUntilSetBack
  DuplicateOnlySetBack
