\* One key more than the device takes peers, and three prefixes to fight over.
SPECIFICATION MCSpec
CONSTANTS
  NONE = NONE
  Keys = {k1, k2, k3}
  Refs = {r1, r2, r3}
  Prefixes = {x1, x2, x3}
  MAX_PEERS_PER_DEVICE = 2
  BAD = BAD
  Lines <- MCLines
  MaxLines = 5
INVARIANTS RoutesOwned PeersAllowed DecodedAsMeant
SYMMETRY ConfigSymmetry
