CONSTANTS
  Addresses = {a1, a2}
  Max = 3
  Length = 4
  NoWindow = NoWindow
SPECIFICATION FairSpec
INVARIANT BurstBounded
PROPERTY NeverLockedOut
