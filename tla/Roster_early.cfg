SPECIFICATION Spec
CONSTANTS
  alice = alice
  bob = bob
  carol = carol
  c1 = c1
  c2 = c2
  NoNick = NoNick
  Nick = {alice, bob, carol}
  Channel = {c1, c2}
  MaxOps = 4
  MaxQueue = 4
SYMMETRY Symmetry
INVARIANT RostersExact
CHECK_DEADLOCK FALSE
