SPECIFICATION Spec
CONSTANTS
  c1 = c1
  c2 = c2
  p1 = p1
  p2 = p2
  Publishers <- MCPublishers
  Clients <- MCClients
  States = {offline, idle}
  Offline = offline
  MaxEvents = 3
SYMMETRY MCSymmetry
INVARIANTS InOrder ShownWhenQuiet
CHECK_DEADLOCK FALSE
