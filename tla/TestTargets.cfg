\* The Connection bar, both mocks, edits and restarts in every order.
SPECIFICATION Spec
CONSTANTS
  a1 = a1
  a2 = a2
  loop = loop
  p1 = p1
  p2 = p2
  l1 = l1
  l2 = l2
  Addresses <- MCAddresses
  Loopback = loop
  Ports <- MCPorts
  Locals <- MCLocals
  None = None
SYMMETRY MCSymmetry
INVARIANTS
  TypeOK
  ConnectionIsCurrent
  NestedUseRestores
PROPERTY
  ResponderFollowsPort
