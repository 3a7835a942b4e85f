\* The settings file against what the operator set, with both mocks in use.
SPECIFICATION Spec
CONSTANTS
  a1 = a1
  a2 = a2
  loop = loop
  p1 = p1
  p2 = p2
  l1 = l1
  l2 = l2
  Addresses <- MCAddresses
  Loopback = loop
  Ports <- MCPorts
  Locals <- MCLocals
  None = None
INVARIANT SavedIsReal
