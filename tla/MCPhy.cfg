SPECIFICATION Spec
CONSTANTS
  PortCount = 3
PROPERTIES
  PhyImplementsLink
  LinkSettles
