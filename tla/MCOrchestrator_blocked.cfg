SPECIFICATION Spec
CONSTANTS
  a = a
  b = b
  c = c
  Specs <- ThreeSpecs
  Unknown = {ghost}

CHECK_DEADLOCK FALSE
INVARIANTS
  GroupsFollowDependencies
