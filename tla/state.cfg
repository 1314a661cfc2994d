SPECIFICATION Spec
CONSTANTS
  Process = {p1, p2, p3}
  Nobody = Nobody
  Lost = Lost
SYMMETRY ProcessSymmetry
CHECK_DEADLOCK FALSE
INVARIANTS
  TypeOK
  NeverRefused
  AlwaysCoherent
PROPERTIES
  SerialFocusedMutation
  RefinesStore
