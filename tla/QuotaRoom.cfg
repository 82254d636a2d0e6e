SPECIFICATION Spec
CONSTANTS
  p1 = p1
  p2 = p2
  p3 = p3
  a1 = a1
  a2 = a2
  Publications = {p1, p2, p3}
  Admitters = {a1, a2}
  None = None
  LastDay = 2
  Planned <- MCPlanned
  Lineage <- MCLineage
  Limits <- MCLimits
INVARIANT RoomAdmits
