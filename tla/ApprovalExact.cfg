SPECIFICATION CRSpec
CONSTANTS
  o1 = o1
  o2 = o2
  v1 = v1
  b1 = b1
  Operators = {o1, o2}
  Copies = {v1}
  Backgrounds = {b1}
INVARIANT ApprovalExact
