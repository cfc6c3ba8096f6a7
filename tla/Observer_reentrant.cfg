SPECIFICATION Spec
CONSTANTS
  Observers = {o1, o2, o3}
  Observables = {s1, s2}
  None = None
  MaxDepth = 2
SYMMETRY Symmetric
INVARIANTS TypeOK LinksAgree NoDeadCall NoneSkipped
