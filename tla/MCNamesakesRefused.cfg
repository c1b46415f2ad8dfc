CONSTANTS
  d1 = d1
  d2 = d2
  d3 = d3
  a1 = a1
  a2 = a2
  n1 = n1
  n2 = n2
  r1 = r1
  r2 = r2
  Root = Root
  Unborn = Unborn
  Gone = Gone
  NoName = NoName
  Directories = {d1, d2, d3}
  Assets = {a1, a2}
  Names = {n1, n2}
  Slots = {r1, r2}
SPECIFICATION Spec
SYMMETRY Symmetry
CONSTRAINT Scope
PROPERTY NamesakesRefused
